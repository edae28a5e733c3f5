--------------------------- MODULE PlanSyncProofs ---------------------------
(***************************************************************************)
(* Theorems about PlanSync, for any plan and any number of runs and        *)
(* requests.                                                               *)
(***************************************************************************)
EXTENDS PlanSync, TLAPS

-----------------------------------------------------------------------------
\* The inductive invariant

Busy(r) == run[r] = "accepted" \/ UnderWay(r)
Writes(r, file) == writing[r] # Nothing /\ writing[r].to = file

\* When a segment of the server may be under way.
Fits(op, r) ==
  /\ op = "recover" => r \in Runs /\ run[r] = "none"
  /\ op = "attach" => r \in Runs /\ monitor[r] = "starting"
  /\ op = "tick" => r \in Runs /\ monitor[r] = "watching"
  /\ op = "final" => r \in Runs /\ monitor[r] = "watching" /\ run[r] = "exited"
  /\ op = "conclude" => r \in Runs /\ monitor[r] = "settling"
  /\ op = "changes" => asked < MaxAsks

\* How each run, its monitor and the segment under way go together.
Phases ==
  /\ Fits(held.op, held.by)
  /\ held.op \in {"final", "recover"} => held.plan.readable
  /\ \A r \in Runs :
       /\ run[r] \in {"none", "accepted"} <=> monitor[r] = "none"
       /\ monitor[r] \in {"settling", "dropping", "over"} => run[r] = "exited"
       /\ writing[r] # Nothing => run[r] \in {"copying", "working"}
       /\ kept[r] # NoPlan => run[r] = "accepted" \/ monitor[r] = "starting"

\* No run is beside another.
One == \A q, r \in Runs : Busy(q) /\ Busy(r) => q = r

\* Where a run that is alone stands in the worktree.
Places ==
  \A r \in Runs :
    /\ run[r] = "working" => wtThere
    /\ run[r] = "copying" => (wtThere <=> writing[r] # Nothing)
    /\ Writes(r, "wt") => wt = Torn

\* No agent writes, and the work of the last one has been brought over.
Still ==
  \A r \in Runs :
    \/ run[r] \in {"none", "accepted", "starting"}
    \/ run[r] = "copying" /\ writing[r] = Nothing
    \/ run[r] = "exited" /\ (~wtThere \/ monitor[r] \in {"settling", "dropping", "over"})

\* The work is in the worktree's copy, or in what is being written there; and, while all is
\* still, in every plan that is or may come into the main copy.
WorkIsSafe ==
  /\ wtThere /\ (\A r \in Runs : ~Writes(r, "wt")) => HasWork(wt)
  /\ \A r \in Runs : Writes(r, "wt") => HasWork(writing[r].plan)
  /\ Still => HasWork(main)
  /\ Still => \A r \in Runs : kept[r] # NoPlan => HasWork(kept[r])
  /\ Still /\ held # Nothing /\ held.plan.readable => HasWork(held.plan)
  /\ held.op = "final" => HasWork(held.plan)

IInv == TypeOK /\ Phases /\ (~beside => One /\ Places /\ WorkIsSafe)

-----------------------------------------------------------------------------
\* What the segments write

LEMMA AsksInRange == NoAsk \in 0..MaxAsks /\ Feedback \subseteq 0..MaxAsks
BY AsksAssumption DEF NoAsk, Feedback

\* An empty plan and a file that does not parse have no work, and one is told from another.
LEMMA EmptyPlans ==
  /\ Empty \in Plan /\ Lost(Empty) /\ Empty.readable
  /\ Torn \in Plan /\ Lost(Torn) /\ ~Torn.readable
  /\ \A plan \in Plan : ~plan.readable => plan = Torn
<1>1. Empty.mark \in [Subtasks -> Marks \cup {"absent"}] /\ Empty.ask \in [Feedback -> 0..MaxAsks]
  BY AsksInRange DEF Empty
<1>2. Empty \in Plan BY <1>1 DEF Empty, Plan
<1>3. Torn.mark = Empty.mark /\ ~Torn.readable BY DEF Torn, Empty
<1> QED BY <1>2, <1>3 DEF Plan, Lost, Present, Empty

\* The merge of two plans is a plan that has all the completed subtasks of the first, and
\* nothing but what is in the first.
LEMMA MergeIsPlan ==
  ASSUME NEW theirs \in Plan, NEW ours \in Plan, theirs.readable, ours.readable
  PROVE  /\ Merge(theirs, ours) \in Plan /\ Merge(theirs, ours).readable
         /\ Done(theirs) \subseteq Done(Merge(theirs, ours))
         /\ Present(Merge(theirs, ours)) \subseteq Present(theirs)
<1>0. theirs # Torn /\ ours # Torn BY EmptyPlans
<1>1. ASSUME NEW s \in Done(theirs) PROVE Merge(theirs, ours).mark[s] = "completed"
  <2>1. s \in Subtasks /\ theirs.mark[s] = "completed" BY DEF Done
  <2>2. ~(Rank(ours.mark[s]) > Rank(theirs.mark[s])) BY <2>1 DEF Rank
  <2> QED BY <2>1, <2>2 DEF Merge
<1>2. Merge(theirs, ours) \in Plan BY <1>0 DEF Merge, Plan
<1>3. Present(Merge(theirs, ours)) \subseteq Present(theirs) BY DEF Merge, Present
<1>4. Merge(theirs, ours).readable BY DEF Merge
<1> QED BY <1>1, <1>2, <1>3, <1>4 DEF Done

LEMMA MergeHasWork ==
  ASSUME NEW theirs \in Plan, NEW ours \in Plan, theirs.readable, ours.readable, HasWork(theirs)
  PROVE  HasWork(Merge(theirs, ours))
BY MergeIsPlan DEF HasWork, Lost

\* A route starts from one of the two copies, or from nothing when it cannot be read.
LEMMA BaseIsPlan ==
  ASSUME TypeOK
  PROVE  /\ Base \in Plan /\ Base.readable
         /\ HasWork(main) /\ (wtThere /\ wt.readable => HasWork(wt)) => HasWork(Base)
<1>1. Synced = main \/ (Synced = wt /\ wtThere /\ wt.readable) BY DEF Synced, Ahead
<1>2. CASE Synced.readable BY <1>1, <1>2 DEF Base, TypeOK
<1>3. CASE ~Synced.readable
  <2>1. Synced = main /\ main = Torn /\ Base = Empty
    BY <1>1, <1>3, EmptyPlans DEF Base, TypeOK
  <2>2. HasWork(main) => HasWork(Empty)
    BY <2>1, EmptyPlans DEF HasWork, Lost, Present, Done
  <2> QED BY <2>1, <2>2, EmptyPlans
<1> QED BY <1>2, <1>3

\* A change request drops no completed subtask.
LEMMA RequestIsPlan ==
  ASSUME NEW plan \in Plan, NEW n \in Feedback \ Done(plan), NEW a \in 0..MaxAsks, ~Lost(plan)
  PROVE  /\ WithRequest(plan, n, a) \in Plan
         /\ HasWork(plan) => HasWork(WithRequest(plan, n, a))
<1>0. plan # Torn BY EmptyPlans
<1>1. WithRequest(plan, n, a).mark \in [Subtasks -> Marks \cup {"absent"}]
  BY <1>0, MarksAssumption DEF WithRequest, Plan
<1>2. WithRequest(plan, n, a).ask \in [Feedback -> 0..MaxAsks]
  BY <1>0, AsksInRange DEF WithRequest, Plan
<1>3. ASSUME NEW mark \in [Subtasks -> Marks \cup {"absent"}], NEW ask \in [Feedback -> 0..MaxAsks]
      PROVE  [mark |-> mark, ask |-> ask, readable |-> TRUE] \in Plan
  BY DEF Plan
<1>4. WithRequest(plan, n, a) \in Plan
  <2>1. WithRequest(plan, n, a) =
          [mark |-> WithRequest(plan, n, a).mark, ask |-> WithRequest(plan, n, a).ask,
           readable |-> TRUE]
    BY DEF WithRequest
  <2> QED BY <1>1, <1>2, <1>3, <2>1
<1>5. ASSUME NEW s \in Done(plan) PROVE WithRequest(plan, n, a).mark[s] = "completed"
  BY <1>5 DEF WithRequest, Done
<1>6. Done(plan) \subseteq Done(WithRequest(plan, n, a)) BY <1>5 DEF Done
<1> QED BY <1>4, <1>6 DEF HasWork

-----------------------------------------------------------------------------
\* What a segment, or a step of a run, leaves alone

\* A segment that will write a plan with all the work keeps the invariant, if it comes at
\* the right moment.
LEMMA ReadKeepsIInv ==
  ASSUME IInv, NEW op \in Ops, NEW r \in Runs \cup {NoRun}, NEW plan \in Plan,
         WillWrite(op, r, plan), Fits(op, r), op \in {"final", "recover"} => plan.readable,
         ~beside /\ plan.readable /\ (Still \/ op = "final") => HasWork(plan)
  PROVE  IInv'
<1>1. /\ held = Nothing /\ held' = [op |-> op, by |-> r, plan |-> plan]
      /\ held'.op = op /\ held'.by = r /\ held'.plan = plan
      /\ UNCHANGED <<main, wt, wtThere, run, writing, killed, monitor, tracked, kept, built,
                     asked, beside>>
  BY DEF WillWrite, service
<1>2. TypeOK' BY <1>1 DEF IInv, TypeOK
<1>3. Phases' BY <1>1 DEF IInv, Phases, Fits
<1>4. (One /\ Places => One' /\ Places') /\ (Still' <=> Still)
  BY <1>1 DEF One, Busy, UnderWay, Alive, Places, Writes, Still
<1>5. ASSUME ~beside' PROVE WorkIsSafe'
  <2>1. WorkIsSafe /\ ~beside BY <1>1, <1>5 DEF IInv
  <2> QED BY <1>1, <1>4, <2>1 DEF WorkIsSafe, Writes, HasWork, Done, Lost, Present
<1> QED BY <1>1, <1>2, <1>3, <1>4, <1>5 DEF IInv

\* While a run works, the others do not write, and the plans of the main copy are its own
\* affair until the last sync.
LEMMA WorkerIsAlone ==
  ASSUME IInv, ~beside, NEW r \in Runs, Alive(r)
  PROVE  /\ \A q \in Runs \ {r} : ~Busy(q) /\ writing[q] = Nothing
         /\ \A q \in Runs \ {r} : \/ run[q] = "none"
                                  \/ run[q] = "exited" /\ monitor[q] \in {"settling", "dropping", "over"}
         /\ held.op # "final"
<1>1. One /\ Phases /\ Busy(r) /\ TypeOK BY DEF IInv, Busy, UnderWay
<1>2. ASSUME NEW q \in Runs \ {r}
      PROVE  /\ ~Busy(q) /\ writing[q] = Nothing
             /\ \/ run[q] = "none"
                \/ run[q] = "exited" /\ monitor[q] \in {"settling", "dropping", "over"}
  <2>1. ~Busy(q) BY <1>1, <1>2 DEF One
  <2> QED BY <1>1, <2>1 DEF Busy, UnderWay, Alive, Phases, TypeOK
<1>3. held.op # "final"
  <2> SUFFICES ASSUME held.op = "final" PROVE FALSE
    OBVIOUS
  <2>1. held.by \in Runs /\ monitor[held.by] = "watching" /\ run[held.by] = "exited"
    BY <1>1 DEF Phases, Fits
  <2> QED BY <1>1, <2>1 DEF One, Busy, UnderWay, Alive
<1> QED BY <1>2, <1>3

-----------------------------------------------------------------------------
\* Each action keeps the invariant

\* A run begins a write: what it writes into the worktree has the work.
LEMMA BeginKeepsIInv ==
  ASSUME IInv, NEW r \in Runs, NEW file \in {"wt", "main"}, NEW plan \in Plan,
         run[r] = "working" \/ (run[r] = "copying" /\ file = "wt"),
         BeginWrite(r, file, plan), wtThere' = TRUE, built' \subseteq Subtasks,
         ~beside /\ file = "wt" => built' \subseteq Done(plan) \/ (killed /\ Lost(plan)),
         file = "main" => built' = built
  PROVE  IInv'
<1>1. /\ writing[r] = Nothing
      /\ writing' = [writing EXCEPT ![r] = [to |-> file, plan |-> plan]]
      /\ UNCHANGED <<killed, held, asked, run, monitor, tracked, kept, beside>>
      /\ file = "wt" => wt' = Torn /\ UNCHANGED main
      /\ file = "main" => main' = Torn /\ UNCHANGED wt
  BY DEF BeginWrite, service
<1>2. TypeOK /\ Phases BY DEF IInv
<1>3. TypeOK' BY <1>1, <1>2, EmptyPlans DEF TypeOK
<1>4. Phases'
  <2>1. Fits(held.op, held.by)' BY <1>1, <1>2 DEF Phases, Fits
  <2>2. \A q \in Runs : writing'[q] # Nothing => run[q] \in {"copying", "working"}
    BY <1>1, <1>2 DEF Phases, TypeOK
  <2> QED BY <1>1, <1>2, <2>1, <2>2 DEF Phases
<1>5. ASSUME ~beside' PROVE One' /\ Places' /\ WorkIsSafe'
  <2>1. One /\ Places /\ WorkIsSafe /\ ~beside BY <1>1, <1>5 DEF IInv
  <2>2. /\ held.op # "final"
        /\ \A q \in Runs \ {r} : writing[q] = Nothing /\ run[q] \in {"none", "exited"}
    BY <2>1, WorkerIsAlone DEF Alive
  <2>3. /\ writing'[r] = [to |-> file, plan |-> plan] /\ writing'[r].to = file
        /\ writing'[r].plan = plan /\ writing'[r] # Nothing
        /\ \A q \in Runs \ {r} : writing'[q] = Nothing
    BY <1>1, <1>2, <2>2 DEF TypeOK, Nothing
  <2>4. One' BY <1>1, <2>1 DEF One, Busy, UnderWay, Alive
  <2>5. Places' BY <1>1, <2>1, <2>2, <2>3 DEF Places, Writes
  <2>6. ~Still' BY <1>1, <2>3 DEF Still
  <2>7. ASSUME file = "wt" PROVE WorkIsSafe'
    <3>1. built' \subseteq Done(plan) \/ (killed' /\ Lost(plan)) BY <1>1, <2>1, <2>7
    <3>2. \A q \in Runs : Writes(q, "wt")' => HasWork(writing[q].plan)'
      BY <2>3, <3>1 DEF Writes, HasWork, Done, Lost, Present
    <3>3. Writes(r, "wt")' BY <2>3, <2>7 DEF Writes
    <3> QED BY <1>1, <2>2, <2>6, <3>2, <3>3 DEF WorkIsSafe
  <2>8. ASSUME file = "main" PROVE WorkIsSafe'
    <3>1. wtThere /\ \A q \in Runs : ~Writes(q, "wt")
      BY <1>1, <2>1, <2>2, <2>8 DEF Places, Writes
    <3>2. HasWork(wt) BY <2>1, <3>1 DEF WorkIsSafe
    <3>3. HasWork(wt)' BY <1>1, <2>8, <3>2 DEF HasWork, Done, Lost, Present
    <3>4. \A q \in Runs : ~Writes(q, "wt")' BY <2>3, <2>8 DEF Writes
    <3> QED BY <1>1, <2>2, <2>6, <3>3, <3>4 DEF WorkIsSafe
  <2> QED BY <2>4, <2>5, <2>7, <2>8
<1> QED BY <1>3, <1>4, <1>5 DEF IInv

\* A run that begins to write: the copy of the specification, a subtask, a status, a sync.
LEMMA WritersBegin ==
  ASSUME IInv, NEW r \in Runs,
         \/ CopySpec(r) \/ SetStatus(r) \/ SyncPlanToSource(r)
         \/ \E s \in Subtasks, m \in Marks : MarkSubtask(r, s, m)
  PROVE  IInv'
<1>1. main \in Plan /\ wt \in Plan /\ built \subseteq Subtasks BY DEF IInv, TypeOK
<1>2. ASSUME ~beside, run[r] = "working", writing[r] = Nothing PROVE HasWork(wt)
  <2>1. \A q \in Runs : ~Writes(q, "wt")
    BY <1>2, WorkerIsAlone DEF Alive, Writes
  <2>2. wtThere BY <1>2 DEF IInv, Places
  <2> QED BY <1>2, <2>1, <2>2 DEF IInv, WorkIsSafe
<1>3. CASE CopySpec(r)
  <2>1. run[r] = "copying" /\ BeginWrite(r, "wt", main) /\ wtThere' = TRUE /\ built' = built
        /\ writing[r] = Nothing /\ killed' = killed /\ UNCHANGED main
    BY <1>3 DEF CopySpec, BeginWrite
  <2>2. ASSUME ~beside PROVE HasWork(main)
    <3>1. Still BY <2>1, <2>2, WorkerIsAlone DEF Alive, Still
    <3> QED BY <2>2, <3>1 DEF IInv, WorkIsSafe
  <2> QED BY <1>1, <2>1, <2>2, BeginKeepsIInv DEF HasWork
<1>4. CASE SetStatus(r)
  <2>1. run[r] = "working" /\ BeginWrite(r, "wt", wt) /\ wtThere' = TRUE /\ built' = built
        /\ writing[r] = Nothing /\ killed' = killed
    BY <1>4 DEF SetStatus, BeginWrite
  <2> QED BY <1>1, <1>2, <2>1, BeginKeepsIInv DEF HasWork
<1>5. CASE SyncPlanToSource(r)
  <2>1. run[r] = "working" /\ BeginWrite(r, "main", wt) /\ wtThere' = TRUE /\ built' = built
    BY <1>5 DEF SyncPlanToSource
  <2> QED BY <1>1, <2>1, BeginKeepsIInv
<1>6. ASSUME NEW s \in Subtasks, NEW m \in Marks, MarkSubtask(r, s, m) PROVE IInv'
  <2> DEFINE plan == [wt EXCEPT !.mark[s] = m]
  <2>1. run[r] = "working" /\ BeginWrite(r, "wt", plan) /\ wtThere' = TRUE
        /\ writing[r] = Nothing /\ s \in Present(wt)
        /\ built' = IF m = "completed" THEN built \cup {s} ELSE built \ {s}
    BY <1>6 DEF MarkSubtask, BeginWrite
  <2>2. wt # Torn BY <2>1, EmptyPlans DEF Lost
  <2>3. plan \in Plan BY <1>1, <2>2 DEF Plan
  <2>4. ASSUME ~beside PROVE built' \subseteq Done(plan)
    <3>1. built \subseteq Done(wt) BY <1>2, <2>1, <2>4 DEF HasWork, Lost
    <3>2. \A t \in Subtasks : plan.mark[t] = IF t = s THEN m ELSE wt.mark[t]
      BY <1>1, <2>2 DEF Plan
    <3>3. \A t \in built' : t \in Subtasks /\ plan.mark[t] = "completed"
      BY <1>1, <2>1, <3>1, <3>2 DEF Done
    <3> QED BY <3>3 DEF Done
  <2>5. built' \subseteq Subtasks BY <1>1, <2>1
  <2> HIDE DEF plan
  <2> QED BY <2>1, <2>3, <2>4, <2>5, BeginKeepsIInv
<1> QED BY <1>3, <1>4, <1>5, <1>6

\* The worktree's directory is removed: the run has done nothing yet.
LEMMA RemoveKeepsIInv ==
  ASSUME IInv, NEW r \in Runs, RemoveOldCopy(r)
  PROVE  IInv'
<1>1. /\ run[r] = "starting" /\ run' = [run EXCEPT ![r] = "copying"]
      /\ wtThere' = FALSE /\ wt' = Torn
      /\ UNCHANGED <<main, writing, killed, monitor, tracked, held, kept, built, asked, beside>>
  BY DEF RemoveOldCopy
<1>2. TypeOK /\ Phases BY DEF IInv
<1>3. TypeOK' BY <1>1, <1>2, EmptyPlans DEF TypeOK
<1>4. Phases' BY <1>1, <1>2 DEF Phases, Fits, TypeOK
<1>5. ASSUME ~beside' PROVE One' /\ Places' /\ WorkIsSafe'
  <2>1. One /\ Places /\ WorkIsSafe /\ ~beside BY <1>1, <1>5 DEF IInv
  <2>2. /\ held.op # "final"
        /\ \A q \in Runs \ {r} : /\ writing[q] = Nothing
                                 /\ \/ run[q] = "none"
                                    \/ run[q] = "exited" /\ monitor[q] \in {"settling", "dropping", "over"}
    BY <1>1, <2>1, WorkerIsAlone DEF Alive
  <2>3. \A q \in Runs : writing[q] = Nothing BY <1>1, <1>2, <2>2 DEF Phases
  <2>4. Still BY <1>1, <2>2 DEF Still
  <2>5. One' BY <1>1, <1>2, <2>1 DEF One, Busy, UnderWay, Alive, TypeOK
  <2>6. Places' BY <1>1, <1>2, <2>2, <2>3 DEF Places, Writes, TypeOK
  <2>7. WorkIsSafe'
    BY <1>1, <2>1, <2>2, <2>3, <2>4 DEF WorkIsSafe, Writes, HasWork, Done, Lost, Present
  <2> QED BY <2>5, <2>6, <2>7
<1> QED BY <1>3, <1>4, <1>5 DEF IInv

\* A write is complete: the run works, on a copy with the work.
LEMMA EndKeepsIInv ==
  ASSUME IInv, NEW r \in Runs, EndWrite(r)
  PROVE  IInv'
<1>1. /\ Alive(r) /\ writing[r] # Nothing
      /\ run' = [run EXCEPT ![r] = "working"] /\ writing' = [writing EXCEPT ![r] = Nothing]
      /\ UNCHANGED <<wtThere, killed, monitor, tracked, held, kept, built, asked, beside>>
  BY DEF EndWrite
<1>2. TypeOK /\ Phases BY DEF IInv
<1>3. /\ writing[r].plan \in Plan /\ writing[r].to \in {"wt", "main"}
      /\ writing[r].to = "main" => main' = writing[r].plan /\ UNCHANGED wt
      /\ writing[r].to = "wt" => UNCHANGED main /\ wt' = IF wtThere THEN writing[r].plan ELSE wt
  BY <1>1, <1>2 DEF EndWrite, TypeOK
<1>4. TypeOK' BY <1>1, <1>2, <1>3 DEF TypeOK
<1>5. Phases' BY <1>1, <1>2 DEF Phases, Fits, TypeOK, Alive
<1>6. ASSUME ~beside' PROVE One' /\ Places' /\ WorkIsSafe'
  <2>1. One /\ Places /\ WorkIsSafe /\ ~beside BY <1>1, <1>6 DEF IInv
  <2>2. /\ held.op # "final"
        /\ \A q \in Runs \ {r} : writing[q] = Nothing /\ run[q] \in {"none", "exited"}
    BY <1>1, <2>1, WorkerIsAlone
  <2>3. /\ wtThere /\ run'[r] = "working" /\ (\A q \in Runs : writing'[q] = Nothing)
        /\ \A q \in Runs \ {r} : run'[q] \in {"none", "exited"}
    BY <1>1, <1>2, <2>1, <2>2 DEF Places, Phases, TypeOK
  <2>4. One' BY <1>1, <1>2, <2>1 DEF One, Busy, UnderWay, Alive, TypeOK
  <2>5. Places' BY <1>1, <2>3 DEF Places, Writes
  <2>6. ~Still' BY <2>3 DEF Still
  <2>7. HasWork(wt)'
    <3>1. CASE writing[r].to = "wt"
      <4>1. HasWork(writing[r].plan) BY <1>1, <2>1, <3>1 DEF WorkIsSafe, Writes
      <4> QED BY <1>1, <1>3, <2>3, <3>1, <4>1 DEF HasWork, Done, Lost, Present
    <3>2. CASE writing[r].to = "main"
      <4>1. HasWork(wt) BY <2>1, <2>2, <2>3, <3>2 DEF WorkIsSafe, Writes
      <4> QED BY <1>1, <1>3, <3>2, <4>1 DEF HasWork, Done, Lost, Present
    <3> QED BY <1>3, <3>1, <3>2
  <2>8. WorkIsSafe' BY <1>1, <2>2, <2>3, <2>6, <2>7 DEF WorkIsSafe, Writes
  <2> QED BY <2>4, <2>5, <2>8
<1> QED BY <1>4, <1>5, <1>6 DEF IInv

\* A run ends: what it was writing is lost, and the kill is noted.
LEMMA ExitKeepsIInv ==
  ASSUME IInv, NEW r \in Runs, Exit(r)
  PROVE  IInv'
<1>1. /\ Alive(r) /\ run' = [run EXCEPT ![r] = "exited"]
      /\ writing' = [writing EXCEPT ![r] = Nothing]
      /\ killed' = (killed \/ writing[r] # Nothing)
      /\ UNCHANGED <<main, wt, wtThere, monitor, tracked, held, kept, built, asked, beside>>
  BY DEF Exit
<1>2. TypeOK /\ Phases BY DEF IInv
<1>3. TypeOK'
  <2>1. killed' \in BOOLEAN BY <1>1
  <2> QED BY <1>1, <1>2, <2>1 DEF TypeOK
<1>4. Phases' BY <1>1, <1>2 DEF Phases, Fits, TypeOK, Alive
<1>5. ASSUME ~beside' PROVE One' /\ Places' /\ WorkIsSafe'
  <2>1. One /\ Places /\ WorkIsSafe /\ ~beside BY <1>1, <1>5 DEF IInv
  <2>2. /\ held.op # "final"
        /\ \A q \in Runs \ {r} : /\ writing[q] = Nothing
                                 /\ run[q] \in {"none", "exited"}
                                 /\ run[q] = "exited" => monitor[q] \in {"settling", "dropping", "over"}
    BY <1>1, <2>1, WorkerIsAlone
  <2>3. /\ run'[r] = "exited" /\ (\A q \in Runs : writing'[q] = Nothing)
        /\ \A q \in Runs \ {r} : run'[q] = run[q]
    BY <1>1, <1>2, <2>2 DEF TypeOK
  <2>4. One' BY <1>1, <1>2, <2>1 DEF One, Busy, UnderWay, Alive, TypeOK
  <2>5. Places' BY <1>1, <2>2, <2>3 DEF Places, Writes
  <2>6. Still' => Still
    <3>1. monitor[r] \notin {"settling", "dropping", "over"}
      BY <1>1, <1>2 DEF Phases, Alive
    <3>2. ASSUME ~wtThere
          PROVE  run[r] = "starting" \/ (run[r] = "copying" /\ writing[r] = Nothing)
      BY <1>1, <2>1, <3>2 DEF Places, Alive
    <3>3. Still' => ~wtThere BY <1>1, <2>3, <3>1 DEF Still
    <3> QED BY <2>2, <3>2, <3>3 DEF Still
  <2>7. wtThere => HasWork(wt)'
    <3>1. CASE Writes(r, "wt")
      BY <1>1, <2>1, <3>1, EmptyPlans DEF Places, Writes, HasWork, Lost, Present
    <3>2. CASE ~Writes(r, "wt")
      <4>1. \A q \in Runs : ~Writes(q, "wt") BY <2>2, <3>2 DEF Writes
      <4> QED BY <1>1, <2>1, <4>1 DEF WorkIsSafe, HasWork, Done, Lost, Present
    <3> QED BY <3>1, <3>2
  <2>8. \A plan : HasWork(plan) => built \subseteq Done(plan) \/ (killed' /\ Lost(plan))
    BY <1>1 DEF HasWork
  <2>9. WorkIsSafe'
    BY <1>1, <2>1, <2>2, <2>3, <2>6, <2>7, <2>8
    DEF WorkIsSafe, Writes, HasWork, Done, Lost, Present
  <2> QED BY <2>4, <2>5, <2>9
<1> QED BY <1>3, <1>4, <1>5 DEF IInv

\* Every step of run.py.
LEMMA AgentKeepsIInv ==
  ASSUME IInv, NEW r \in Runs, Agent(r)
  PROVE  IInv'
BY WritersBegin, RemoveKeepsIInv, EndKeepsIInv, ExitKeepsIInv DEF Agent

\* The worktree's copy, when nobody is writing it, and when all is still, has the work.
LEMMA WorktreeHasWork ==
  ASSUME IInv, ~beside, wtThere, wt.readable \/ Still
  PROVE  HasWork(wt)
<1>1. ASSUME NEW q \in Runs, Writes(q, "wt") PROVE FALSE
  <2>1. wt = Torn BY <1>1 DEF IInv, Places
  <2>2. Still BY <2>1, EmptyPlans
  <2>3. run[q] \in {"copying", "working"} BY <1>1 DEF IInv, Phases, Writes
  <2> QED BY <1>1, <2>2, <2>3 DEF Still, Writes
<1> QED BY <1>1 DEF IInv, WorkIsSafe

\* Every request, and every read of a monitor.
LEMMA ReadersKeepIInv ==
  ASSUME IInv,
         \/ Drag \/ RequestChanges \/ Stop
         \/ \E r \in Runs : Recover(r) \/ Attach(r) \/ Sync(r) \/ Conclude(r)
  PROVE  IInv'
<1> USE DEF Ops, Fits
<1>0. /\ TypeOK /\ main \in Plan /\ wt \in Plan
      /\ ~beside /\ Still => HasWork(main)
      /\ Base \in Plan /\ Base.readable
      /\ ~beside /\ Still => HasWork(Base)
  <2>1. TypeOK /\ main \in Plan /\ wt \in Plan BY DEF IInv, TypeOK
  <2>2. ~beside /\ Still => HasWork(main) BY DEF IInv, WorkIsSafe
  <2> QED BY <2>1, <2>2, BaseIsPlan, WorktreeHasWork
<1>1. CASE Drag BY <1>0, <1>1, ReadKeepsIInv DEF Drag
<1>2. CASE RequestChanges
  <2>1. PICK n \in Feedback \ Done(main) : WillWrite("changes", NoRun, WithRequest(main, n, asked + 1))
    BY <1>2 DEF RequestChanges
  <2>2. asked < MaxAsks /\ asked + 1 \in 0..MaxAsks /\ ~Lost(main)
    BY <1>0, <1>2, AsksAssumption DEF RequestChanges, TypeOK
  <2>3. /\ WithRequest(main, n, asked + 1) \in Plan
        /\ HasWork(main) => HasWork(WithRequest(main, n, asked + 1))
    BY <1>0, <2>2, RequestIsPlan
  <2> HIDE DEF Ops
  <2>4. "changes" \in Ops BY DEF Ops
  <2> QED BY <1>0, <2>1, <2>2, <2>3, <2>4, ReadKeepsIInv
<1>3. CASE Stop
  <2>1. tracked \in Runs \cup {NoRun} /\ WillWrite("stop", tracked, main)
    BY <1>0, <1>3 DEF Stop, TypeOK
  <2> QED BY <1>0, <2>1, ReadKeepsIInv
<1>4. ASSUME NEW r \in Runs, Recover(r) PROVE IInv'
  <2>1. run[r] = "none" /\ WillWrite("recover", r, Base) BY <1>4 DEF Recover, Fresh
  <2> QED BY <1>0, <2>1, ReadKeepsIInv
<1>5. ASSUME NEW r \in Runs, Attach(r) PROVE IInv'
  <2>1. monitor[r] = "starting" BY <1>5 DEF Attach
  <2>2. PICK plan \in IF kept[r] = NoPlan THEN {main, Torn} ELSE {kept[r]} :
          WillWrite("attach", r, plan)
    BY <1>5 DEF Attach
  <2>3. CASE kept[r] = NoPlan
    <3>1. plan = main \/ plan = Torn BY <2>3
    <3> QED BY <1>0, <2>1, <2>2, <3>1, EmptyPlans, ReadKeepsIInv
  <2>4. CASE kept[r] # NoPlan
    <3>1. plan = kept[r] /\ kept[r] \in Plan BY <1>0, <2>4 DEF TypeOK
    <3>2. ~beside /\ Still => HasWork(kept[r]) BY <2>4 DEF IInv, WorkIsSafe
    <3> QED BY <2>1, <2>2, <3>1, <3>2, ReadKeepsIInv
  <2> QED BY <2>3, <2>4
<1>6. ASSUME NEW r \in Runs, Sync(r) PROVE IInv'
  <2>1. /\ monitor[r] = "watching" /\ wtThere /\ wt.readable /\ main.readable
        /\ WillWrite(IF run[r] = "exited" THEN "final" ELSE "tick", r, Merge(wt, main))
    BY <1>6 DEF Sync
  <2>2. Merge(wt, main) \in Plan /\ Merge(wt, main).readable BY <1>0, <2>1, MergeIsPlan
  <2>3. ~beside => HasWork(Merge(wt, main))
    BY <1>0, <2>1, WorktreeHasWork, MergeHasWork
  <2>4. CASE run[r] = "exited" BY <2>1, <2>2, <2>3, <2>4, ReadKeepsIInv
  <2>5. CASE run[r] # "exited" BY <2>1, <2>2, <2>3, <2>5, ReadKeepsIInv
  <2> QED BY <2>4, <2>5
<1>7. ASSUME NEW r \in Runs, Conclude(r) PROVE IInv'
  <2>1. monitor[r] = "settling" /\ WillWrite("conclude", r, main) BY <1>7 DEF Conclude
  <2> QED BY <1>0, <2>1, ReadKeepsIInv
<1> QED BY <1>1, <1>2, <1>3, <1>4, <1>5, <1>6, <1>7

\* A start, which is accepted while nothing else is under way or is noted to be beside it.
LEMMA AcceptIsAlone ==
  ASSUME TypeOK, Phases, NEW r \in Runs, run[r] = "none", Accept(r), ~beside'
  PROVE  /\ ~beside /\ run' = [run EXCEPT ![r] = "accepted"]
         /\ \A q \in Runs : ~Busy(q) /\ writing[q] = Nothing /\ kept[q] = NoPlan
         /\ Still
<1>1. /\ ~beside /\ run' = [run EXCEPT ![r] = "accepted"]
      /\ \A q \in Runs : ~Busy(q)
  BY DEF Accept, Busy
<1>2. \A q \in Runs : writing[q] = Nothing /\ kept[q] = NoPlan
  BY <1>1 DEF Busy, UnderWay, Alive, Phases
<1>3. Still BY <1>1 DEF Still, Busy, UnderWay, Alive, Phases, TypeOK
<1> QED BY <1>1, <1>2, <1>3

\* A start by a route, a spawn, and the end of a monitor.
LEMMA StartsKeepIInv ==
  ASSUME IInv,
         \E r \in Runs : \/ Start(r) \/ Spawn(r) \/ Defer(r) \/ DropTracking(r)
                         \/ \E q \in Runs : Restart(r, q)
  PROVE  IInv'
<1>0. TypeOK /\ Phases BY DEF IInv
<1>1. ASSUME NEW r \in Runs, Start(r) PROVE IInv'
  <2>1. /\ run[r] = "none" /\ held = Nothing /\ Accept(r)
        /\ run' = [run EXCEPT ![r] = "accepted"]
        /\ UNCHANGED <<main, wt, wtThere, writing, killed, monitor, tracked, held, kept, built, asked>>
    BY <1>1 DEF Start, Fresh, Accept
  <2>2. TypeOK' BY <1>0, <2>1 DEF TypeOK, Accept
  <2>3. Phases' BY <1>0, <2>1 DEF Phases, Fits, TypeOK, Nothing
  <2>4. ASSUME ~beside' PROVE One' /\ Places' /\ WorkIsSafe'
    <3>1. ~beside /\ (\A q \in Runs : ~Busy(q)) /\ Still
      BY <1>0, <2>1, <2>4, AcceptIsAlone
    <3>2. Places /\ WorkIsSafe BY <3>1 DEF IInv
    <3>3. One' BY <1>0, <2>1, <3>1 DEF One, Busy, UnderWay, Alive, TypeOK
    <3>4. Places' BY <1>0, <2>1, <3>2 DEF Places, Writes, TypeOK
    <3>5. WorkIsSafe'
      BY <2>1, <3>1, <3>2 DEF WorkIsSafe, Writes, HasWork, Done, Lost, Present
    <3> QED BY <3>3, <3>4, <3>5
  <2> QED BY <2>2, <2>3, <2>4 DEF IInv
<1>2. ASSUME NEW r \in Runs, Spawn(r) PROVE IInv'
  <2>1. /\ run[r] = "accepted" /\ held = Nothing
        /\ run' = [run EXCEPT ![r] = "starting"]
        /\ monitor' = [monitor EXCEPT ![r] = "starting"] /\ tracked' = r
        /\ UNCHANGED <<main, wt, wtThere, writing, killed, held, kept, built, asked, beside>>
    BY <1>2 DEF Spawn
  <2>2. TypeOK' BY <1>0, <2>1 DEF TypeOK
  <2>3. Phases' BY <1>0, <2>1 DEF Phases, Fits, TypeOK, Nothing
  <2>4. ASSUME ~beside' PROVE One' /\ Places' /\ WorkIsSafe'
    <3>1. One /\ Places /\ WorkIsSafe BY <2>1, <2>4 DEF IInv
    <3>2. One' BY <1>0, <2>1, <3>1 DEF One, Busy, UnderWay, Alive, TypeOK
    <3>3. Places' BY <1>0, <2>1, <3>1 DEF Places, Writes, TypeOK
    <3>4. Still' => Still BY <1>0, <2>1 DEF Still, TypeOK
    <3>5. WorkIsSafe'
      BY <2>1, <3>1, <3>4 DEF WorkIsSafe, Writes, HasWork, Done, Lost, Present
    <3> QED BY <3>2, <3>3, <3>5
  <2> QED BY <2>2, <2>3, <2>4 DEF IInv
<1>3. ASSUME NEW r \in Runs, Defer(r) \/ DropTracking(r) PROVE IInv'
  <2>1. /\ monitor[r] \in {"settling", "dropping"} /\ held = Nothing
        /\ monitor' = [monitor EXCEPT ![r] = "over"] /\ tracked' \in {tracked, NoRun}
        /\ UNCHANGED <<main, wt, wtThere, run, writing, killed, held, kept, built, asked, beside>>
    BY <1>3 DEF Defer, DropTracking, MonitorEnds
  <2>2. TypeOK' BY <1>0, <2>1 DEF TypeOK
  <2>3. Phases' BY <1>0, <2>1 DEF Phases, Fits, TypeOK, Nothing
  <2>4. ASSUME ~beside' PROVE One' /\ Places' /\ WorkIsSafe'
    <3>1. One /\ Places /\ WorkIsSafe BY <2>1, <2>4 DEF IInv
    <3>2. One' BY <1>0, <2>1, <3>1 DEF One, Busy, UnderWay, Alive, TypeOK
    <3>3. Places' BY <2>1, <3>1 DEF Places, Writes
    <3>4. Still' => Still BY <1>0, <2>1 DEF Still, TypeOK
    <3>5. WorkIsSafe'
      BY <2>1, <3>1, <3>4 DEF WorkIsSafe, Writes, HasWork, Done, Lost, Present
    <3> QED BY <3>2, <3>3, <3>5
  <2> QED BY <2>2, <2>3, <2>4 DEF IInv
<1>4. ASSUME NEW r \in Runs, NEW q \in Runs, Restart(r, q) PROVE IInv'
  <2>1. /\ monitor[r] = "settling" /\ run[q] = "none" /\ held = Nothing /\ Accept(q)
        /\ run' = [run EXCEPT ![q] = "accepted"]
        /\ monitor' = [monitor EXCEPT ![r] = "over"] /\ tracked' \in {tracked, NoRun}
        /\ UNCHANGED <<main, wt, wtThere, writing, killed, held, kept, built, asked>>
    BY <1>4 DEF Restart, MonitorEnds, Fresh, Accept
  <2>2. TypeOK' BY <1>0, <2>1 DEF TypeOK, Accept
  <2>3. Phases' BY <1>0, <2>1 DEF Phases, Fits, TypeOK, Nothing
  <2>4. ASSUME ~beside' PROVE One' /\ Places' /\ WorkIsSafe'
    <3>1. ~beside /\ (\A p \in Runs : ~Busy(p)) /\ Still
      BY <1>0, <2>1, <2>4, AcceptIsAlone
    <3>2. Places /\ WorkIsSafe BY <3>1 DEF IInv
    <3>3. One' BY <1>0, <2>1, <3>1 DEF One, Busy, UnderWay, Alive, TypeOK
    <3>4. Places' BY <1>0, <2>1, <3>2 DEF Places, Writes, TypeOK
    <3>5. WorkIsSafe'
      BY <2>1, <3>1, <3>2 DEF WorkIsSafe, Writes, HasWork, Done, Lost, Present
    <3> QED BY <3>3, <3>4, <3>5
  <2> QED BY <2>2, <2>3, <2>4 DEF IInv
<1> QED BY <1>1, <1>2, <1>3, <1>4

\* The copy of a file that does not parse: the last one of a run makes all still.
LEMMA CopyKeepsIInv ==
  ASSUME IInv, NEW r \in Runs, CopyPlan(r)
  PROVE  IInv'
<1>0. TypeOK /\ Phases BY DEF IInv
<1>1. /\ monitor[r] = "watching" /\ held = Nothing
      /\ main' = IF wtThere THEN wt ELSE main
      /\ monitor' = [monitor EXCEPT ![r] = IF run[r] = "exited" THEN "settling" ELSE "watching"]
      /\ UNCHANGED <<wt, wtThere, run, writing, killed, tracked, held, kept, built, asked, beside>>
  BY DEF CopyPlan
<1>2. TypeOK' BY <1>0, <1>1 DEF TypeOK
<1>3. Phases' BY <1>0, <1>1 DEF Phases, Fits, TypeOK, Nothing
<1>4. ASSUME ~beside' PROVE One' /\ Places' /\ WorkIsSafe'
  <2>1. One /\ Places /\ WorkIsSafe /\ ~beside BY <1>1, <1>4 DEF IInv
  <2>2. One' BY <1>0, <1>1, <2>1 DEF One, Busy, UnderWay, Alive, TypeOK
  <2>3. Places' BY <1>1, <2>1 DEF Places, Writes
  <2>4. \A q \in Runs : kept[q] = NoPlan
    <3> SUFFICES ASSUME NEW q \in Runs, kept[q] # NoPlan PROVE FALSE
      OBVIOUS
    <3>1. Busy(q) /\ Busy(r) BY <1>0, <1>1 DEF Phases, Busy, UnderWay
    <3>2. q = r BY <2>1, <3>1 DEF One
    <3> QED BY <1>0, <1>1, <3>2 DEF Phases
  <2>5. Still' => \A q \in Runs : ~Writes(q, "wt")
    BY <1>0, <1>1 DEF Still, Phases, Writes
  <2>6. Still' /\ ~wtThere => Still BY <1>0, <1>1 DEF Still, TypeOK
  <2>7. Still' => HasWork(main')
    BY <1>1, <2>1, <2>5, <2>6 DEF WorkIsSafe
  <2>8. WorkIsSafe'
    BY <1>1, <2>1, <2>4, <2>7 DEF WorkIsSafe, Writes, HasWork, Done, Lost, Present, Nothing
  <2> QED BY <2>2, <2>3, <2>8
<1> QED BY <1>2, <1>3, <1>4 DEF IInv

\* The write of a segment.
LEMMA WritePlanKeepsIInv ==
  ASSUME IInv, WritePlan
  PROVE  IInv'
<1>0. TypeOK /\ Phases BY DEF IInv
<1>1. /\ held \in [op : Ops, by : Runs \cup {NoRun}, plan : Plan] /\ held # Nothing
      /\ held' = Nothing /\ held'.op = "none"
      /\ main' = (IF held.plan.readable THEN held.plan ELSE main)
      /\ UNCHANGED <<wt, wtThere, writing, killed, built>>
  BY <1>0 DEF WritePlan, TypeOK, Nothing
<1>2. asked' \in 0..MaxAsks
  BY <1>0, <1>1, AsksAssumption DEF WritePlan, TypeOK, Phases, Fits
<1>3. ASSUME ~beside, Still \/ held.op = "final" PROVE HasWork(main')
  BY <1>1, <1>0, <1>3 DEF IInv, WorkIsSafe, Phases
<1> USE DEF Ops
<1>4. CASE held.op \in {"drag", "changes", "tick", "stop"}
  <2>1. UNCHANGED <<run, monitor, kept, beside>> /\ tracked' \in {tracked, NoRun}
    BY <1>4 DEF WritePlan
  <2>2. TypeOK' BY <1>0, <1>1, <1>2, <2>1 DEF TypeOK
  <2>3. Phases' BY <1>0, <1>1, <2>1 DEF Phases, Fits
  <2>4. ASSUME ~beside' PROVE One' /\ Places' /\ WorkIsSafe'
    <3>1. One /\ Places /\ WorkIsSafe /\ ~beside BY <2>1, <2>4 DEF IInv
    <3>2. One' /\ Places' /\ (Still' <=> Still)
      BY <1>1, <2>1, <3>1 DEF One, Busy, UnderWay, Alive, Places, Writes, Still
    <3>3. WorkIsSafe'
      BY <1>1, <1>3, <2>1, <3>1, <3>2 DEF WorkIsSafe, Writes, HasWork, Done, Lost, Present
    <3> QED BY <3>2, <3>3
  <2> QED BY <2>2, <2>3, <2>4 DEF IInv
<1>5. CASE held.op = "recover"
  <2> DEFINE r == held.by
  <2>1. /\ r \in Runs /\ run[r] = "none" /\ held.plan.readable
        /\ Accept(r) /\ tracked' = NoRun /\ UNCHANGED monitor
        /\ kept' = [kept EXCEPT ![r] = held.plan]
        /\ run' = [run EXCEPT ![r] = "accepted"]
    BY <1>0, <1>5 DEF WritePlan, Phases, Fits, Accept
  <2> HIDE DEF r
  <2>2. TypeOK' BY <1>0, <1>1, <1>2, <2>1 DEF TypeOK, Accept
  <2>3. Phases' BY <1>0, <1>1, <2>1 DEF Phases, Fits, TypeOK
  <2>4. ASSUME ~beside' PROVE One' /\ Places' /\ WorkIsSafe'
    <3>1. /\ ~beside /\ (\A q \in Runs : ~Busy(q)) /\ Still
          /\ \A q \in Runs : kept[q] = NoPlan /\ writing[q] = Nothing
      BY <1>0, <2>1, <2>4, AcceptIsAlone
    <3>2. Places /\ WorkIsSafe BY <3>1 DEF IInv
    <3>3. One' BY <1>0, <2>1, <3>1 DEF One, Busy, UnderWay, Alive, TypeOK
    <3>4. Places' BY <1>0, <1>1, <2>1, <3>2 DEF Places, Writes, TypeOK
    <3>5. \A q \in Runs : kept'[q] # NoPlan => q = r /\ kept'[q] = held.plan
      BY <1>0, <2>1, <3>1 DEF TypeOK
    <3>6. HasWork(main') /\ main' = held.plan BY <1>1, <1>3, <2>1, <3>1
    <3>7. WorkIsSafe'
      BY <1>1, <3>1, <3>2, <3>5, <3>6 DEF WorkIsSafe, Writes, HasWork, Done, Lost, Present
    <3> QED BY <3>3, <3>4, <3>7
  <2> QED BY <2>2, <2>3, <2>4 DEF IInv
<1>6. CASE held.op = "attach"
  <2> DEFINE r == held.by
  <2>1. /\ r \in Runs /\ monitor[r] = "starting"
        /\ UNCHANGED <<run, tracked, beside>> /\ monitor' = [monitor EXCEPT ![r] = "watching"]
        /\ kept' = [kept EXCEPT ![r] = NoPlan]
    BY <1>0, <1>6 DEF WritePlan, Phases, Fits
  <2> HIDE DEF r
  <2>2. TypeOK' BY <1>0, <1>1, <1>2, <2>1 DEF TypeOK
  <2>3. Phases' BY <1>0, <1>1, <2>1 DEF Phases, Fits, TypeOK
  <2>4. ASSUME ~beside' PROVE One' /\ Places' /\ WorkIsSafe'
    <3>1. One /\ Places /\ WorkIsSafe /\ ~beside BY <2>1, <2>4 DEF IInv
    <3>2. One' BY <1>0, <2>1, <3>1 DEF One, Busy, UnderWay, Alive, TypeOK
    <3>3. Places' BY <1>1, <2>1, <3>1 DEF Places, Writes
    <3>4. Still' => Still BY <1>0, <1>1, <2>1 DEF Still, TypeOK
    <3>5. \A q \in Runs : kept'[q] # NoPlan => kept'[q] = kept[q] BY <1>0, <2>1 DEF TypeOK
    <3>6. WorkIsSafe'
      BY <1>1, <1>3, <3>1, <3>4, <3>5 DEF WorkIsSafe, Writes, HasWork, Done, Lost, Present
    <3> QED BY <3>2, <3>3, <3>6
  <2> QED BY <2>2, <2>3, <2>4 DEF IInv
<1>7. CASE held.op = "final"
  <2> DEFINE r == held.by
  <2>1. /\ r \in Runs /\ monitor[r] = "watching" /\ run[r] = "exited"
        /\ UNCHANGED <<run, tracked, kept, beside>> /\ monitor' = [monitor EXCEPT ![r] = "settling"]
    BY <1>0, <1>7 DEF WritePlan, Phases, Fits
  <2> HIDE DEF r
  <2>2. TypeOK' BY <1>0, <1>1, <1>2, <2>1 DEF TypeOK
  <2>3. Phases' BY <1>0, <1>1, <2>1 DEF Phases, Fits, TypeOK
  <2>4. ASSUME ~beside' PROVE One' /\ Places' /\ WorkIsSafe'
    <3>1. One /\ Places /\ WorkIsSafe /\ ~beside BY <2>1, <2>4 DEF IInv
    <3>2. One' BY <1>0, <2>1, <3>1 DEF One, Busy, UnderWay, Alive, TypeOK
    <3>3. Places' BY <1>1, <2>1, <3>1 DEF Places, Writes
    <3>4. \A q \in Runs : kept[q] = NoPlan
      <4> SUFFICES ASSUME NEW q \in Runs, kept[q] # NoPlan PROVE FALSE
        OBVIOUS
      <4>1. Busy(q) /\ Busy(r) BY <1>0, <2>1 DEF Phases, Busy, UnderWay
      <4>2. q = r BY <2>1, <3>1, <4>1 DEF One
      <4> QED BY <1>0, <2>1, <4>2 DEF Phases
    <3>5. HasWork(main') BY <1>3, <1>7, <3>1
    <3>6. WorkIsSafe'
      BY <1>1, <2>1, <3>1, <3>4, <3>5 DEF WorkIsSafe, Writes, HasWork, Done, Lost, Present
    <3> QED BY <3>2, <3>3, <3>6
  <2> QED BY <2>2, <2>3, <2>4 DEF IInv
<1>8. CASE held.op = "conclude"
  <2> DEFINE r == held.by
  <2>1. /\ r \in Runs /\ monitor[r] = "settling"
        /\ UNCHANGED <<run, tracked, kept, beside>> /\ monitor' = [monitor EXCEPT ![r] = "dropping"]
    BY <1>0, <1>8 DEF WritePlan, Phases, Fits
  <2> HIDE DEF r
  <2>2. TypeOK' BY <1>0, <1>1, <1>2, <2>1 DEF TypeOK
  <2>3. Phases' BY <1>0, <1>1, <2>1 DEF Phases, Fits, TypeOK
  <2>4. ASSUME ~beside' PROVE One' /\ Places' /\ WorkIsSafe'
    <3>1. One /\ Places /\ WorkIsSafe /\ ~beside BY <2>1, <2>4 DEF IInv
    <3>2. One' BY <1>0, <2>1, <3>1 DEF One, Busy, UnderWay, Alive, TypeOK
    <3>3. Places' BY <1>1, <2>1, <3>1 DEF Places, Writes
    <3>4. Still' => Still BY <1>0, <1>1, <2>1 DEF Still, TypeOK
    <3>5. WorkIsSafe'
      BY <1>1, <1>3, <2>1, <3>1, <3>4 DEF WorkIsSafe, Writes, HasWork, Done, Lost, Present
    <3> QED BY <3>2, <3>3, <3>5
  <2> QED BY <2>2, <2>3, <2>4 DEF IInv
<1> QED BY <1>1, <1>4, <1>5, <1>6, <1>7, <1>8

\* The invariant holds throughout.
LEMMA Inductive == Spec => []IInv
<1>1. Init => IInv
  <2> SUFFICES ASSUME Init PROVE IInv
    OBVIOUS
  <2>1. /\ held.op = "none" /\ held = Nothing /\ built = {} /\ wt = Torn /\ wtThere = FALSE
        /\ \A r \in Runs : /\ run[r] = "none" /\ monitor[r] = "none"
                           /\ writing[r] = Nothing /\ kept[r] = NoPlan
    BY DEF Init, Nothing
  <2>2. main \in Plan
    <3>1. main.mark \in [Subtasks -> Marks \cup {"absent"}] BY MarksAssumption DEF Init, Empty
    <3>2. main.ask \in [Feedback -> 0..MaxAsks] BY AsksInRange DEF Init, Empty
    <3>3. main = [readable |-> TRUE, mark |-> main.mark, ask |-> main.ask]
      BY DEF Init, Empty
    <3>4. ASSUME NEW mark \in [Subtasks -> Marks \cup {"absent"}], NEW ask \in [Feedback -> 0..MaxAsks]
          PROVE  [readable |-> TRUE, mark |-> mark, ask |-> ask] \in Plan
      BY DEF Plan
    <3> QED BY <3>1, <3>2, <3>3, <3>4
  <2>3. TypeOK BY <2>1, <2>2, EmptyPlans, AsksInRange DEF Init, TypeOK
  <2>4. Phases BY <2>1 DEF Phases, Fits
  <2>5. One BY <2>1 DEF One, Busy, UnderWay, Alive
  <2>6. Places BY <2>1 DEF Places, Writes
  <2>7. WorkIsSafe BY <2>1 DEF WorkIsSafe, Writes, HasWork
  <2> QED BY <2>3, <2>4, <2>5, <2>6, <2>7 DEF IInv
<1>2. IInv /\ [Next]_vars => IInv'
  <2> SUFFICES ASSUME IInv, [Next]_vars PROVE IInv'
    OBVIOUS
  <2>1. CASE UNCHANGED vars
    <3>1. /\ UNCHANGED <<main, wt, wtThere, writing, killed, held, built, asked>>
          /\ UNCHANGED <<run, monitor, tracked, kept, beside>>
      BY <2>1 DEF vars, service
    <3>2. TypeOK' /\ Phases' BY <3>1 DEF IInv, TypeOK, Phases, Fits
    <3>3. (One <=> One') /\ (Places <=> Places') /\ (Still <=> Still')
      BY <3>1 DEF One, Busy, UnderWay, Alive, Places, Writes, Still
    <3>4. WorkIsSafe => WorkIsSafe'
      BY <3>1, <3>3 DEF WorkIsSafe, Writes, HasWork, Done, Lost, Present
    <3> QED BY <3>1, <3>2, <3>3, <3>4 DEF IInv
  <2>2. CASE User BY <2>2, ReadersKeepIInv, StartsKeepIInv DEF User
  <2>3. CASE WritePlan BY <2>3, WritePlanKeepsIInv
  <2>4. ASSUME NEW r \in Runs, Agent(r) PROVE IInv' BY <2>4, AgentKeepsIInv
  <2>5. ASSUME NEW r \in Runs, Spawn(r) PROVE IInv' BY <2>5, StartsKeepIInv
  <2>6. ASSUME NEW r \in Runs, Monitor(r) PROVE IInv'
    BY <2>6, ReadersKeepIInv, StartsKeepIInv, CopyKeepsIInv DEF Monitor
  <2> QED BY <2>1, <2>2, <2>3, <2>4, <2>5, <2>6 DEF Next
<1> QED BY <1>1, <1>2, PTL DEF Spec

-----------------------------------------------------------------------------
\* Theorems

\* The two copies, what each run is writing and what a segment of the server holds of
\* them keep their form, also where runs are beside one another.
THEOREM TypeCorrect == Spec => []TypeOK
<1>1. IInv => TypeOK BY DEF IInv
<1> QED BY <1>1, Inductive, PTL

\* A run never finds a completed subtask undone in the copy it works on: neither the
\* copying at its start nor any of the unlocked writers of the main copy, that of an earlier
\* run's monitor included, loses it, unless a kill in mid-write lost the whole plan.
THEOREM NothingRedone == Spec => []NoWorkIsRedone
<1>1. IInv => NoWorkIsRedone
  <2> SUFFICES ASSUME IInv, ~beside, NEW r \in Runs, run[r] = "working", writing[r] = Nothing
               PROVE  HasWork(wt)
    BY DEF NoWorkIsRedone
  <2>1. \A q \in Runs : ~Writes(q, "wt") BY WorkerIsAlone DEF Alive, Writes
  <2>2. wtThere BY DEF IInv, Places
  <2> QED BY <2>1, <2>2 DEF IInv, WorkIsSafe
<1> QED BY <1>1, Inductive, PTL

\* Between runs the main copy has all the work of the last run, or that kill lost it whole.
THEOREM RestingCurrent == Spec => []RestingPlanIsCurrent
<1>1. IInv => RestingPlanIsCurrent
  <2> SUFFICES ASSUME IInv, ~beside, \A r \in Runs : ~UnderWay(r) PROVE HasWork(main)
    BY DEF RestingPlanIsCurrent
  <2>1. Still BY DEF Still, UnderWay, Alive, IInv, Phases, TypeOK
  <2> QED BY <2>1 DEF IInv, WorkIsSafe
<1> QED BY <1>1, Inductive, PTL

=============================================================================
