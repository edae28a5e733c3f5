---------------------------- MODULE SpecPipeline ----------------------------
(***************************************************************************)
(* The creation of a specification (spec/pipeline/orchestrator.py and      *)
(* spec/phases).  A run of spec_runner.py goes through a list of phases;   *)
(* most of them keep what an earlier run left on disk, the others have an  *)
(* agent write a file and try again when the file is not valid.  A run may *)
(* be killed at any await, and another run may continue.                   *)
(*                                                                         *)
(* Agents are language models: a session may leave anything in the files   *)
(* of its phase.  smooth remembers whether everything went well so far in  *)
(* the current run; it is the premise of what a run promises.              *)
(***************************************************************************)
EXTENDS Integers, Sequences, FiniteSets

CONSTANTS
  MaxRetries,  \* MAX_RETRIES
  Flows,       \* the lists of phases that an assessment may choose
  Origins,     \* where the task was created: in the web UI (ui), by spec_runner.py (cli)
  MaxRuns      \* bound: runs of spec_runner.py

Phases ==
  {"historical_context", "research", "architecture", "context", "spec_writing",
   "self_critique", "planning", "validation", "quick_spec"}

File == {"requirements", "architecture", "context", "spec", "critique", "plan"}

ASSUME LimitsAssumption == MaxRetries \in Nat \ {0, 1} /\ MaxRuns \in Nat
ASSUME OriginsAssumption == Origins \subseteq {"ui", "cli"}
\* Names that are no phase occur: the enterprise track has two.
ASSUME FlowsAssumption == \A flow \in Flows : flow \in Seq(STRING)

VARIABLES
  origin,   \* of the task
  files,    \* the files of the directory the run works in
  moved,    \* the directory was renamed after the requirements
  pc,       \* idle, a step of SpecOrchestrator.run, or phase
  flow,     \* the phases to run, after discovery and requirements
  at,       \* position in flow
  attempt,  \* attempts made in the current phase
  result,   \* of the last run
  smooth,   \* nothing went wrong in this run, and it was not killed
  runs      \* runs begun

vars == <<origin, files, moved, pc, flow, at, attempt, result, smooth, runs>>

Contents == {"none", "torn", "bad", "good"}  \* torn: does not parse
Accepted == {"approved", "awaiting"}
Steps == {"idle", "discovery", "requirements", "load", "assess", "phase", "review"}

TypeOK ==
  /\ origin \in Origins
  /\ files \in [File -> Contents]
  /\ moved \in BOOLEAN
  /\ pc \in Steps
  /\ flow \in Flows \cup {<<>>}
  /\ at \in 1..(Len(flow) + 1)
  /\ pc = "phase" => at <= Len(flow) /\ flow[at] \in Phases
  /\ attempt \in 0..(MaxRetries - 1)
  /\ result \in Accepted \cup {"none", "failed", "crashed", "killed"}
  /\ smooth \in BOOLEAN
  /\ runs \in 0..MaxRuns

\* create_task writes a spec.md without the required sections, and requirements
\* without a task_description.
Init ==
  /\ origin \in Origins
  /\ files = [f \in File |->
       IF origin = "ui" /\ f \in {"spec", "requirements"} THEN "bad" ELSE "none"]
  /\ moved = FALSE
  /\ pc = "idle" /\ flow = <<>> /\ at = 1 /\ attempt = 0
  /\ result = "none" /\ smooth = FALSE /\ runs = 0

-----------------------------------------------------------------------------
\* A run begins.  The start route leaves a plan without phases, for its status.
Begin ==
  /\ pc = "idle" /\ result \notin Accepted /\ runs < MaxRuns
  /\ pc' = "discovery" /\ runs' = runs + 1
  /\ files' = [files EXCEPT !["plan"] = IF origin = "ui" /\ @ = "none" THEN "bad" ELSE @]
  /\ flow' = <<>> /\ at' = 1 /\ attempt' = 0
  /\ result' = "none" /\ smooth' = TRUE
  /\ UNCHANGED <<origin, moved>>

\* The run ends; what is on disk stays.
End(r) ==
  /\ pc' = "idle" /\ result' = r
  /\ UNCHANGED <<origin, moved, flow, at, attempt, runs>>

GoOn(step) == pc' = step /\ UNCHANGED <<origin, moved, flow, at, attempt, result, runs>>

\* The next phase of the flow, or the review after the last.
Advance ==
  /\ at' = at + 1 /\ attempt' = 0
  /\ pc' = IF at = Len(flow) THEN "review" ELSE "phase"
  /\ UNCHANGED <<origin, moved, flow, result, runs>>

\* Mutant: an attempt that was for nothing is not counted.
TryAgainUncounted == UNCHANGED <<origin, moved, pc, flow, at, attempt, result, runs>>

TryAgain == attempt' = attempt + 1 /\ UNCHANGED <<origin, moved, pc, flow, at, result, runs>>

\* The analyzer is a script; it has three attempts.
Discovery ==
  /\ pc = "discovery"
  /\ \/ GoOn("requirements") /\ UNCHANGED smooth
     \/ End("failed") /\ smooth' = FALSE
  /\ UNCHANGED files

\* Requirements that exist are kept; a user who is asked may cancel.
Requirements ==
  /\ pc = "requirements"
  /\ \/ /\ files' = [files EXCEPT !["requirements"] = IF @ = "none" THEN "good" ELSE @]
        /\ GoOn("load") /\ UNCHANGED smooth
     \/ /\ files["requirements"] = "none" /\ origin = "cli"
        /\ End("failed") /\ smooth' = FALSE /\ UNCHANGED files

\* rename_spec_dir_from_requirements: a directory called pending gets its name from the
\* task description.  The orchestrator goes on with the old path.
Renames == origin = "cli" /\ ~moved /\ files["requirements"] = "good"

\* Rename, then load_requirements, which lets a JSON error through.
Load ==
  /\ pc = "load"
  /\ IF files["requirements"] = "torn"
       THEN End("crashed") /\ UNCHANGED <<files, smooth>>
       ELSE /\ files' = IF Renames THEN [f \in File |-> "none"] ELSE files
            /\ moved' = (moved \/ Renames)
            /\ pc' = "assess"
            /\ UNCHANGED <<origin, flow, at, attempt, result, smooth, runs>>

\* Mutant: names that are no phase are not noticed.
AssessUnchecked ==
  /\ pc = "assess"
  /\ \E chosen \in Flows :
       /\ flow' = chosen /\ at' = 1 /\ attempt' = 0
       /\ pc' = IF chosen = <<>> THEN "review" ELSE "phase"
  /\ UNCHANGED <<origin, files, moved, result, smooth, runs>>

\* Every run assesses anew: override, track, AI or heuristics.  The track is then saved
\* in requirements.json.  An unknown phase ends the run.
Assess ==
  /\ pc = "assess"
  /\ \E chosen \in Flows :
       /\ flow' = chosen /\ at' = 1 /\ attempt' = 0
       /\ IF \E i \in DOMAIN chosen : chosen[i] \notin Phases
            THEN pc' = "idle" /\ result' = "failed"
            ELSE /\ pc' = IF chosen = <<>> THEN "review" ELSE "phase"
                 /\ UNCHANGED result
  /\ UNCHANGED <<origin, files, moved, smooth, runs>>

-----------------------------------------------------------------------------
\* Phases.

In(p) == pc = "phase" /\ flow[at] = p

\* The files the agent of a phase is told to write.
Outputs(p) ==
  {f \in File :
     \/ f = "architecture" /\ p = "architecture"
     \/ f = "context" /\ p = "validation"
     \/ f = "spec" /\ p \in {"spec_writing", "self_critique", "quick_spec", "validation"}
     \/ f = "critique" /\ p = "self_critique"
     \/ f = "plan" /\ p \in {"quick_spec", "planning", "validation"}}

\* What a session leaves: any of its files written, in any shape.
Left(p) ==
  {[f \in File |-> IF f \in Outputs(p) THEN out[f] ELSE files[f]] :
     out \in {o \in [Outputs(p) -> Contents] :
               \A f \in Outputs(p) : o[f] = "none" => files[f] = "none"}}

WellDone(p, left) == \A x \in Outputs(p) : left[x] = "good"

\* A session with result ok (no exception) that leaves left goes well when it is ok and
\* has written all of its files well.
Session(p, ok, left) == smooth' = (smooth /\ ok /\ WellDone(p, left))

\* Graph hints and research cannot fail: an empty report stands in.
AlwaysSucceeds ==
  /\ In("historical_context") \/ In("research")
  /\ Advance /\ UNCHANGED <<files, smooth>>

\* Mutant: a context that exists is loaded like the requirements.
ContextLoaded ==
  /\ In("context") /\ UNCHANGED smooth
  /\ IF files["context"] = "torn" THEN End("crashed") /\ UNCHANGED files
     ELSE /\ files' = [files EXCEPT !["context"] = IF @ = "none" THEN "good" ELSE @]
          /\ Advance

\* A context that exists is kept, whatever it is.  The script writes one, or a minimal one is
\* made; but what a script leaves that fails or is timed out is there for the next attempt.
Context ==
  /\ In("context") /\ Advance
  /\ \E left \in Contents \ {"none"} :
       /\ files' = [files EXCEPT !["context"] = IF @ = "none" THEN left ELSE @]
       /\ smooth' = (smooth /\ (files["context"] = "none" => left = "good"))

\* One attempt.
Architecture ==
  /\ In("architecture")
  /\ IF files["architecture"] # "none" THEN Advance /\ UNCHANGED <<files, smooth>>
     ELSE IF files["requirements"] = "none" THEN End("failed") /\ UNCHANGED <<files, smooth>>
     ELSE \E ok \in BOOLEAN, left \in Left("architecture") :
            /\ Session("architecture", ok, left) /\ files' = left
            /\ IF ok /\ left["architecture"] # "none" THEN Advance ELSE End("failed")

\* An attempt of phase p: it is over when done, and fails after the last.
Attempt(p, ok, left, done) ==
  /\ Session(p, ok, left)
  /\ IF done THEN Advance
     ELSE IF attempt + 1 < MaxRetries THEN TryAgain
     ELSE End("failed")

\* spec.md and a plan that exist are kept, whatever they are.
QuickSpecKept == files["spec"] # "none" /\ files["plan"] # "none"

\* The template's sections and plan fields are not those the validator requires.
QuickSpec ==
  /\ In("quick_spec")
  /\ \/ QuickSpecKept /\ Advance /\ UNCHANGED <<files, smooth>>
     \/ /\ ~QuickSpecKept /\ attempt = 0
        /\ files' = [files EXCEPT !["spec"] = "bad", !["plan"] = "bad"]
        /\ Advance /\ UNCHANGED smooth
     \/ /\ ~QuickSpecKept
        /\ \E ok \in BOOLEAN, left \in Left("quick_spec") :
             LET done == ok /\ left["spec"] # "none"
             IN  /\ Attempt("quick_spec", ok, left, done)
                 /\ files' = [left EXCEPT !["plan"] =
                                IF done /\ @ = "none" THEN "bad" ELSE @]

SpecWriting ==
  /\ In("spec_writing")
  /\ \/ attempt = 0 /\ files["spec"] = "good" /\ Advance /\ UNCHANGED <<files, smooth>>
     \/ /\ attempt = 0 => files["spec"] # "good"
        /\ \E ok \in BOOLEAN, left \in Left("spec_writing") :
             /\ Attempt("spec_writing", ok, left, ok /\ left["spec"] = "good")
             /\ files' = left

\* A critique that is finished is kept; one that does not parse raises.  The phase
\* succeeds in the end, with a minimal critique.
SelfCritique ==
  /\ In("self_critique")
  /\ \/ attempt = 0 /\ files["spec"] = "none" /\ End("failed") /\ UNCHANGED <<files, smooth>>
     \/ /\ attempt = 0 /\ files["spec"] # "none" /\ files["critique"] = "torn"
        /\ End("crashed") /\ UNCHANGED <<files, smooth>>
     \/ /\ attempt = 0 /\ files["spec"] # "none" /\ files["critique"] = "good"
        /\ Advance /\ UNCHANGED <<files, smooth>>
     \/ /\ attempt = 0 => files["spec"] # "none" /\ files["critique"] \in {"none", "bad"}
        /\ \E ok \in BOOLEAN, left \in Left("self_critique") :
             LET done == ok /\ left["spec"] = "good"
                 last == attempt + 1 = MaxRetries
             IN  /\ Session("self_critique", ok, left)
                 /\ files' = [left EXCEPT !["critique"] =
                       IF (last /\ ~done) \/ (ok /\ @ = "none") THEN "good" ELSE @]
                 /\ IF done \/ last THEN Advance ELSE TryAgain

\* auto_fix_plan adds missing fields to a plan that parses; that may make it valid.
AutoFixed(plan) == IF plan = "bad" THEN {"bad", "good"} ELSE {plan}

\* A valid plan is kept.  The planner script comes before the agent's attempts.
Planning ==
  /\ In("planning")
  /\ \/ attempt = 0 /\ files["plan"] = "good" /\ Advance /\ UNCHANGED <<files, smooth>>
     \/ /\ attempt = 0 /\ files["plan"] # "good"
        /\ files' = [files EXCEPT !["plan"] = "good"]
        /\ Advance /\ UNCHANGED smooth
     \/ /\ attempt = 0 => files["plan"] # "good"
        /\ \E ok \in BOOLEAN, left \in Left("planning") :
             \E plan \in IF ok THEN AutoFixed(left["plan"]) ELSE {left["plan"]} :
               /\ Attempt("planning", ok, left, ok /\ plan = "good")
               /\ files' = [left EXCEPT !["plan"] = plan]

Valid == \A f \in {"context", "spec", "plan"} : files[f] = "good"

\* Mutant: the result of the last fixer is not looked at.
ValidationTrusting ==
  /\ In("validation")
  /\ IF Valid \/ attempt + 1 = MaxRetries THEN Advance /\ UNCHANGED <<files, smooth>>
     ELSE \E ok \in BOOLEAN, left \in Left("validation") :
            Session("validation", ok, left) /\ files' = left /\ TryAgain

\* validate_all, and a fixer between two attempts.
Validation ==
  /\ In("validation")
  /\ IF Valid THEN Advance /\ UNCHANGED <<files, smooth>>
     ELSE IF attempt + 1 = MaxRetries THEN End("failed") /\ UNCHANGED <<files, smooth>>
     ELSE \E ok \in BOOLEAN, left \in Left("validation") :
            Session("validation", ok, left) /\ files' = left /\ TryAgain

\* run_review_checkpoint: approved, or left for the web UI; a user at the terminal may
\* leave.
Review ==
  /\ pc = "review"
  /\ \/ \E r \in Accepted : End(r) /\ UNCHANGED smooth
     \/ origin = "cli" /\ End("failed") /\ smooth' = FALSE
  /\ UNCHANGED files

Active == IF pc = "phase" THEN Outputs(flow[at]) ELSE {}  \* an agent may be writing

\* Files that are being written when the run is in some step.
Writing ==
  {f \in File :
     \/ f \in Active
     \/ f = "requirements" /\ (pc = "requirements" <=> files[f] = "none")
                           /\ pc \in {"requirements", "assess"}
     \/ f = "context" /\ pc = "phase" /\ flow[at] = f /\ files[f] = "none"}

\* A stop, a crash or an interruption.  A write may be cut short, and an agent may have
\* written something.
Kill ==
  /\ pc # "idle"
  /\ \/ UNCHANGED files
     \/ \E f \in Writing : files' = [files EXCEPT ![f] = "torn"]
     \/ \E f \in Active, c \in {"bad", "good"} : files' = [files EXCEPT ![f] = c]
  /\ End("killed") /\ smooth' = FALSE

-----------------------------------------------------------------------------
Work ==
  \/ Discovery \/ Requirements \/ Load \/ Assess \/ AlwaysSucceeds \/ Context
  \/ Architecture \/ QuickSpec \/ SpecWriting \/ SelfCritique \/ Planning
  \/ Validation \/ Review

Next == Begin \/ Work \/ Kill

\* A run whose process lives goes on: scripts have a timeout, a session ends or raises.
Spec == Init /\ [][Next]_vars /\ WF_vars(Work)

-----------------------------------------------------------------------------
\* Properties

Succeeded == pc = "idle" /\ result \in Accepted

Unparsable == \E f \in {"requirements", "critique"} : files[f] = "torn"
KnownFlow == \A i \in DOMAIN flow : flow[i] \in Phases

\* A run in which every script and session does its work, and which nobody stops, ends
\* with a specification, whatever files earlier runs left: "To continue: python
\* magestic-ai/spec_runner.py --continue".  The dead ends are a directory that was
\* renamed, two files that are loaded without a test, and a track with unknown phases.
GoodRunSucceeds ==
  pc = "idle" /\ runs > 0 /\ smooth /\ ~moved /\ ~Unparsable /\ KnownFlow => Succeeded

\* A specification that went through validation is complete and valid, also when part
\* of it was found on disk and kept.
SuccessIsUsable == Succeeded /\ flow # <<>> /\ flow[Len(flow)] = "validation" => Valid

\* Retries run out: a run whose agents fail ends.
EveryRunEnds == pc # "idle" ~> pc = "idle"

=============================================================================
