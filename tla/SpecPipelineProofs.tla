------------------------ MODULE SpecPipelineProofs ------------------------
(***************************************************************************)
(* Theorems about SpecPipeline, for any flows, retries and runs.           *)
(***************************************************************************)
EXTENDS SpecPipeline, TLAPS

-----------------------------------------------------------------------------
\* The inductive invariant

\* A task of the web UI keeps its directory, its requirements and a spec.md; one of the
\* command line has been renamed by the time it is assessed.
Places ==
  /\ origin = "ui" => ~moved /\ files["spec"] # "none" /\ files["requirements"] # "none"
  /\ origin = "cli" /\ ~moved => files["requirements"] # "bad"
  /\ origin = "cli" /\ pc \in {"assess", "phase", "review"} => moved
  /\ pc = "load" => files["requirements"] # "none"

\* A flow is begun only when all of it is known.
Known == pc \in {"phase", "review"} => KnownFlow

\* A fixer that went well has left nothing to fix.
Fixed == smooth /\ pc = "phase" /\ flow[at] = "validation" /\ attempt > 0 => Valid

\* Nothing is written after the validation.
Checked ==
  (pc = "review" \/ Succeeded) /\ flow # <<>> /\ flow[Len(flow)] = "validation" => Valid

IInv == TypeOK /\ Places /\ Known /\ Fixed /\ Checked /\ GoodRunSucceeds

-----------------------------------------------------------------------------
\* Flows and sessions

\* A flow is a sequence, and so is the empty one.
LEMMA FlowIsSeq == ASSUME TypeOK PROVE flow \in Seq(STRING) /\ Len(flow) \in Nat
<1>1. CASE flow = <<>> BY <1>1
<1>2. CASE flow \in Flows BY <1>2, FlowsAssumption
<1> QED BY <1>1, <1>2 DEF TypeOK

\* A session changes only the files of its phase, and deletes none.
LEMMA SessionLeaves ==
  ASSUME TypeOK, NEW p, Outputs(p) \subseteq File, NEW left \in Left(p)
  PROVE  /\ left \in [File -> Contents]
         /\ \A f \in File : left[f] = "none" => files[f] = "none"
         /\ \A f \in File \ Outputs(p) : left[f] = files[f]
<1>1. PICK out \in [Outputs(p) -> Contents] :
        /\ \A f \in Outputs(p) : out[f] = "none" => files[f] = "none"
        /\ left = [f \in File |-> IF f \in Outputs(p) THEN out[f] ELSE files[f]]
  BY DEF Left
<1>2. files \in [File -> Contents] BY DEF TypeOK
<1> QED BY <1>1, <1>2

\* Agents are told to write specifications and plans, never requirements; the critic
\* alone writes a critique.
LEMMA OutputsOf ==
  ASSUME NEW p
  PROVE  /\ Outputs(p) \subseteq File \ {"requirements"}
         /\ "critique" \in Outputs(p) => p = "self_critique"
         /\ p = "architecture" => Outputs(p) = {"architecture"}
         /\ p = "spec_writing" => Outputs(p) = {"spec"}
         /\ p = "self_critique" => Outputs(p) = {"spec", "critique"}
         /\ p = "quick_spec" => Outputs(p) = {"spec", "plan"}
         /\ p = "planning" => Outputs(p) = {"plan"}
         /\ p = "validation" => Outputs(p) = {"context", "spec", "plan"}
BY DEF Outputs, File

-----------------------------------------------------------------------------
\* How a phase goes on

\* A step of a phase that neither invents requirements nor loses the specification.
Keeps(fs) ==
  /\ fs \in [File -> Contents]
  /\ fs["requirements"] = files["requirements"]
  /\ fs["spec"] = "none" => files["spec"] = "none"

\* A phase that is over, with its files in some state.
LEMMA AdvanceKeepsIInv ==
  ASSUME IInv, pc = "phase", Advance, Keeps(files'), smooth' \in BOOLEAN,
         flow[at] = "validation" => Valid'
  PROVE  IInv'
<1> USE DEF IInv
<1>1. flow \in Seq(STRING) /\ Len(flow) \in Nat BY FlowIsSeq
<1>2. at \in 1..Len(flow) BY DEF TypeOK
<1>3. KnownFlow /\ UNCHANGED <<origin, moved, flow, result, runs>> /\ attempt' = 0
      /\ at' = at + 1 /\ pc' = IF at = Len(flow) THEN "review" ELSE "phase"
  BY DEF Known, Advance
<1>4. Known' BY <1>3 DEF Known, KnownFlow
<1>5. TypeOK'
  <2>1. pc' = "phase" => at' <= Len(flow') /\ flow'[at'] \in Phases
    BY <1>1, <1>2, <1>3 DEF KnownFlow
  <2>2. at' \in 1..(Len(flow') + 1) BY <1>1, <1>2, <1>3
  <2>3. attempt' \in 0..(MaxRetries - 1) BY <1>3, LimitsAssumption
  <2>4. pc' \in Steps BY <1>3 DEF Steps
  <2> QED BY <1>3, <2>1, <2>2, <2>3, <2>4 DEF TypeOK, Keeps
<1>6. Places' BY <1>3 DEF Places, Keeps
<1>7. Fixed' BY <1>3 DEF Fixed
<1>8. Checked' BY <1>1, <1>2, <1>3 DEF Checked, Succeeded
<1>9. GoodRunSucceeds' BY <1>3 DEF GoodRunSucceeds
<1> QED BY <1>4, <1>5, <1>6, <1>7, <1>8, <1>9

\* An attempt after which there is another.
LEMMA TryAgainKeepsIInv ==
  ASSUME IInv, pc = "phase", TryAgain, Keeps(files'), smooth' \in BOOLEAN,
         attempt + 1 < MaxRetries,
         flow[at] = "validation" /\ smooth' => Valid'
  PROVE  IInv'
<1> USE DEF IInv
<1>1. UNCHANGED <<origin, moved, pc, flow, at, result, runs>> /\ attempt' = attempt + 1
  BY DEF TryAgain
<1>2. TypeOK' BY <1>1, LimitsAssumption DEF TypeOK, Keeps
<1>3. Places' BY <1>1 DEF Places, Keeps
<1>4. Known' BY <1>1 DEF Known, KnownFlow
<1>5. Fixed' BY <1>1 DEF Fixed
<1>6. Checked' BY <1>1 DEF Checked, Succeeded
<1>7. GoodRunSucceeds' BY <1>1 DEF GoodRunSucceeds
<1> QED BY <1>2, <1>3, <1>4, <1>5, <1>6, <1>7

\* A run that ends without success: something went wrong in it, or a dead end was met.
LEMMA EndKeepsIInv ==
  ASSUME IInv, pc # "idle", NEW r \in {"failed", "crashed", "killed"}, End(r),
         files' \in [File -> Contents], smooth' \in BOOLEAN,
         origin = "ui" => files'["spec"] # "none" /\ files'["requirements"] # "none",
         origin = "cli" /\ ~moved => files'["requirements"] # "bad",
         smooth' => moved \/ Unparsable'
  PROVE  IInv'
<1> USE DEF IInv
<1>1. UNCHANGED <<origin, moved, flow, at, attempt, runs>> /\ pc' = "idle" /\ result' = r
  BY DEF End
<1>2. r \notin Accepted BY DEF Accepted
<1>3. TypeOK' BY <1>1 DEF TypeOK, Steps
<1>4. Places' BY <1>1 DEF Places
<1>5. Known' BY <1>1 DEF Known
<1>6. Fixed' BY <1>1 DEF Fixed
<1>7. Checked' BY <1>1, <1>2 DEF Checked, Succeeded
<1>8. GoodRunSucceeds' BY <1>1 DEF GoodRunSucceeds
<1> QED BY <1>3, <1>4, <1>5, <1>6, <1>7, <1>8

\* A failed run of a phase: the UI's files are still there.
LEMMA FailKeepsIInv ==
  ASSUME IInv, pc = "phase", NEW r \in {"failed", "crashed"}, End(r),
         Keeps(files'), smooth' \in BOOLEAN, smooth' => moved \/ Unparsable'
  PROVE  IInv'
<1>1. TypeOK /\ Places BY DEF IInv
<1>2. origin = "ui" => files'["spec"] # "none" /\ files'["requirements"] # "none"
  BY <1>1 DEF Places, Keeps
<1>3. origin = "cli" => moved BY <1>1 DEF Places
<1>4. files' \in [File -> Contents] BY DEF Keeps
<1> QED BY <1>2, <1>3, <1>4, EndKeepsIInv

\* A run that has found its directory without requirements or without a specification
\* works in one it has renamed.
LEMMA MissingMeansMoved ==
  ASSUME IInv, pc = "phase", files["spec"] = "none" \/ files["requirements"] = "none"
  PROVE  moved
<1>1. origin \in {"ui", "cli"} BY OriginsAssumption DEF IInv, TypeOK
<1> QED BY <1>1 DEF IInv, Places

\* An attempt of a phase other than validation, which a good session completes.
LEMMA AttemptKeepsIInv ==
  ASSUME IInv, pc = "phase", flow[at] # "validation",
         NEW p, NEW ok \in BOOLEAN, NEW left, NEW done \in BOOLEAN,
         Attempt(p, ok, left, done), Keeps(files'), ok /\ WellDone(p, left) => done
  PROVE  IInv'
<1>1. smooth' = (smooth /\ ok /\ WellDone(p, left)) BY DEF Attempt, Session
<1>2. smooth' \in BOOLEAN BY <1>1
<1>3. CASE done
  <2>1. Advance BY <1>3 DEF Attempt
  <2> QED BY <1>2, <2>1, AdvanceKeepsIInv
<1>4. CASE ~done /\ attempt + 1 < MaxRetries
  <2>1. TryAgain BY <1>4 DEF Attempt
  <2> QED BY <1>2, <1>4, <2>1, TryAgainKeepsIInv
<1>5. CASE ~done /\ ~(attempt + 1 < MaxRetries)
  <2>1. End("failed") BY <1>5 DEF Attempt
  <2>2. ~smooth' BY <1>1, <1>5
  <2> QED BY <1>2, <2>1, <2>2, FailKeepsIInv
<1> QED BY <1>3, <1>4, <1>5

-----------------------------------------------------------------------------
\* The steps before the phases

\* A run begins: whatever was wrong before is forgotten.
LEMMA BeginKeepsIInv == ASSUME IInv, Begin PROVE IInv'
<1> USE DEF IInv
<1>1. /\ pc' = "discovery" /\ runs' = runs + 1 /\ flow' = <<>> /\ at' = 1 /\ attempt' = 0
      /\ result' = "none" /\ smooth' = TRUE /\ UNCHANGED <<origin, moved>>
      /\ runs < MaxRuns
  BY DEF Begin
<1>2. files' \in [File -> Contents]
      /\ files'["spec"] = files["spec"] /\ files'["requirements"] = files["requirements"]
  BY DEF Begin, TypeOK, File, Contents
<1>3. TypeOK'
  <2>1. at' \in 1..(Len(flow') + 1) BY <1>1
  <2>2. attempt' \in 0..(MaxRetries - 1) BY <1>1, LimitsAssumption
  <2>3. runs' \in 0..MaxRuns BY <1>1, LimitsAssumption DEF TypeOK
  <2>4. pc' \in Steps BY <1>1 DEF Steps
  <2> QED BY <1>1, <1>2, <2>1, <2>2, <2>3, <2>4 DEF TypeOK
<1>4. Places' BY <1>1, <1>2 DEF Places
<1>5. Known' BY <1>1 DEF Known
<1>6. Fixed' BY <1>1 DEF Fixed
<1>7. Checked' BY <1>1 DEF Checked, Succeeded
<1>8. GoodRunSucceeds' BY <1>1 DEF GoodRunSucceeds
<1> QED BY <1>3, <1>4, <1>5, <1>6, <1>7, <1>8

\* The step from one of the first steps to the next.
LEMMA GoOnKeepsIInv ==
  ASSUME IInv, NEW step \in {"requirements", "load"}, GoOn(step), smooth' = smooth,
         files' \in [File -> Contents],
         files["spec"] # "none" => files'["spec"] # "none",
         files["requirements"] # "none" => files'["requirements"] = files["requirements"],
         files'["requirements"] # "bad" \/ files'["requirements"] = files["requirements"],
         step = "load" => files'["requirements"] # "none"
  PROVE  IInv'
<1> USE DEF IInv
<1>1. pc' = step /\ UNCHANGED <<origin, moved, flow, at, attempt, result, runs>>
  BY DEF GoOn
<1>2. TypeOK' BY <1>1 DEF TypeOK, Steps
<1>3. Places' BY <1>1 DEF Places
<1>4. Known' BY <1>1 DEF Known
<1>5. Fixed' BY <1>1 DEF Fixed
<1>6. Checked' BY <1>1 DEF Checked, Succeeded
<1>7. GoodRunSucceeds' BY <1>1 DEF GoodRunSucceeds
<1> QED BY <1>2, <1>3, <1>4, <1>5, <1>6, <1>7

\* Discovery leaves the files alone.
LEMMA DiscoveryKeepsIInv == ASSUME IInv, Discovery PROVE IInv'
<1>1. TypeOK /\ Places BY DEF IInv
<1>2. pc = "discovery" /\ files' = files BY DEF Discovery
<1>3. files' \in [File -> Contents] /\ smooth \in BOOLEAN BY <1>1, <1>2 DEF TypeOK
<1>4. CASE GoOn("requirements") /\ UNCHANGED smooth
  BY <1>2, <1>3, <1>4, GoOnKeepsIInv
<1>5. CASE End("failed") /\ smooth' = FALSE
  <2>1. pc # "idle" BY <1>2
  <2> QED BY <1>1, <1>2, <1>3, <1>5, <2>1, EndKeepsIInv DEF Places
<1> QED BY <1>4, <1>5 DEF Discovery

\* Requirements are written where there are none, and kept otherwise.
LEMMA RequirementsKeepsIInv == ASSUME IInv, Requirements PROVE IInv'
<1>1. TypeOK /\ Places BY DEF IInv
<1>2. pc # "idle" /\ files \in [File -> Contents] /\ smooth \in BOOLEAN
  BY <1>1 DEF Requirements, TypeOK
<1>3. CASE /\ files' = [files EXCEPT !["requirements"] = IF @ = "none" THEN "good" ELSE @]
           /\ GoOn("load") /\ UNCHANGED smooth
  <2>1. /\ files' \in [File -> Contents] /\ files'["spec"] = files["spec"]
        /\ files'["requirements"] =
             IF files["requirements"] = "none" THEN "good" ELSE files["requirements"]
    BY <1>2, <1>3 DEF File, Contents
  <2> QED BY <1>3, <2>1, GoOnKeepsIInv
<1>4. CASE /\ files["requirements"] = "none" /\ origin = "cli"
           /\ End("failed") /\ smooth' = FALSE /\ UNCHANGED files
  BY <1>1, <1>2, <1>4, EndKeepsIInv DEF Places
<1> QED BY <1>3, <1>4 DEF Requirements

\* The rename happens here or never: requirements that do not parse end the run.
LEMMA LoadKeepsIInv == ASSUME IInv, Load PROVE IInv'
<1> USE DEF IInv
<1>1. pc = "load" /\ files["requirements"] # "none" /\ files \in [File -> Contents]
      /\ smooth \in BOOLEAN /\ moved \in BOOLEAN /\ origin \in {"ui", "cli"}
  BY OriginsAssumption DEF Load, Places, TypeOK
<1>2. CASE files["requirements"] = "torn"
  <2>1. End("crashed") /\ UNCHANGED <<files, smooth>> BY <1>2 DEF Load
  <2>2. Unparsable' BY <1>2, <2>1 DEF Unparsable
  <2> QED BY <1>1, <2>1, <2>2, EndKeepsIInv DEF Places
<1>3. CASE files["requirements"] # "torn"
  <2>1. /\ files' = IF Renames THEN [f \in File |-> "none"] ELSE files
        /\ moved' = (moved \/ Renames) /\ pc' = "assess"
        /\ UNCHANGED <<origin, flow, at, attempt, result, smooth, runs>>
    BY <1>3 DEF Load
  <2>2. files' \in [File -> Contents] BY <1>1, <2>1 DEF Contents
  <2>3. moved' \in BOOLEAN BY <1>1, <2>1 DEF Renames
  <2>4. TypeOK' BY <2>1, <2>2, <2>3 DEF TypeOK, Steps
  <2>5. origin = "ui" => ~moved' /\ files' = files BY <2>1 DEF Renames, Places
  <2>6. origin = "cli" => moved'
    <3>1. files["requirements"] \in Contents BY <1>1 DEF File
    <3> QED BY <1>1, <1>3, <2>1, <3>1 DEF Renames, Places, Contents
  <2>7. Places' BY <2>1, <2>5, <2>6 DEF Places
  <2>8. Known' /\ Fixed' BY <2>1 DEF Known, Fixed
  <2>9. Checked' BY <2>1 DEF Checked, Succeeded
  <2>10. GoodRunSucceeds' BY <2>1 DEF GoodRunSucceeds
  <2> QED BY <2>4, <2>7, <2>8, <2>9, <2>10
<1> QED BY <1>2, <1>3

\* A flow with an unknown phase is the one thing that ends a run here.
LEMMA AssessKeepsIInv == ASSUME IInv, Assess PROVE IInv'
<1> USE DEF IInv
<1>1. PICK chosen \in Flows :
        /\ flow' = chosen /\ at' = 1 /\ attempt' = 0
        /\ IF \E i \in DOMAIN chosen : chosen[i] \notin Phases
             THEN pc' = "idle" /\ result' = "failed"
             ELSE /\ pc' = IF chosen = <<>> THEN "review" ELSE "phase"
                  /\ UNCHANGED result
  BY DEF Assess
<1>2. pc = "assess" /\ UNCHANGED <<origin, files, moved, smooth, runs>> BY DEF Assess
<1>3. chosen \in Seq(STRING) /\ Len(chosen) \in Nat BY FlowsAssumption
<1>4. pc' = "phase" => 1 <= Len(chosen) /\ chosen[1] \in Phases BY <1>1, <1>3
<1>5. TypeOK'
  <2>1. at' \in 1..(Len(flow') + 1) BY <1>1, <1>3
  <2>2. attempt' \in 0..(MaxRetries - 1) BY <1>1, LimitsAssumption
  <2>3. pc' \in Steps BY <1>1 DEF Steps
  <2>4. result' = result \/ result' = "failed" BY <1>1
  <2> QED BY <1>1, <1>2, <1>4, <2>1, <2>2, <2>3, <2>4 DEF TypeOK
<1>6. pc' \in {"idle", "review", "phase"} BY <1>1
<1>7. Places' BY <1>2, <1>6 DEF Places
<1>8. Known' BY <1>1 DEF Known, KnownFlow
<1>9. Fixed' BY <1>1 DEF Fixed
<1>10. pc' = "review" => flow' = <<>> BY <1>1
<1>11. Checked' BY <1>1, <1>10 DEF Checked, Succeeded, Accepted
<1>12. pc' = "idle" => ~KnownFlow' BY <1>1 DEF KnownFlow
<1>13. GoodRunSucceeds' BY <1>12 DEF GoodRunSucceeds
<1> QED BY <1>5, <1>7, <1>8, <1>9, <1>11, <1>13

\* The review accepts what validation has left.
LEMMA ReviewKeepsIInv == ASSUME IInv, Review PROVE IInv'
<1> USE DEF IInv
<1>1. pc = "review" /\ files' = files BY DEF Review
<1>2. files' \in [File -> Contents] /\ smooth \in BOOLEAN BY <1>1 DEF TypeOK
<1>3. CASE \E r \in Accepted : End(r) /\ UNCHANGED smooth
  <2>1. PICK r \in Accepted : End(r) /\ UNCHANGED smooth BY <1>3
  <2>2. /\ UNCHANGED <<origin, moved, flow, at, attempt, runs>> /\ pc' = "idle"
        /\ result' = r /\ UNCHANGED smooth
    BY <2>1 DEF End
  <2>3. TypeOK' BY <1>2, <2>2 DEF TypeOK, Steps
  <2>4. Places' BY <1>1, <2>2 DEF Places
  <2>5. Known' /\ Fixed' BY <2>2 DEF Known, Fixed
  <2>6. Valid' = Valid BY <1>1 DEF Valid
  <2>7. Checked' BY <1>1, <2>2, <2>6 DEF Checked
  <2>8. GoodRunSucceeds' BY <2>2 DEF GoodRunSucceeds, Succeeded
  <2> QED BY <2>3, <2>4, <2>5, <2>7, <2>8
<1>4. CASE origin = "cli" /\ End("failed") /\ smooth' = FALSE
  <2>1. pc # "idle" BY <1>1
  <2> QED BY <1>1, <1>2, <1>4, <2>1, EndKeepsIInv DEF Places
<1> QED BY <1>3, <1>4 DEF Review

-----------------------------------------------------------------------------
\* The phases

\* A phase that is skipped, or that only fills a gap.
LEMMA KeptPhaseKeepsIInv ==
  ASSUME IInv, pc = "phase", flow[at] # "validation", Advance, UNCHANGED smooth,
         Keeps(files')
  PROVE  IInv'
<1>1. smooth' \in BOOLEAN BY DEF IInv, TypeOK
<1> QED BY <1>1, AdvanceKeepsIInv

\* Graph hints and research.
LEMMA AlwaysSucceedsKeepsIInv == ASSUME IInv, AlwaysSucceeds PROVE IInv'
<1>1. pc = "phase" /\ flow[at] # "validation" /\ Advance /\ UNCHANGED <<files, smooth>>
  BY DEF AlwaysSucceeds, In
<1>2. Keeps(files') BY <1>1 DEF Keeps, IInv, TypeOK
<1> QED BY <1>1, <1>2, KeptPhaseKeepsIInv

\* The context is filled in or kept.
LEMMA ContextKeepsIInv == ASSUME IInv, Context PROVE IInv'
<1>1. pc = "phase" /\ flow[at] # "validation" /\ Advance BY DEF Context, In
<1>2. PICK left \in Contents \ {"none"} :
        /\ files' = [files EXCEPT !["context"] = IF @ = "none" THEN left ELSE @]
        /\ smooth' = (smooth /\ (files["context"] = "none" => left = "good"))
  BY DEF Context
<1>3. files \in [File -> Contents] /\ smooth \in BOOLEAN BY DEF IInv, TypeOK
<1>4. Keeps(files') BY <1>2, <1>3 DEF Keeps, File, Contents
<1>5. smooth' \in BOOLEAN BY <1>2, <1>3
<1> QED BY <1>1, <1>4, <1>5, AdvanceKeepsIInv

\* A session of an agent keeps the requirements and the existence of a specification.
LEMMA SessionKeeps ==
  ASSUME IInv, NEW p, NEW left \in Left(p)
  PROVE  Keeps(left)
<1>1. Outputs(p) \subseteq File \ {"requirements"} BY OutputsOf
<1>2. TypeOK BY DEF IInv
<1>3. /\ left \in [File -> Contents]
      /\ \A f \in File : left[f] = "none" => files[f] = "none"
      /\ \A f \in File \ Outputs(p) : left[f] = files[f]
  BY <1>1, <1>2, SessionLeaves
<1> QED BY <1>1, <1>3 DEF Keeps, File

\* The one attempt of the architecture phase.
LEMMA ArchitectureKeepsIInv == ASSUME IInv, Architecture PROVE IInv'
<1>1. pc = "phase" /\ flow[at] # "validation" BY DEF Architecture, In
<1>2. files \in [File -> Contents] /\ smooth \in BOOLEAN BY DEF IInv, TypeOK
<1>3. UNCHANGED files => Keeps(files') BY <1>2 DEF Keeps
<1>4. CASE files["architecture"] # "none"
  <2>1. Advance /\ UNCHANGED <<files, smooth>> BY <1>4 DEF Architecture
  <2> QED BY <1>1, <1>3, <2>1, KeptPhaseKeepsIInv
<1>5. CASE files["architecture"] = "none" /\ files["requirements"] = "none"
  <2>1. End("failed") /\ UNCHANGED <<files, smooth>> BY <1>5 DEF Architecture
  <2>2. moved BY <1>1, <1>5, MissingMeansMoved
  <2> QED BY <1>1, <1>2, <1>3, <2>1, <2>2, FailKeepsIInv
<1>6. CASE files["architecture"] = "none" /\ files["requirements"] # "none"
  <2>1. PICK ok \in BOOLEAN, left \in Left("architecture") :
          /\ Session("architecture", ok, left) /\ files' = left
          /\ IF ok /\ left["architecture"] # "none" THEN Advance ELSE End("failed")
    BY <1>6 DEF Architecture
  <2>2. smooth' = (smooth /\ ok /\ WellDone("architecture", left)) BY <2>1 DEF Session
  <2>3. smooth' \in BOOLEAN BY <2>2
  <2>4. Keeps(files') BY <2>1, SessionKeeps
  <2>5. "architecture" \in Outputs("architecture") BY OutputsOf
  <2>6. smooth' => ok /\ left["architecture"] # "none" BY <2>2, <2>5 DEF WellDone
  <2>7. CASE Advance BY <1>1, <2>3, <2>4, <2>7, AdvanceKeepsIInv
  <2>8. CASE End("failed") /\ ~(ok /\ left["architecture"] # "none")
    BY <1>1, <2>3, <2>4, <2>6, <2>8, FailKeepsIInv
  <2> QED BY <2>1, <2>7, <2>8
<1> QED BY <1>4, <1>5, <1>6

\* The quick specification: kept, from the template, or from an agent.
LEMMA QuickSpecKeepsIInv == ASSUME IInv, QuickSpec PROVE IInv'
<1>1. pc = "phase" /\ flow[at] # "validation" BY DEF QuickSpec, In
<1>2. files \in [File -> Contents] BY DEF IInv, TypeOK
<1>3. CASE Advance /\ UNCHANGED <<files, smooth>>
  <2>1. Keeps(files') BY <1>2, <1>3 DEF Keeps
  <2> QED BY <1>1, <1>3, <2>1, KeptPhaseKeepsIInv
<1>4. CASE /\ files' = [files EXCEPT !["spec"] = "bad", !["plan"] = "bad"]
           /\ Advance /\ UNCHANGED smooth
  <2>1. Keeps(files') BY <1>2, <1>4 DEF Keeps, File, Contents
  <2> QED BY <1>1, <1>4, <2>1, KeptPhaseKeepsIInv
<1>5. CASE \E ok \in BOOLEAN, left \in Left("quick_spec") :
             LET done == ok /\ left["spec"] # "none"
             IN  /\ Attempt("quick_spec", ok, left, done)
                 /\ files' = [left EXCEPT !["plan"] =
                                IF done /\ @ = "none" THEN "bad" ELSE @]
  <2>1. PICK ok \in BOOLEAN, left \in Left("quick_spec") :
          /\ Attempt("quick_spec", ok, left, ok /\ left["spec"] # "none")
          /\ files' = [left EXCEPT !["plan"] =
               IF (ok /\ left["spec"] # "none") /\ @ = "none" THEN "bad" ELSE @]
    BY <1>5
  <2>2. Keeps(left) BY SessionKeeps
  <2>3. Keeps(files') BY <2>1, <2>2 DEF Keeps, File, Contents
  <2>4. "spec" \in Outputs("quick_spec") BY OutputsOf
  <2>5. ok /\ WellDone("quick_spec", left) => ok /\ left["spec"] # "none"
    BY <2>4 DEF WellDone
  <2>6. (ok /\ left["spec"] # "none") \in BOOLEAN OBVIOUS
  <2> QED BY <1>1, <2>1, <2>3, <2>5, <2>6, AttemptKeepsIInv
<1> QED BY <1>3, <1>4, <1>5 DEF QuickSpec

\* The specification: kept when valid, otherwise written anew.
LEMMA SpecWritingKeepsIInv == ASSUME IInv, SpecWriting PROVE IInv'
<1>1. pc = "phase" /\ flow[at] # "validation" BY DEF SpecWriting, In
<1>2. files \in [File -> Contents] BY DEF IInv, TypeOK
<1>3. CASE Advance /\ UNCHANGED <<files, smooth>>
  <2>1. Keeps(files') BY <1>2, <1>3 DEF Keeps
  <2> QED BY <1>1, <1>3, <2>1, KeptPhaseKeepsIInv
<1>4. ASSUME NEW ok \in BOOLEAN, NEW left \in Left("spec_writing"),
             Attempt("spec_writing", ok, left, ok /\ left["spec"] = "good"), files' = left
      PROVE  IInv'
  <2>1. Keeps(files') BY <1>4, SessionKeeps
  <2>2. "spec" \in Outputs("spec_writing") BY OutputsOf
  <2>3. ok /\ WellDone("spec_writing", left) => ok /\ left["spec"] = "good"
    BY <2>2 DEF WellDone
  <2>4. (ok /\ left["spec"] = "good") \in BOOLEAN OBVIOUS
  <2> QED BY <1>1, <1>4, <2>1, <2>3, <2>4, AttemptKeepsIInv
<1> QED BY <1>3, <1>4 DEF SpecWriting

\* The critique: two of the phase's four ways out need no session.
LEMMA SelfCritiqueKeepsIInv == ASSUME IInv, SelfCritique PROVE IInv'
<1>1. pc = "phase" /\ flow[at] # "validation" BY DEF SelfCritique, In
<1>2. files \in [File -> Contents] /\ smooth \in BOOLEAN /\ attempt \in 0..(MaxRetries - 1)
  BY DEF IInv, TypeOK
<1>3. UNCHANGED files => Keeps(files') BY <1>2 DEF Keeps
<1>4. CASE files["spec"] = "none" /\ End("failed") /\ UNCHANGED <<files, smooth>>
  <2>1. moved BY <1>1, <1>4, MissingMeansMoved
  <2> QED BY <1>1, <1>2, <1>3, <1>4, <2>1, FailKeepsIInv
<1>5. CASE files["critique"] = "torn" /\ End("crashed") /\ UNCHANGED <<files, smooth>>
  <2>1. Unparsable' BY <1>5 DEF Unparsable
  <2> QED BY <1>1, <1>2, <1>3, <1>5, <2>1, FailKeepsIInv
<1>6. CASE Advance /\ UNCHANGED <<files, smooth>>
  BY <1>1, <1>3, <1>6, KeptPhaseKeepsIInv
<1>7. ASSUME NEW ok \in BOOLEAN, NEW left \in Left("self_critique"), NEW critique,
             critique = left["critique"] \/ critique = "good",
             Session("self_critique", ok, left),
             files' = [left EXCEPT !["critique"] = critique],
             \/ Advance
             \/ TryAgain /\ attempt + 1 # MaxRetries
      PROVE  IInv'
  <2>1. Keeps(left) BY SessionKeeps
  <2>2. Keeps(files') BY <1>7, <2>1 DEF Keeps, File, Contents
  <2>3. smooth' = (smooth /\ ok /\ WellDone("self_critique", left)) BY <1>7 DEF Session
  <2>4. smooth' \in BOOLEAN BY <2>3
  <2>5. CASE Advance BY <1>1, <2>2, <2>4, <2>5, AdvanceKeepsIInv
  <2>6. CASE TryAgain /\ attempt + 1 # MaxRetries
    <3>1. attempt + 1 < MaxRetries BY <1>2, <2>6, LimitsAssumption
    <3> QED BY <1>1, <2>2, <2>4, <2>6, <3>1, TryAgainKeepsIInv
  <2> QED BY <1>7, <2>5, <2>6
<1>8. ASSUME NEW ok \in BOOLEAN, NEW left \in Left("self_critique"),
             Session("self_critique", ok, left),
             files' = [left EXCEPT !["critique"] =
               IF (attempt + 1 = MaxRetries /\ ~(ok /\ left["spec"] = "good"))
                    \/ (ok /\ @ = "none")
               THEN "good" ELSE @],
             IF (ok /\ left["spec"] = "good") \/ attempt + 1 = MaxRetries
               THEN Advance ELSE TryAgain
      PROVE  IInv'
  <2>1. DEFINE critique ==
          IF (attempt + 1 = MaxRetries /\ ~(ok /\ left["spec"] = "good"))
               \/ (ok /\ left["critique"] = "none")
          THEN "good" ELSE left["critique"]
  <2>2. files' = [left EXCEPT !["critique"] = critique] BY <1>8
  <2>3. critique = left["critique"] \/ critique = "good" OBVIOUS
  <2>4. Advance \/ (TryAgain /\ attempt + 1 # MaxRetries) BY <1>8
  <2> HIDE DEF critique
  <2> QED BY <1>7, <1>8, <2>2, <2>3, <2>4
<1> QED BY <1>4, <1>5, <1>6, <1>8 DEF SelfCritique

\* The plan: kept when valid, made by a script, or by an agent and repaired.
LEMMA PlanningKeepsIInv == ASSUME IInv, Planning PROVE IInv'
<1>1. pc = "phase" /\ flow[at] # "validation" BY DEF Planning, In
<1>2. files \in [File -> Contents] BY DEF IInv, TypeOK
<1>3. CASE Advance /\ UNCHANGED <<files, smooth>>
  <2>1. Keeps(files') BY <1>2, <1>3 DEF Keeps
  <2> QED BY <1>1, <1>3, <2>1, KeptPhaseKeepsIInv
<1>4. CASE files' = [files EXCEPT !["plan"] = "good"] /\ Advance /\ UNCHANGED smooth
  <2>1. Keeps(files') BY <1>2, <1>4 DEF Keeps, File, Contents
  <2> QED BY <1>1, <1>4, <2>1, KeptPhaseKeepsIInv
<1>5. ASSUME NEW ok \in BOOLEAN, NEW left \in Left("planning"),
             NEW plan \in IF ok THEN AutoFixed(left["plan"]) ELSE {left["plan"]},
             Attempt("planning", ok, left, ok /\ plan = "good"),
             files' = [left EXCEPT !["plan"] = plan]
      PROVE  IInv'
  <2>1. Keeps(left) BY SessionKeeps
  <2>2. left["plan"] \in Contents BY <2>1 DEF Keeps, File
  <2>3. plan \in Contents /\ (left["plan"] = "good" => plan = "good")
    BY <2>2 DEF AutoFixed, Contents
  <2>4. Keeps(files') BY <1>5, <2>1, <2>3 DEF Keeps, File
  <2>5. "plan" \in Outputs("planning") BY OutputsOf
  <2>6. ok /\ WellDone("planning", left) => ok /\ plan = "good"
    BY <2>3, <2>5 DEF WellDone
  <2>7. (ok /\ plan = "good") \in BOOLEAN OBVIOUS
  <2> QED BY <1>1, <1>5, <2>4, <2>6, <2>7, AttemptKeepsIInv
<1> QED BY <1>3, <1>4, <1>5 DEF Planning

\* Validation fails only after a fixer, and a fixer that went well leaves nothing to fix.
LEMMA ValidationKeepsIInv == ASSUME IInv, Validation PROVE IInv'
<1>1. pc = "phase" /\ flow[at] = "validation" BY DEF Validation, In
<1>2. files \in [File -> Contents] /\ smooth \in BOOLEAN
      /\ attempt \in 0..(MaxRetries - 1)
  BY DEF IInv, TypeOK
<1>3. UNCHANGED files => Keeps(files') BY <1>2 DEF Keeps
<1>4. CASE Valid
  <2>1. Advance /\ UNCHANGED <<files, smooth>> BY <1>4 DEF Validation
  <2>2. Valid' BY <1>4, <2>1 DEF Valid
  <2> QED BY <1>1, <1>2, <1>3, <2>1, <2>2, AdvanceKeepsIInv
<1>5. CASE ~Valid /\ attempt + 1 = MaxRetries
  <2>1. End("failed") /\ UNCHANGED <<files, smooth>> BY <1>5 DEF Validation
  <2>2. attempt > 0 BY <1>2, <1>5, LimitsAssumption
  <2>3. ~smooth BY <1>1, <1>5, <2>2 DEF IInv, Fixed
  <2> QED BY <1>1, <1>2, <1>3, <2>1, <2>3, FailKeepsIInv
<1>6. CASE ~Valid /\ attempt + 1 # MaxRetries
  <2>1. PICK ok \in BOOLEAN, left \in Left("validation") :
          Session("validation", ok, left) /\ files' = left /\ TryAgain
    BY <1>6 DEF Validation
  <2>2. smooth' = (smooth /\ ok /\ WellDone("validation", left)) BY <2>1 DEF Session
  <2>3. smooth' \in BOOLEAN BY <2>2
  <2>4. Keeps(files') BY <2>1, SessionKeeps
  <2>5. {"context", "spec", "plan"} = Outputs("validation") BY OutputsOf
  <2>6. smooth' => Valid' BY <2>1, <2>2, <2>5 DEF WellDone, Valid
  <2>7. attempt + 1 < MaxRetries BY <1>2, <1>6, LimitsAssumption
  <2> QED BY <1>1, <2>1, <2>3, <2>4, <2>6, <2>7, TryAgainKeepsIInv
<1> QED BY <1>4, <1>5, <1>6

\* A kill may tear or replace a file, but it deletes none, and requirements are torn at
\* worst.
LEMMA KillKeepsIInv == ASSUME IInv, Kill PROVE IInv'
<1>1. TypeOK /\ Places BY DEF IInv
<1>2. pc # "idle" /\ End("killed") /\ smooth' = FALSE BY DEF Kill
<1>3. files \in [File -> Contents] BY <1>1 DEF TypeOK
<1>4. Active \subseteq File \ {"requirements"} BY OutputsOf DEF Active
<1>5. /\ files' \in [File -> Contents]
      /\ \A f \in File : files[f] # "none" => files'[f] # "none"
      /\ files'["requirements"] \in {files["requirements"], "torn"}
  <2>1. CASE UNCHANGED files BY <1>3, <2>1 DEF File
  <2>2. CASE \E f \in Writing : files' = [files EXCEPT ![f] = "torn"]
    <3>1. PICK f \in File : files' = [files EXCEPT ![f] = "torn"] BY <2>2 DEF Writing
    <3> QED BY <1>3, <3>1 DEF File, Contents
  <2>3. CASE \E f \in Active, c \in {"bad", "good"} : files' = [files EXCEPT ![f] = c]
    <3>1. PICK f \in File \ {"requirements"}, c \in {"bad", "good"} :
            files' = [files EXCEPT ![f] = c]
      BY <1>4, <2>3
    <3> QED BY <1>3, <3>1 DEF File, Contents
  <2> QED BY <2>1, <2>2, <2>3 DEF Kill
<1>6. origin = "ui" => files'["spec"] # "none" /\ files'["requirements"] # "none"
  BY <1>1, <1>5 DEF Places, File
<1>7. origin = "cli" /\ ~moved => files'["requirements"] # "bad"
  BY <1>1, <1>5 DEF Places
<1> QED BY <1>2, <1>5, <1>6, <1>7, EndKeepsIInv

-----------------------------------------------------------------------------
\* The theorems

\* The first runs begin with what create_task has written.
LEMMA InitIInv == Init => IInv
<1> SUFFICES ASSUME Init PROVE IInv OBVIOUS
<1>1. /\ pc = "idle" /\ flow = <<>> /\ at = 1 /\ attempt = 0 /\ result = "none"
      /\ smooth = FALSE /\ runs = 0 /\ moved = FALSE /\ origin \in Origins
  BY DEF Init
<1>2. files = [f \in File |->
        IF origin = "ui" /\ f \in {"spec", "requirements"} THEN "bad" ELSE "none"]
  BY DEF Init
<1>3. files \in [File -> Contents]
      /\ (origin = "ui" => files["spec"] = "bad" /\ files["requirements"] = "bad")
      /\ (origin = "cli" => files["requirements"] = "none")
  BY <1>2 DEF File, Contents
<1>4. TypeOK
  <2>1. at \in 1..(Len(flow) + 1) BY <1>1
  <2>2. attempt \in 0..(MaxRetries - 1) /\ runs \in 0..MaxRuns
    BY <1>1, LimitsAssumption
  <2> QED BY <1>1, <1>3, <2>1, <2>2 DEF TypeOK, Steps
<1>5. Places BY <1>1, <1>3 DEF Places
<1>6. Known /\ Fixed BY <1>1 DEF Known, Fixed
<1>7. Checked BY <1>1 DEF Checked, Succeeded, Accepted
<1>8. GoodRunSucceeds BY <1>1 DEF GoodRunSucceeds
<1> QED BY <1>4, <1>5, <1>6, <1>7, <1>8 DEF IInv

\* Every step keeps the invariant.
LEMMA NextKeepsIInv == IInv /\ [Next]_vars => IInv'
<1> SUFFICES ASSUME IInv, [Next]_vars PROVE IInv' OBVIOUS
<1>1. CASE Begin BY <1>1, BeginKeepsIInv
<1>2. CASE Discovery BY <1>2, DiscoveryKeepsIInv
<1>3. CASE Requirements BY <1>3, RequirementsKeepsIInv
<1>4. CASE Load BY <1>4, LoadKeepsIInv
<1>5. CASE Assess BY <1>5, AssessKeepsIInv
<1>6. CASE AlwaysSucceeds BY <1>6, AlwaysSucceedsKeepsIInv
<1>7. CASE Context BY <1>7, ContextKeepsIInv
<1>8. CASE Architecture BY <1>8, ArchitectureKeepsIInv
<1>9. CASE QuickSpec BY <1>9, QuickSpecKeepsIInv
<1>10. CASE SpecWriting BY <1>10, SpecWritingKeepsIInv
<1>11. CASE SelfCritique BY <1>11, SelfCritiqueKeepsIInv
<1>12. CASE Planning BY <1>12, PlanningKeepsIInv
<1>13. CASE Validation BY <1>13, ValidationKeepsIInv
<1>14. CASE Review BY <1>14, ReviewKeepsIInv
<1>15. CASE Kill BY <1>15, KillKeepsIInv
<1>16. CASE UNCHANGED vars
  <2>1. UNCHANGED <<origin, files, moved, pc, flow, at, attempt, result, smooth, runs>>
    BY <1>16 DEF vars
  <2>2. TypeOK' BY <2>1 DEF IInv, TypeOK
  <2>3. Places' BY <2>1 DEF IInv, Places
  <2>4. KnownFlow' = KnownFlow /\ Valid' = Valid /\ Succeeded' = Succeeded
        /\ Unparsable' = Unparsable
    BY <2>1 DEF KnownFlow, Valid, Succeeded, Unparsable
  <2>5. Known' BY <2>1, <2>4 DEF IInv, Known
  <2>6. Fixed' BY <2>1, <2>4 DEF IInv, Fixed
  <2>7. Checked' BY <2>1, <2>4 DEF IInv, Checked
  <2>8. GoodRunSucceeds' BY <2>1, <2>4 DEF IInv, GoodRunSucceeds
  <2> QED BY <2>2, <2>3, <2>5, <2>6, <2>7, <2>8 DEF IInv
<1> QED
  BY <1>1, <1>2, <1>3, <1>4, <1>5, <1>6, <1>7, <1>8, <1>9, <1>10, <1>11, <1>12, <1>13,
     <1>14, <1>15, <1>16
  DEF Next, Work

\* The invariant holds, for any flows and any number of retries and runs.
LEMMA InvariantHolds == Spec => []IInv
BY InitIInv, NextKeepsIInv, PTL DEF Spec

\* The variables keep their types: a phase that runs is one of the flow, and its
\* attempts never reach the limit.
THEOREM TypeCorrect == Spec => []TypeOK
<1>1. IInv => TypeOK BY DEF IInv
<1> QED BY <1>1, InvariantHolds, PTL

\* A run in which nothing goes wrong succeeds, whatever earlier runs left, unless it
\* meets one of the three dead ends.
THEOREM GoodRun == Spec => []GoodRunSucceeds
<1>1. IInv => GoodRunSucceeds BY DEF IInv
<1> QED BY <1>1, InvariantHolds, PTL

\* A run that succeeds after validation leaves a valid context, specification and plan.
THEOREM SuccessUsable == Spec => []SuccessIsUsable
<1>1. IInv => SuccessIsUsable BY DEF IInv, Checked, SuccessIsUsable
<1> QED BY <1>1, InvariantHolds, PTL

-----------------------------------------------------------------------------
\* Termination

\* The order in which a run goes through its steps.
Place ==
  CASE pc = "idle" -> 0 [] pc = "discovery" -> 1 [] pc = "requirements" -> 2
    [] pc = "load" -> 3 [] pc = "assess" -> 4 [] pc = "phase" -> 5 [] pc = "review" -> 6

\* An upper bound of the attempts that the phases of the flow under way may still take.
AttemptsLeft ==
  IF pc = "phase" THEN MaxRetries * (Len(flow) - at) + (MaxRetries - attempt) ELSE 0

AttemptsBounded == AttemptsLeft \in Nat /\ AttemptsLeft <= MaxRetries * Len(flow)

\* Every step of a run that goes on gets it further: to a later step, or, among the
\* phases, to one attempt less.
RunsShrink ==
  [][pc # "idle" /\ pc' # "idle" =>
       Place' > Place \/ (Place' = Place /\ AttemptsLeft' < AttemptsLeft)]_vars

\* What an attempt costs, m of them being allowed in each of l phases.
LEMMA Costs ==
  ASSUME NEW m \in Nat, NEW l \in Nat, NEW a \in 1..l, NEW t \in 0..(m - 1)
  PROVE  /\ m * (l - a) + (m - t) \in Nat
         /\ m * (l - a) + (m - t) <= m * l
         /\ m * (l - (a + 1)) + (m - 0) < m * (l - a) + (m - t)
         /\ m * (l - a) + (m - (t + 1)) < m * (l - a) + (m - t)
<1>1. /\ l - a \in Nat /\ a - 1 \in Nat /\ m * (l - a) \in Nat /\ m * (a - 1) \in Nat
      /\ m - t \in Nat /\ m - t > 0
  OBVIOUS
<1>2. m * (l - (a + 1)) = m * (l - a) - m OBVIOUS
<1>3. m * l = m * (l - a) + m * (a - 1) + m OBVIOUS
<1>4. t \in Nat OBVIOUS
<1> DEFINE p == m * (l - a)
           q == m * (a - 1)
<1> HIDE DEF p, q
<1>5. p \in Nat /\ q \in Nat BY <1>1 DEF p, q
<1>6. p + (m - t) <= p + q + m /\ p - m + (m - 0) < p + (m - t)
      /\ p + (m - (t + 1)) < p + (m - t) /\ p + (m - t) \in Nat
  BY <1>1, <1>4, <1>5
<1> QED BY <1>2, <1>3, <1>6 DEF p, q

LEMMA AttemptsType ==
  ASSUME TypeOK
  PROVE  AttemptsBounded
<1>1. Len(flow) \in Nat BY FlowIsSeq
<1>2. MaxRetries \in Nat BY LimitsAssumption
<1>3. CASE pc = "phase"
  <2>1. at \in 1..(Len(flow) + 1) /\ at <= Len(flow) /\ attempt \in 0..(MaxRetries - 1)
    BY <1>3 DEF TypeOK
  <2>2. at \in 1..Len(flow) BY <1>1, <2>1
  <2> QED BY <1>1, <1>2, <1>3, <2>1, <2>2, Costs DEF AttemptsBounded, AttemptsLeft
<1>4. CASE pc # "phase"
  <2>1. MaxRetries * Len(flow) \in Nat BY <1>1, <1>2
  <2> QED BY <1>4, <2>1 DEF AttemptsBounded, AttemptsLeft
<1> QED BY <1>3, <1>4

\* A phase is tried again or left behind, or it ends the run.
LEMMA PhaseSteps ==
  ASSUME Work, pc = "phase", pc' # "idle"
  PROVE  Advance \/ TryAgain
<1>1. CASE AlwaysSucceeds \/ Context BY <1>1 DEF AlwaysSucceeds, Context
<1>2. CASE Architecture BY <1>2, Zenon DEF Architecture, End
<1>3. ASSUME NEW p, NEW ok, NEW left, NEW done, Attempt(p, ok, left, done)
      PROVE  Advance \/ TryAgain
  BY <1>3 DEF Attempt, End
<1>4. CASE QuickSpec BY <1>3, <1>4, Zenon DEF QuickSpec
<1>5. CASE SpecWriting BY <1>3, <1>5, Zenon DEF SpecWriting
<1>6. CASE SelfCritique BY <1>6, Zenon DEF SelfCritique, End
<1>7. CASE Planning BY <1>3, <1>7, Zenon DEF Planning
<1>8. CASE Validation BY <1>8, Zenon DEF Validation, End
<1>9. ~(Discovery \/ Requirements \/ Load \/ Assess \/ Review)
  BY DEF Discovery, Requirements, Load, Assess, Review
<1> QED BY <1>1, <1>2, <1>4, <1>5, <1>6, <1>7, <1>8, <1>9 DEF Work

LEMMA StepAdvances ==
  ASSUME TypeOK, [Next]_vars, pc # "idle", pc' # "idle"
  PROVE  Place' > Place \/ (Place' = Place /\ AttemptsLeft' < AttemptsLeft) \/ UNCHANGED vars
<1>1. ~Begin /\ ~Kill BY DEF Begin, Kill, End
<1>2. CASE Work /\ pc = "phase"
  <2>1. Len(flow) \in Nat /\ MaxRetries \in Nat BY FlowIsSeq, LimitsAssumption
  <2>2. at \in 1..(Len(flow) + 1) /\ at <= Len(flow) /\ attempt \in 0..(MaxRetries - 1)
    BY <1>2 DEF TypeOK
  <2>3. at \in 1..Len(flow) BY <2>1, <2>2
  <2>4. /\ MaxRetries * (Len(flow) - (at + 1)) + (MaxRetries - 0) < AttemptsLeft
        /\ MaxRetries * (Len(flow) - at) + (MaxRetries - (attempt + 1)) < AttemptsLeft
    BY <1>2, <2>1, <2>2, <2>3, Costs DEF AttemptsLeft
  <2>5. CASE Advance
    <3>1. at' = at + 1 /\ attempt' = 0 /\ flow' = flow /\ pc' \in {"review", "phase"}
      BY <2>5 DEF Advance
    <3>2. CASE pc' = "review" BY <1>2, <3>2 DEF Place
    <3>3. CASE pc' = "phase"
      <4>1. AttemptsLeft' = MaxRetries * (Len(flow) - (at + 1)) + (MaxRetries - 0)
        BY <3>1, <3>3 DEF AttemptsLeft
      <4>2. Place' = Place BY <1>2, <3>3 DEF Place
      <4> QED BY <2>4, <4>1, <4>2
    <3> QED BY <3>1, <3>2, <3>3
  <2>6. CASE TryAgain
    <3>1. attempt' = attempt + 1 /\ at' = at /\ flow' = flow /\ pc' = pc
      BY <2>6 DEF TryAgain
    <3>2. AttemptsLeft' = MaxRetries * (Len(flow) - at) + (MaxRetries - (attempt + 1))
      BY <1>2, <3>1 DEF AttemptsLeft
    <3>3. Place' = Place BY <3>1 DEF Place
    <3> QED BY <2>4, <3>2, <3>3
  <2> QED BY <1>2, <2>5, <2>6, PhaseSteps
<1>3. CASE Work /\ pc # "phase"
  <2>1. <<pc, pc'>> \in {<<"discovery", "requirements">>, <<"requirements", "load">>,
          <<"load", "assess">>, <<"assess", "phase">>, <<"assess", "review">>}
    BY <1>3, Zenon DEF Work, Discovery, Requirements, Load, Assess, Review, GoOn, End,
       AlwaysSucceeds, Context, Architecture, QuickSpec, SpecWriting, SelfCritique, Planning,
       Validation, In
  <2> QED BY <2>1 DEF Place
<1> QED BY <1>1, <1>2, <1>3 DEF Next

\* Whatever its agents leave in the files, a run goes from step to step and makes no more
\* than MaxRetries attempts for each phase of its flow.
THEOREM RunsAreFinite == Spec => []AttemptsBounded /\ RunsShrink
<1>1. TypeOK => AttemptsBounded BY AttemptsType
<1>2. TypeOK /\ [Next]_vars =>
        [pc # "idle" /\ pc' # "idle" =>
           Place' > Place \/ (Place' = Place /\ AttemptsLeft' < AttemptsLeft)]_vars
  BY StepAdvances
<1> QED BY <1>1, <1>2, TypeCorrect, PTL DEF Spec, RunsShrink

=============================================================================
