------------------------------- MODULE QALoop -------------------------------
(***************************************************************************)
(* The self-validating QA loop of a build (apps/backend/qa/loop.py): a     *)
(* reviewer agent approves or rejects the build, a fixer agent works on    *)
(* what was rejected, until approval, a limit, or a human is called for.   *)
(* What survives a run is on disk: qa_signoff and qa_iteration_history in  *)
(* implementation_plan.json, and QA_FIX_REQUEST.md.                        *)
(*                                                                         *)
(* The agents are language models: all the loop knows of a session is what *)
(* it left in those files, or that it raised.                              *)
(***************************************************************************)
EXTENDS Integers

CONSTANTS
  Issue,          \* issues, up to the similarity that has_recurring_issues finds
  MaxIterations,  \* MAX_QA_ITERATIONS, 10 in the code
  MaxErrors,      \* MAX_CONSECUTIVE_ERRORS, 3 in the code
  Threshold,      \* RECURRING_ISSUE_THRESHOLD, 3 in the code
  MaxRuns,        \* bound: runs of the loop in a behaviour
  MaxTally        \* bound: how far occurrences of an issue are counted

ASSUME LimitsAssumption ==
  /\ MaxIterations \in Nat \ {0} /\ MaxErrors \in Nat \ {0}
  /\ Threshold \in Nat /\ MaxRuns \in Nat /\ MaxTally \in Nat
  /\ Threshold <= MaxTally

VARIABLES
  plan,        \* what the loop reads and writes of implementation_plan.json
  fixRequest,  \* QA_FIX_REQUEST.md: none, or who wrote it: human, reviewer
  pc,
  iteration,   \* qa_iteration
  errors,      \* consecutive_errors
  status,      \* what the last reviewer session of the run returned
  result,      \* how the last finished run ended
  runs         \* runs begun

vars == <<plan, fixRequest, pc, iteration, errors, status, result, runs>>

\* file: readable with its subtasks, not JSON any more, or rewritten without subtasks.
\* signoff: qa_signoff.status, where open is any status that is no verdict.
\* tally: how often each issue occurs in qa_iteration_history.
Plans ==
  [file : {"whole", "garbled", "emptied"},
   signoff : {"none", "open", "approved", "rejected"},
   session : 0..MaxIterations,
   issues : SUBSET Issue,
   tally : [Issue -> 0..MaxTally]]

TypeOK ==
  /\ plan \in Plans
  /\ fixRequest \in {"none", "human", "reviewer"}
  /\ pc \in {"idle", "feedback", "loop", "review", "judge", "fix"}
  /\ iteration \in 0..MaxIterations
  /\ errors \in 0..MaxErrors
  /\ status \in {"unset", "approved", "rejected", "error"}
  /\ result \in {"none", "refused", "approved", "escalated", "stuck", "incomplete",
                 "fixer error", "killed"}
  /\ runs \in 0..MaxRuns

\* A build whose subtasks are all completed and that QA has not seen yet.
Init ==
  /\ plan = [file |-> "whole", signoff |-> "none", session |-> 0,
             issues |-> {}, tally |-> [i \in Issue |-> 0]]
  /\ fixRequest = "none"
  /\ pc = "idle" /\ iteration = 0 /\ errors = 0
  /\ status = "unset" /\ result = "none" /\ runs = 0

Capped(n, max) == IF n < max THEN n ELSE max

\* load_implementation_plan returns a plan.
Readable == plan.file # "garbled"
IsBuildComplete == plan.file = "whole"
IsQAApproved == Readable /\ plan.signoff = "approved"

End(how) == pc' = "idle" /\ result' = how

-----------------------------------------------------------------------------
\* A run up to its loop.

BeginLoop ==
  /\ iteration' = IF Readable' THEN plan'.session ELSE 0
  /\ errors' = 0 /\ status' = "unset"
  /\ pc' = "loop"

\* Called by a build that QA has not approved, or by the --qa command.
Begin ==
  /\ pc = "idle" /\ runs < MaxRuns
  /\ (IsBuildComplete /\ ~IsQAApproved) \/ fixRequest # "none"
  /\ runs' = runs + 1
  /\ UNCHANGED <<plan, fixRequest>>
  /\ \/ /\ ~IsBuildComplete
        /\ End("refused")
        /\ UNCHANGED <<iteration, errors, status>>
     \/ /\ IsBuildComplete /\ fixRequest # "none"
        /\ pc' = "feedback" /\ status' = "unset"
        /\ UNCHANGED <<iteration, errors, result>>
     \/ /\ IsBuildComplete /\ fixRequest = "none"
        /\ BeginLoop /\ UNCHANGED result

\* A fixer sets fixes_applied, sets nothing, or leaves a file that does not parse.
FixerEdits ==
  {plan, [plan EXCEPT !.file = "garbled"]} \cup
  (IF Readable THEN {[plan EXCEPT !.signoff = "open", !.issues = {}]} ELSE {})

\* Mutant: the processed fix request stays.
ProcessFeedbackKept ==
  /\ pc = "feedback"
  /\ plan' \in FixerEdits /\ BeginLoop
  /\ UNCHANGED <<fixRequest, result, runs>>

\* Human feedback: the fixer runs before any review, and the file is removed.
ProcessFeedback ==
  /\ pc = "feedback"
  /\ plan' \in FixerEdits
  /\ fixRequest' = "none"
  /\ BeginLoop
  /\ UNCHANGED <<result, runs>>

FeedbackFails ==
  /\ pc = "feedback"
  /\ plan' \in FixerEdits
  /\ End("fixer error")
  /\ UNCHANGED <<fixRequest, iteration, errors, status, runs>>

-----------------------------------------------------------------------------
\* The loop.

\* Mutant: every iteration takes the count from the plan.
IterateFromPlan ==
  /\ pc = "loop" /\ iteration < MaxIterations
  /\ iteration' = Capped(plan.session + 1, MaxIterations)
  /\ pc' = "review"
  /\ UNCHANGED <<plan, fixRequest, errors, status, result, runs>>

Iterate ==
  /\ pc = "loop" /\ iteration < MaxIterations
  /\ iteration' = iteration + 1
  /\ pc' = "review"
  /\ UNCHANGED <<plan, fixRequest, errors, status, result, runs>>

GiveUp ==
  /\ pc = "loop" /\ iteration >= MaxIterations
  /\ End("incomplete")
  /\ UNCHANGED <<plan, fixRequest, iteration, errors, status, runs>>

\* qa_session after an edit: update_qa_status counts from the file, an agent that
\* edits the file itself was told the number of the iteration.
Sessions(counts) ==
  {iteration, IF counts THEN Capped(plan.session + 1, MaxIterations) ELSE plan.session}

\* A reviewer (or the tool-capable fallback provider) writes a verdict, leaves the
\* review open, writes nothing, or leaves a file that does not parse.
ReviewerEdits ==
  \/ UNCHANGED <<plan, fixRequest>>
  \/ /\ plan' = [plan EXCEPT !.file = "garbled"]
     /\ UNCHANGED fixRequest
  \/ /\ Readable
     /\ \/ \E n \in Sessions(FALSE) :
             plan' = [plan EXCEPT !.signoff = "approved", !.session = n, !.issues = {}]
        \/ \E n \in Sessions(TRUE) :
             plan' = [plan EXCEPT !.signoff = "open", !.session = n, !.issues = {}]
     /\ UNCHANGED fixRequest
  \/ /\ Readable
     /\ \E n \in Sessions(TRUE), found \in SUBSET Issue :
          plan' = [plan EXCEPT !.signoff = "rejected", !.session = n, !.issues = found]
     /\ fixRequest' \in {fixRequest, "reviewer"}

\* What run_qa_agent_session reads back when the session is over.
Verdict == IF Readable /\ plan.signoff \in {"approved", "rejected"}
             THEN plan.signoff ELSE "error"

Review ==
  /\ pc = "review"
  /\ ReviewerEdits
  /\ status' \in {Verdict', "error"}  \* "error" also when the session raised
  /\ pc' = "judge"
  /\ UNCHANGED <<iteration, errors, result, runs>>

\* record_iteration.  A plan that does not parse is replaced by an empty one.
Recorded(edited, found) ==
  LET old == IF edited.file # "garbled" THEN edited
             ELSE [file |-> "emptied", signoff |-> "none", session |-> 0,
                   issues |-> {}, tally |-> [i \in Issue |-> 0]]
  IN  [old EXCEPT !.tally =
         [i \in Issue |-> IF i \in found THEN Capped(@[i] + 1, MaxTally) ELSE @[i]]]

\* Mutant: the threshold must be passed by what the history holds.
HasRecurringLate(found, tally) == \E i \in found : tally[i] > Threshold

\* has_recurring_issues: the current occurrence, and those of the history.
HasRecurring(found, tally) == \E i \in found : 1 + tally[i] >= Threshold

JudgeApproved ==
  /\ pc = "judge" /\ status = "approved"
  /\ plan' = Recorded(plan, {})
  /\ errors' = 0
  /\ End("approved")
  /\ UNCHANGED <<fixRequest, iteration, status, runs>>

\* Mutant: a rejection does not reset the error count.
JudgeRejectedSticky ==
  /\ pc = "judge" /\ status = "rejected"
  /\ plan' = Recorded(plan, plan.issues)
  /\ errors' = errors
  /\ IF HasRecurring(plan.issues, plan'.tally) THEN End("escalated")
     ELSE IF iteration >= MaxIterations THEN End("incomplete")
     ELSE pc' = "fix" /\ UNCHANGED result
  /\ UNCHANGED <<fixRequest, iteration, status, runs>>

\* The history that is searched already holds the record just made.
JudgeRejected ==
  /\ pc = "judge" /\ status = "rejected"
  /\ plan' = Recorded(plan, plan.issues)
  /\ errors' = 0
  /\ IF HasRecurring(plan.issues, plan'.tally) THEN End("escalated")
     ELSE IF iteration >= MaxIterations THEN End("incomplete")
     ELSE pc' = "fix" /\ UNCHANGED result
  /\ UNCHANGED <<fixRequest, iteration, status, runs>>

\* Mutant: one more error in a row is tolerated.
JudgeErrorUncapped ==
  /\ pc = "judge" /\ status = "error"
  /\ plan' = Recorded(plan, {})
  /\ errors' = errors + 1
  /\ IF errors >= MaxErrors THEN End("stuck") ELSE pc' = "loop" /\ UNCHANGED result
  /\ UNCHANGED <<fixRequest, iteration, status, runs>>

JudgeError ==
  /\ pc = "judge" /\ status = "error"
  /\ plan' = Recorded(plan, {})
  /\ errors' = errors + 1
  /\ IF errors + 1 >= MaxErrors THEN End("stuck") ELSE pc' = "loop" /\ UNCHANGED result
  /\ UNCHANGED <<fixRequest, iteration, status, runs>>

Fix ==
  /\ pc = "fix" /\ fixRequest # "none"
  /\ plan' \in FixerEdits
  /\ pc' = "loop"
  /\ UNCHANGED <<fixRequest, iteration, errors, status, result, runs>>

\* The fix request is missing, or the session raised: the loop is left.
FixFails ==
  /\ pc = "fix"
  /\ \E edited \in IF fixRequest = "none" THEN {plan} ELSE FixerEdits :
       plan' = Recorded(edited, {})
  /\ End("incomplete")
  /\ UNCHANGED <<fixRequest, iteration, errors, status, runs>>

-----------------------------------------------------------------------------
\* Around a run.

\* The build's process is stopped, or dies; a write of the plan may be cut short.
Kill ==
  /\ pc # "idle"
  /\ plan' \in {plan, [plan EXCEPT !.file = "garbled"]}
  /\ End("killed")
  /\ UNCHANGED <<fixRequest, iteration, errors, status, runs>>

\* A human leaves a QA_FIX_REQUEST.md for the next --qa run.
GiveFeedback ==
  /\ pc = "idle" /\ fixRequest # "human"
  /\ fixRequest' = "human"
  /\ UNCHANGED <<plan, pc, iteration, errors, status, result, runs>>

\* submit_review with changes requested, and the coder's work on the subtask it adds
\* (a plan without phases takes none: then only the verdict changes).
RequestChanges ==
  /\ pc = "idle" /\ plan.file = "whole"
  /\ fixRequest' = "none"
  /\ plan' = IF plan.signoff = "none" THEN plan ELSE [plan EXCEPT !.signoff = "rejected"]
  /\ UNCHANGED <<pc, iteration, errors, status, result, runs>>

Run ==
  \/ ProcessFeedback \/ FeedbackFails
  \/ Iterate \/ GiveUp \/ Review
  \/ JudgeApproved \/ JudgeRejected \/ JudgeError
  \/ Fix \/ FixFails

Next == Begin \/ Run \/ Kill \/ GiveFeedback \/ RequestChanges

\* A run goes on while its process lives: the loop has no other waits than the agent
\* sessions, which are taken to end.
Spec == Init /\ [][Next]_vars /\ WF_vars(Run)

-----------------------------------------------------------------------------
\* Properties

\* "3+ occurrences -> human escalation": the fixer is never sent again after an issue for
\* which the build was rejected Threshold times, whatever restarts lie in between, as long
\* as the history was not lost with its file.  The code is stricter than its documents:
\* the history that is searched holds the current report already, which is counted twice,
\* so that Threshold - 1 rejections are enough for an escalation.
RecurringIssuesEscalate ==
  pc = "fix" => \A i \in plan.issues : plan.tally[i] < Threshold

\* The reviewer never judges a build while a human's feedback on it is unprocessed.
FeedbackFirst ==
  pc \in {"loop", "review", "judge", "fix"} => fixRequest # "human"

\* Errors count towards MAX_CONSECUTIVE_ERRORS only in a row: a rejection in between
\* starts the count again.
ErrorsInARow ==
  pc \in {"loop", "fix"} /\ errors > 0 => status = "error"

\* Rejections, errors, recurring issues and failed fixes never keep a run going for
\* ever: the loop is left after MAX_QA_ITERATIONS reviews at most.
EveryRunEnds == pc # "idle" ~> pc = "idle"

=============================================================================
