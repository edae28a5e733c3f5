---------------------------- MODULE QALoopProofs ----------------------------
(***************************************************************************)
(* Theorems about QALoop, for any limits, any set of issues and any number *)
(* of runs.                                                                *)
(***************************************************************************)
EXTENDS QALoop, TLAPS

\* A run that goes on has not used up its consecutive errors.
ErrorsLeft == pc \in {"loop", "review", "judge", "fix"} => errors < MaxErrors

IInv == TypeOK /\ ErrorsLeft /\ RecurringIssuesEscalate /\ FeedbackFirst /\ ErrorsInARow

-----------------------------------------------------------------------------
\* Types

\* The limits as the arithmetic below uses them.
LEMMA Limits ==
  /\ MaxIterations \in Nat /\ MaxErrors \in Nat /\ MaxErrors > 0
  /\ Threshold \in Nat /\ MaxRuns \in Nat /\ MaxTally \in Nat
  /\ 0 \in 0..MaxErrors /\ 0 \in 0..MaxIterations
BY LimitsAssumption

\* What a fixer leaves is a plan.
LEMMA FixerEditsType ==
  ASSUME TypeOK, NEW edited \in FixerEdits
  PROVE  edited \in Plans
<1>1. CASE edited = plan BY <1>1 DEF TypeOK
<1>2. CASE edited = [plan EXCEPT !.file = "garbled"] BY <1>2 DEF TypeOK, Plans
<1>3. CASE edited = [plan EXCEPT !.signoff = "open", !.issues = {}]
  BY <1>3 DEF TypeOK, Plans
<1> QED BY <1>1, <1>2, <1>3 DEF FixerEdits

\* What a reviewer leaves is a plan, and it writes no human's fix request.
LEMMA ReviewerEditsType ==
  ASSUME TypeOK, ReviewerEdits
  PROVE  plan' \in Plans /\ fixRequest' \in {fixRequest, "reviewer"}
<1> USE Limits
<1>1. \A n \in Sessions(FALSE) \cup Sessions(TRUE) : n \in 0..MaxIterations
  <2>1. plan.session \in 0..MaxIterations /\ iteration \in 0..MaxIterations
    BY DEF TypeOK, Plans
  <2>2. Capped(plan.session + 1, MaxIterations) \in 0..MaxIterations
    BY <2>1 DEF Capped
  <2> QED BY <2>1, <2>2 DEF Sessions
<1>2. CASE UNCHANGED <<plan, fixRequest>> BY <1>2 DEF TypeOK
<1>3. CASE plan' = [plan EXCEPT !.file = "garbled"] /\ UNCHANGED fixRequest
  BY <1>3 DEF TypeOK, Plans
<1>4. CASE \E n \in Sessions(FALSE) :
             /\ plan' = [plan EXCEPT !.signoff = "approved", !.session = n, !.issues = {}]
             /\ UNCHANGED fixRequest
  BY <1>1, <1>4 DEF TypeOK, Plans
<1>5. CASE \E n \in Sessions(TRUE) :
             /\ plan' = [plan EXCEPT !.signoff = "open", !.session = n, !.issues = {}]
             /\ UNCHANGED fixRequest
  BY <1>1, <1>5 DEF TypeOK, Plans
<1>6. CASE \E n \in Sessions(TRUE), found \in SUBSET Issue :
             /\ plan' = [plan EXCEPT !.signoff = "rejected", !.session = n, !.issues = found]
             /\ fixRequest' \in {fixRequest, "reviewer"}
  BY <1>1, <1>6 DEF TypeOK, Plans
<1> QED BY <1>2, <1>3, <1>4, <1>5, <1>6 DEF ReviewerEdits

\* Recording an iteration keeps a plan a plan, adds no issue to it and takes no
\* occurrence of one away unless the file was unreadable.
LEMMA RecordedType ==
  ASSUME NEW edited \in Plans, NEW found \in SUBSET Issue
  PROVE  /\ Recorded(edited, found) \in Plans
         /\ Recorded(edited, found).issues \in {edited.issues, {}}
<1> DEFINE old == IF edited.file # "garbled" THEN edited
                  ELSE [file |-> "emptied", signoff |-> "none", session |-> 0,
                        issues |-> {}, tally |-> [i \in Issue |-> 0]]
           counted == [i \in Issue |-> IF i \in found THEN Capped(old.tally[i] + 1, MaxTally)
                                       ELSE old.tally[i]]
<1>1. old \in Plans /\ old.issues \in {edited.issues, {}}
  BY Limits DEF Plans
<1>2. counted \in [Issue -> 0..MaxTally]
  <2>1. \A i \in Issue : old.tally[i] \in 0..MaxTally
    BY <1>1 DEF Plans
  <2> HIDE DEF old
  <2>2. ASSUME NEW i \in Issue PROVE Capped(old.tally[i] + 1, MaxTally) \in 0..MaxTally
    <3>1. old.tally[i] \in 0..MaxTally BY <2>1
    <3>2. old.tally[i] + 1 \in Nat BY <3>1, Limits
    <3> QED BY <3>2, Limits DEF Capped
  <2> QED BY <2>1, <2>2
<1>3. Recorded(edited, found) = [old EXCEPT !.tally = counted]
  BY <1>1 DEF Recorded, Plans
<1> HIDE DEF old, counted
<1> QED BY <1>1, <1>2, <1>3 DEF Plans

-----------------------------------------------------------------------------
\* The invariant

\* A run that sets off or comes to an end, between the reviews.
LEMMA BetweenKeepsIInv ==
  ASSUME IInv, Begin \/ ProcessFeedback \/ FeedbackFails \/ Iterate \/ GiveUp
  PROVE  IInv'
<1> USE Limits DEF IInv, End
<1>1. CASE Begin
  <2>1. plan.session \in 0..MaxIterations BY DEF TypeOK, Plans
  <2>2. TypeOK'
    <3>1. runs' \in 0..MaxRuns
      <4>1. runs \in 0..MaxRuns BY DEF TypeOK
      <4>2. runs < MaxRuns /\ runs' = runs + 1 BY <1>1 DEF Begin
      <4> QED BY <4>1, <4>2
    <3> QED BY <1>1, <2>1, <3>1 DEF Begin, BeginLoop, TypeOK
  <2>3. /\ pc' \in {"idle", "feedback", "loop"}
        /\ pc' = "loop" => errors' = 0 /\ fixRequest' = "none"
    BY <1>1 DEF Begin, BeginLoop
  <2> QED BY <2>2, <2>3 DEF ErrorsLeft, RecurringIssuesEscalate, FeedbackFirst, ErrorsInARow
<1>2. CASE ProcessFeedback
  <2>1. plan' \in Plans BY <1>2, FixerEditsType DEF ProcessFeedback
  <2>2. plan'.session \in 0..MaxIterations BY <2>1 DEF Plans
  <2>3. TypeOK' BY <1>2, <2>1, <2>2 DEF ProcessFeedback, BeginLoop, TypeOK
  <2> QED BY <1>2, <2>3 DEF ProcessFeedback, BeginLoop, ErrorsLeft, RecurringIssuesEscalate,
                            FeedbackFirst, ErrorsInARow
<1>3. CASE FeedbackFails
  <2>1. TypeOK' BY <1>3, FixerEditsType DEF FeedbackFails, TypeOK
  <2> QED BY <1>3, <2>1 DEF FeedbackFails, ErrorsLeft, RecurringIssuesEscalate, FeedbackFirst,
                            ErrorsInARow
<1>4. CASE Iterate
  <2>1. iteration' \in 0..MaxIterations
    <3>1. iteration \in 0..MaxIterations BY DEF TypeOK
    <3>2. iteration < MaxIterations /\ iteration' = iteration + 1 BY <1>4 DEF Iterate
    <3> QED BY <3>1, <3>2
  <2> QED BY <1>4, <2>1 DEF Iterate, TypeOK, ErrorsLeft, RecurringIssuesEscalate,
                                  FeedbackFirst, ErrorsInARow
<1>5. CASE GiveUp
  BY <1>5 DEF GiveUp, TypeOK, ErrorsLeft, RecurringIssuesEscalate, FeedbackFirst, ErrorsInARow
<1> QED BY <1>1, <1>2, <1>3, <1>4, <1>5

\* A review, and what the loop makes of it.
LEMMA JudgeKeepsIInv ==
  ASSUME IInv, Review \/ JudgeApproved \/ JudgeRejected \/ JudgeError
  PROVE  IInv'
<1> USE Limits DEF IInv, End
<1>1. CASE Review
  <2>1. plan' \in Plans /\ fixRequest' \in {fixRequest, "reviewer"}
    BY <1>1, ReviewerEditsType DEF Review
  <2>2. Verdict' \in {"approved", "rejected", "error"} BY DEF Verdict
  <2>3. TypeOK' BY <1>1, <2>1, <2>2 DEF Review, TypeOK
  <2> QED BY <1>1, <2>1, <2>3 DEF Review, ErrorsLeft, RecurringIssuesEscalate, FeedbackFirst,
                                  ErrorsInARow
<1>2. CASE JudgeApproved
  <2>1. plan' \in Plans BY <1>2, RecordedType DEF JudgeApproved, TypeOK
  <2>2. TypeOK' BY <1>2, <2>1 DEF JudgeApproved, TypeOK
  <2> QED BY <1>2, <2>2 DEF JudgeApproved, ErrorsLeft, RecurringIssuesEscalate, FeedbackFirst,
                            ErrorsInARow
<1>3. CASE JudgeRejected
  <2>0. plan.issues \in SUBSET Issue BY DEF TypeOK, Plans
  <2>1. plan' \in Plans /\ plan'.issues \in {plan.issues, {}}
    BY <1>3, <2>0, RecordedType DEF JudgeRejected, TypeOK
  <2>2. TypeOK' BY <1>3, <2>1 DEF JudgeRejected, TypeOK
  <2>3. RecurringIssuesEscalate'
    <3>1. \A i \in plan.issues : plan'.tally[i] \in Nat BY <2>0, <2>1 DEF Plans
    <3>2. pc' = "fix" => \A i \in plan.issues : ~(1 + plan'.tally[i] >= Threshold)
      BY <1>3 DEF JudgeRejected, HasRecurring
    <3> QED BY <2>1, <3>1, <3>2 DEF RecurringIssuesEscalate
  <2> QED BY <1>3, <2>2, <2>3 DEF JudgeRejected, ErrorsLeft, FeedbackFirst, ErrorsInARow
<1>4. CASE JudgeError
  <2>1. plan' \in Plans BY <1>4, RecordedType DEF JudgeError, TypeOK
  <2>2. errors + 1 \in 0..MaxErrors
    <3>1. errors \in 0..MaxErrors BY DEF TypeOK
    <3>2. errors < MaxErrors BY <1>4 DEF JudgeError, ErrorsLeft
    <3> QED BY <3>1, <3>2
  <2>3. TypeOK' BY <1>4, <2>1, <2>2 DEF JudgeError, TypeOK
  <2> QED BY <1>4, <2>2, <2>3 DEF JudgeError, ErrorsLeft, RecurringIssuesEscalate,
                                  FeedbackFirst, ErrorsInARow
<1> QED BY <1>1, <1>2, <1>3, <1>4

\* A fix, and whatever happens around a run.
LEMMA OtherKeepsIInv ==
  ASSUME IInv, Fix \/ FixFails \/ Kill \/ GiveFeedback \/ RequestChanges \/ UNCHANGED vars
  PROVE  IInv'
<1> USE Limits DEF IInv, End
<1>1. CASE Fix
  <2>1. TypeOK' BY <1>1, FixerEditsType DEF Fix, TypeOK
  <2> QED BY <1>1, <2>1 DEF Fix, ErrorsLeft, RecurringIssuesEscalate, FeedbackFirst, ErrorsInARow
<1>2. CASE FixFails
  <2>1. PICK edited \in Plans : plan' = Recorded(edited, {})
    BY <1>2, FixerEditsType DEF FixFails, TypeOK
  <2>2. plan' \in Plans BY <2>1, RecordedType
  <2>3. TypeOK' BY <1>2, <2>2 DEF FixFails, TypeOK
  <2> QED BY <1>2, <2>3 DEF FixFails, ErrorsLeft, RecurringIssuesEscalate, FeedbackFirst,
                            ErrorsInARow
<1>3. CASE Kill
  <2>1. plan' \in Plans BY <1>3 DEF Kill, TypeOK, Plans
  <2>2. TypeOK' BY <1>3, <2>1 DEF Kill, TypeOK
  <2> QED BY <1>3, <2>2 DEF Kill, ErrorsLeft, RecurringIssuesEscalate, FeedbackFirst,
                            ErrorsInARow
<1>4. CASE GiveFeedback
  BY <1>4 DEF GiveFeedback, TypeOK, ErrorsLeft, RecurringIssuesEscalate, FeedbackFirst,
              ErrorsInARow
<1>5. CASE RequestChanges
  <2>1. plan' \in Plans BY <1>5 DEF RequestChanges, TypeOK, Plans
  <2>2. TypeOK' BY <1>5, <2>1 DEF RequestChanges, TypeOK
  <2> QED BY <1>5, <2>2 DEF RequestChanges, ErrorsLeft, RecurringIssuesEscalate, FeedbackFirst,
                            ErrorsInARow
<1>6. CASE UNCHANGED vars
  BY <1>6 DEF vars, TypeOK, ErrorsLeft, RecurringIssuesEscalate, FeedbackFirst, ErrorsInARow
<1> QED BY <1>1, <1>2, <1>3, <1>4, <1>5, <1>6

\* The inductive invariant.
LEMMA Inductive == Spec => []IInv
<1>1. Init => IInv
  BY Limits DEF Init, IInv, TypeOK, Plans, ErrorsLeft, RecurringIssuesEscalate,
     FeedbackFirst, ErrorsInARow
<1>2. IInv /\ [Next]_vars => IInv'
  BY BetweenKeepsIInv, JudgeKeepsIInv, OtherKeepsIInv DEF Next, Run
<1> QED BY <1>1, <1>2, PTL DEF Spec

\* The variables keep their types: the counts of iterations and of errors in a row never
\* pass their limits.
THEOREM TypeCorrect == Spec => []TypeOK
<1>1. IInv => TypeOK BY DEF IInv
<1> QED BY <1>1, Inductive, PTL

\* The fixer is never sent after an issue for which the build was rejected Threshold times,
\* by the history that is left, over any number of runs and kills.
THEOREM RecurringStop == Spec => []RecurringIssuesEscalate
<1>1. IInv => RecurringIssuesEscalate BY DEF IInv
<1> QED BY <1>1, Inductive, PTL

\* No review, judgement or fix happens while a human's feedback waits.
THEOREM HumanFirst == Spec => []FeedbackFirst
<1>1. IInv => FeedbackFirst BY DEF IInv
<1> QED BY <1>1, Inductive, PTL

\* Errors are counted towards the limit only when nothing but errors lies between them.
THEOREM ErrorsConsecutive == Spec => []ErrorsInARow
<1>1. IInv => ErrorsInARow BY DEF IInv
<1> QED BY <1>1, Inductive, PTL

-----------------------------------------------------------------------------
\* Termination

\* An upper bound of the steps that the run under way may still take.
StepsLeft ==
  LET rest == 5 * (MaxIterations - iteration)
  IN  CASE pc = "idle" -> 0
        [] pc = "feedback" -> 5 * MaxIterations + 2
        [] pc = "review" -> rest + 4
        [] pc = "judge" -> rest + 3
        [] pc = "fix" -> rest + 2
        [] pc = "loop" -> rest + 1

StepsBounded == StepsLeft \in 0..(5 * MaxIterations + 4)

\* Every step of a run that goes on uses up some of them.
RunsShrink == [][pc # "idle" /\ pc' # "idle" => StepsLeft' < StepsLeft]_vars

LEMMA StepsType ==
  ASSUME TypeOK
  PROVE  StepsBounded
<1>1. /\ MaxIterations \in Nat /\ iteration \in 0..MaxIterations
      /\ pc \in {"idle", "feedback", "loop", "review", "judge", "fix"}
  BY Limits DEF TypeOK
<1>2. StepsLeft \in Int /\ 0 <= StepsLeft /\ StepsLeft <= 5 * MaxIterations + 4
  BY <1>1 DEF StepsLeft
<1> QED BY <1>1, <1>2 DEF StepsBounded

LEMMA StepShrinks ==
  ASSUME TypeOK, TypeOK', [Next]_vars, pc # "idle", pc' # "idle"
  PROVE  StepsLeft' < StepsLeft \/ UNCHANGED vars
<1>0. /\ MaxIterations \in Nat /\ iteration \in 0..MaxIterations
      /\ iteration' \in 0..MaxIterations
  BY Limits DEF TypeOK
<1>1. CASE ProcessFeedback
  <2>1. pc = "feedback" /\ pc' = "loop" BY <1>1 DEF ProcessFeedback, BeginLoop
  <2> QED BY <1>0, <2>1 DEF StepsLeft
<1>2. CASE Iterate
  <2>1. pc = "loop" /\ pc' = "review" /\ iteration' = iteration + 1 BY <1>2 DEF Iterate
  <2> QED BY <1>0, <2>1 DEF StepsLeft
<1>3. CASE Review \/ JudgeApproved \/ JudgeRejected \/ JudgeError \/ Fix
  <2>1. /\ <<pc, pc'>> \in {<<"review", "judge">>, <<"judge", "fix">>, <<"judge", "loop">>,
                           <<"fix", "loop">>}
        /\ iteration' = iteration
    BY <1>3 DEF Review, JudgeApproved, JudgeRejected, JudgeError, Fix, End
  <2> QED BY <1>0, <2>1 DEF StepsLeft
<1>4. ~(Begin \/ FeedbackFails \/ GiveUp \/ FixFails \/ Kill \/ GiveFeedback \/ RequestChanges)
  BY DEF Begin, FeedbackFails, GiveUp, FixFails, Kill, GiveFeedback, RequestChanges, End
<1> QED BY <1>1, <1>2, <1>3, <1>4 DEF Next, Run

\* Whatever its agents answer, a run of the loop takes no more than 5 * MaxIterations + 4
\* steps: no rejection, error or restart ever gives it steps back.
THEOREM RunsAreFinite == Spec => []StepsBounded /\ RunsShrink
<1>1. TypeOK => StepsBounded BY StepsType
<1>2. TypeOK /\ TypeOK' /\ [Next]_vars =>
        [pc # "idle" /\ pc' # "idle" => StepsLeft' < StepsLeft]_vars
  BY StepShrinks
<1> QED BY <1>1, <1>2, TypeCorrect, PTL DEF Spec, RunsShrink

=============================================================================
