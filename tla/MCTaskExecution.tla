-------------------------- MODULE MCTaskExecution --------------------------
(* Settings of TaskExecution for TLC. *)
EXTENDS TaskExecution, TLC

AllSettings ==
  [nonClaude : BOOLEAN, failover : BOOLEAN, requireReview : BOOLEAN]

\* A retried task without the plan review, and a plain one with it.
TwoSettings ==
  {[nonClaude |-> b, failover |-> b, requireReview |-> ~b] : b \in BOOLEAN}

\* A Claude model, auto-switch off (auto-switch.json absent), no plan review.
DefaultSettings ==
  {[nonClaude |-> FALSE, failover |-> FALSE, requireReview |-> FALSE]}

\* Start requests are served alike.
Symmetry == Permutations(StartCalls)

=============================================================================
