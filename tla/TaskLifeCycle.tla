--------------------------- MODULE TaskLifeCycle ---------------------------
(***************************************************************************)
(* What starting a task once promises, whatever happens on the way: first  *)
(* the specification is written, then the task is built, by one agent at a *)
(* time and by a bounded number of them, and then nothing more happens.    *)
(***************************************************************************)
EXTENDS Naturals

CONSTANT MaxRounds   \* auto-continuation rounds

VARIABLES
  stage,   \* new, working or over
  agent,   \* an agent process runs
  specs,   \* agents launched for the specification so far
  builds   \* agents launched for the build so far

lifeVars == <<stage, agent, specs, builds>>

Begin ==
  /\ stage = "new"
  /\ stage' \in {"working", "over"}  \* the request may be refused
  /\ UNCHANGED <<agent, specs, builds>>

\* A first agent and one retry.
LaunchSpec ==
  /\ stage = "working" /\ ~agent /\ builds = 0 /\ specs < 2
  /\ agent' = TRUE /\ specs' = specs + 1
  /\ UNCHANGED <<stage, builds>>

\* A first agent, one for each continuation, and one retry.
LaunchBuild ==
  /\ stage = "working" /\ ~agent /\ builds < MaxRounds + 2
  /\ agent' = TRUE /\ builds' = builds + 1
  /\ UNCHANGED <<stage, specs>>

End ==
  /\ agent /\ agent' = FALSE
  /\ UNCHANGED <<stage, specs, builds>>

Settle ==
  /\ stage = "working" /\ ~agent
  /\ stage' = "over"
  /\ UNCHANGED <<agent, specs, builds>>

LifeInit == stage = "new" /\ agent = FALSE /\ specs = 0 /\ builds = 0

LifeNext == Begin \/ LaunchSpec \/ LaunchBuild \/ End \/ Settle

LifeSpec == LifeInit /\ [][LifeNext]_lifeVars

=============================================================================
