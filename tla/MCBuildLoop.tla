---------------------------- MODULE MCBuildLoop ----------------------------
(***************************************************************************)
(* Two phases, the second waiting for the first: the smallest plan in      *)
(* which a failed subtask blocks another.                                  *)
(***************************************************************************)
EXTENDS BuildLoop

TwoPhases == <<1, 2>>
SecondWaits == <<{}, {1}>>
=============================================================================
