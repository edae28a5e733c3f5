-------------------------- MODULE MCSpecPipeline --------------------------
(* Lists of phases for TLC: what complexity.py and track_config.py choose. *)
EXTENDS SpecPipeline

QuickFlow == <<"historical_context", "quick_spec", "validation">>
StandardFlow ==
  <<"historical_context", "context", "spec_writing", "planning", "validation">>
ComplexFlow ==
  <<"historical_context", "architecture", "research", "context", "spec_writing",
    "self_critique", "planning", "validation">>
EnterpriseFlow ==
  <<"historical_context", "architecture", "security_review", "context", "spec_writing",
    "planning", "devops_planning", "validation">>
\* An assessor may recommend any list.
RecommendedFlow == <<"self_critique", "spec_writing", "planning">>

KnownFlows == {QuickFlow, StandardFlow, ComplexFlow, RecommendedFlow}
AllFlows == KnownFlows \cup {EnterpriseFlow}

=============================================================================
