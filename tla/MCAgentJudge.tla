---------------------------- MODULE MCAgentJudge ----------------------------
(* AgentJudge with every subset of the first MaxTests numbers as testset.   *)
EXTENDS AgentJudge

HaltBoth == BOOLEAN
AnyLimit == {64}
=============================================================================
