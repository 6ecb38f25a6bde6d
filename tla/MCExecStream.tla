---------------------------- MODULE MCExecStream ----------------------------
(* ExecStream with the agent's HaltOnFirstError as the runner sends it       *)
(* (Build_AgentExecSpec leaves it FALSE), a log limit whose lines always fit *)
(* into MAX_LOG_CAP_KB = 1024, and the one of the README's example.          *)
EXTENDS ExecStream

NeverHalt == {FALSE}
BothLimits == {64, 1024}
SmallLimit == {64}
=============================================================================
