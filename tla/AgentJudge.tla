----------------------------- MODULE AgentJudge -----------------------------
(***************************************************************************)
(* RunnerAgent (ajagent/internal/ajagent.go): the agent in the container   *)
(* reads one execution specification from its socket, compiles, runs the   *)
(* numbered tests it finds and streams events and a result.                *)
(* What runTestCase answers is any verdict; the module TestCase is about   *)
(* which.  The agent can be killed at any moment.                          *)
(***************************************************************************)
EXTENDS Naturals, Sequences, FiniteSets

CONSTANTS MaxTests,     \* largest number of a test case file in the testset
          Halt,         \* values of HaltOnFirstError
          LogLimits     \* values of LogLimitKB

ASSUME AgentAssumption ==
    MaxTests \in Nat /\ Halt \subseteq BOOLEAN /\ LogLimits \subseteq Nat

VARIABLES
    spec,        \* the specification received: the numbers of the tests that
                 \* have an input and an output file, HaltOnFirstError,
                 \* whether there are CompileArgs, and LogLimitKB
    pc,          \* where RunnerAgent is
    i,           \* index of the next test
    testCount,
    allCorrect,
    final,       \* the verdict that sendResult is about to send
    sent         \* events written to the socket

agentVars == <<spec, pc, i, testCount, allCorrect, final, sent>>

ExecSpecs ==
    [files : SUBSET (1..MaxTests), halt : Halt, compiled : BOOLEAN, logKB : LogLimits]

E == INSTANCE EventStream WITH stream <- sent

\* A run of RunnerAgent that is at p.
Start(p) ==
    /\ spec \in ExecSpecs
    /\ pc = p
    /\ i = 1
    /\ testCount = 0
    /\ allCorrect = TRUE
    /\ final = "none"
    /\ sent = <<>>

Init == Start("dial")

\* sendEvent: an error of the write is logged, no more
Send(type, status) == sent' = Append(sent, E!Event(type, status))

\* sendResult follows, and RunnerAgent returns
ResultIs(verdict) ==
    /\ final' = verdict
    /\ pc' = "result"

Dial ==
    /\ pc = "dial"
    /\ pc' \in {"read", "exited"}       \* os.Exit(1) when the socket is not there
    /\ UNCHANGED <<spec, i, testCount, allCorrect, final, sent>>

\* the runner's end was closed before a whole line came
ReadFails ==
    /\ pc = "read"
    /\ Send("FATAL", "IE")
    /\ pc' = "exited"
    /\ UNCHANGED <<spec, i, testCount, allCorrect, final>>

UnmarshalFails ==
    /\ pc = "read"
    /\ Send("FATAL", "IE")
    /\ ResultIs("IE")
    /\ UNCHANGED <<spec, i, testCount, allCorrect>>

ReadSpec ==
    /\ pc = "read"
    /\ pc' = IF spec.compiled THEN "compile" ELSE "find"
    /\ UNCHANGED <<spec, i, testCount, allCorrect, final, sent>>

\* cmd.Run() has no timeout: this need not happen
Compiles ==
    /\ pc = "compile"
    /\ pc' = "find"
    /\ UNCHANGED <<spec, i, testCount, allCorrect, final, sent>>

CompileFails ==
    /\ pc = "compile"
    /\ Send("ERROR", "CE")
    /\ ResultIs("CE")
    /\ UNCHANGED <<spec, i, testCount, allCorrect>>

\* mistakes: the loop does not stop at a missing number; it stops one too early
LoopNeverStops ==
    /\ pc = "find"
    /\ pc' = "run"
    /\ UNCHANGED <<spec, i, testCount, allCorrect, final, sent>>

LoopStopsEarly ==
    /\ pc = "find"
    /\ pc' = IF i \in spec.files /\ i < Cardinality(spec.files) THEN "run" ELSE "conclude"
    /\ UNCHANGED <<spec, i, testCount, allCorrect, final, sent>>

\* findTestcaseFiles, in whatever format the number is written
FindTest ==
    /\ pc = "find"
    /\ pc' = IF i \in spec.files THEN "run" ELSE "conclude"
    /\ UNCHANGED <<spec, i, testCount, allCorrect, final, sent>>

\* a mistake: break instead of return after a verdict that stops
BreakOnStop(v) ==
    /\ pc = "run"
    /\ testCount' = i
    /\ Send("INFO", v)
    /\ allCorrect' = (allCorrect /\ v # "WA")
    /\ IF v \in E!Stops THEN pc' = "conclude" /\ i' = i ELSE pc' = "find" /\ i' = i + 1
    /\ UNCHANGED <<spec, final>>

\* runTestCase answered v: report it, then return or go on with the next test
RunTest(v) ==
    /\ pc = "run"
    /\ testCount' = i
    /\ Send("INFO", v)
    /\ \/ /\ v \in E!Stops
          /\ ResultIs(v)
          /\ UNCHANGED <<i, allCorrect>>
       \/ /\ v = "WA" /\ spec.halt
          /\ ResultIs("WA")
          /\ UNCHANGED <<i, allCorrect>>
       \/ /\ v = "OK" \/ (v = "WA" /\ ~spec.halt)
          /\ allCorrect' = (allCorrect /\ v = "OK")
          /\ i' = i + 1
          /\ pc' = "find"
          /\ UNCHANGED final
    /\ UNCHANGED spec

\* a mistake: return before sendResult
NoTestsNoResult ==
    /\ pc = "conclude"
    /\ testCount = 0
    /\ Send("ERROR", "IE")
    /\ pc' = "exited"
    /\ UNCHANGED <<spec, i, testCount, allCorrect, final>>

NoTests ==
    /\ pc = "conclude"
    /\ testCount = 0
    /\ Send("ERROR", "IE")
    /\ ResultIs("IE")
    /\ UNCHANGED <<spec, i, testCount, allCorrect>>

Conclude ==
    /\ pc = "conclude"
    /\ testCount # 0
    /\ ResultIs(IF allCorrect THEN "AC" ELSE "WA")
    /\ UNCHANGED <<spec, i, testCount, allCorrect, sent>>

SendResult ==
    /\ pc = "result"
    /\ Send("RESULT", final)
    /\ pc' = "exited"
    /\ UNCHANGED <<spec, i, testCount, allCorrect, final>>

\* SIGKILL: the runner's timeout or the memory limit of the container
Killed ==
    /\ pc \notin {"exited", "killed"}
    /\ pc' = "killed"
    /\ UNCHANGED <<spec, i, testCount, allCorrect, final, sent>>

\* steps the agent takes by itself once it has its specification; each runs a
\* bounded time (a test has its own timeout) except the compilation
Judge ==
    \/ FindTest
    \/ \E v \in E!TestVerdicts : RunTest(v)
    \/ NoTests \/ Conclude \/ SendResult

Agent ==
    \/ Dial \/ ReadFails \/ UnmarshalFails \/ ReadSpec \/ Compiles \/ CompileFails
    \/ Judge

Next == Agent \/ Killed

Spec == Init /\ [][Next]_agentVars
FairSpec == Spec /\ WF_agentVars(Judge)

-----------------------------------------------------------------------------
Finished == pc \in {"exited", "killed"}

\* Every variable of the agent keeps its range.
TypeOK ==
    /\ spec \in ExecSpecs
    /\ pc \in {"dial", "read", "compile", "find", "run", "conclude", "result",
               "exited", "killed"}
    /\ i \in 1..(MaxTests + 1)
    /\ testCount \in 0..MaxTests
    /\ allCorrect \in BOOLEAN
    /\ final \in E!Statuses \cup {"none"}
    /\ sent \in Seq(E!Events)

\* The agent speaks UESP: one RESULT, last, and the verdict in it follows from
\* the tests reported before it, for every mix of verdicts and whether or not
\* the judging halts on the first error.
SpeaksUESP == E!Spec

\* Accepted is said only after every test up to the first missing number was run
\* and passed, in order.
AcceptedMeansTested ==
    E!EndsWith(sent, E!Event("RESULT", "AC")) =>
        /\ Len(sent) = testCount + 1
        /\ 1..testCount \subseteq spec.files
        /\ testCount + 1 \notin spec.files

\* RunnerAgent returns with a RESULT, and nothing after it, or it has judged
\* nothing: the socket was not there, or no whole specification came.
ReturnsAnswered ==
    pc = "exited" =>
        \/ E!EndsWithResult(sent)
        \/ testCount = 0 /\ sent \in {<<>>, <<E!Event("FATAL", "IE")>>}

\* The agent answers, and accepts only what it has tested.
AnswersEarned == AcceptedMeansTested /\ ReturnsAnswered

\* A program that has compiled gets a RESULT unless the agent is killed: no
\* combination of verdicts and missing files leaves the agent without an answer.
CompiledIsAnswered ==
    pc = "find" ~> pc = "killed" \/ E!EndsWithResult(sent)
=============================================================================
