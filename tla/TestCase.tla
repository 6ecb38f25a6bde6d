------------------------------ MODULE TestCase ------------------------------
(***************************************************************************)
(* runTestCase (ajagent/internal/runtest.go): one run of a program on one  *)
(* test.  The program, the two goroutines of os/exec that copy its output  *)
(* into a LimitExceededWriter each, the context of the test (deadline, or  *)
(* cancelled by a writer), the goroutine of exec.CommandContext that kills *)
(* when the context is done, the goroutine in cmd.Wait, and the select     *)
(* that decides.                                                           *)
(***************************************************************************)
EXTENDS Naturals

CONSTANTS
    Limit,           \* LogLimitKB * 1000, limit of each stream
    MaxOut,          \* bound on the bytes a program writes to a stream
    MemoryLimitMB,   \* of the specification
    PeaksKB          \* Maxrss of a program that has ended, in KB

ASSUME TestAssumption ==
    /\ Limit \in Nat /\ MaxOut \in Nat /\ MemoryLimitMB \in Nat
    /\ PeaksKB \subseteq Nat

Streams == {"stdout", "stderr"}

\* SIGPIPE has a verdict of its own; SEGV stands for the signals that are a
\* runtime error, those without a case of their own included
Signals == {"SIGPIPE", "SEGV"}

VARIABLES
    pc,         \* runTestCase: "start", "before" and "in" the select, "end"
    prog,       \* "none", "running", "zero", "nonzero", a signal that ended
                \* it, or who sent SIGKILL: "self", "kernel" (memory), "agent"
    peakKB,     \* Maxrss of the program once it has ended
    out,        \* [Streams -> bytes the program has written]
    copied,     \* [Streams -> bytes given to the stream's writer]
    reached,    \* streams whose writer has limitReached
    context,    \* "live", "deadline", "cancelled"
    lateKill,   \* CommandContext killed, and the program had already ended
    waited,     \* what cmd.Wait sent: "pending", "nil", "exit", "context"
    woken,      \* the case the select was woken for, "none" before
    verdict

vars == <<pc, prog, peakKB, out, copied, reached, context, lateKill, waited, woken, verdict>>

Init ==
    /\ pc = "start"
    /\ prog = "none"
    /\ peakKB = 0
    /\ out = [s \in Streams |-> 0]
    /\ copied = [s \in Streams |-> 0]
    /\ reached = {}
    /\ context = "live"
    /\ lateKill = FALSE
    /\ waited = "pending"
    /\ woken = "none"
    /\ verdict = "none"

\* input or expected output unreadable, no RunArgs, or cmd.Start fails, as it
\* does when the context is done
CannotStart ==
    /\ pc = "start"
    /\ pc' = "end"
    /\ verdict' = "IE"
    /\ UNCHANGED <<prog, peakKB, out, copied, reached, context, lateKill, waited, woken>>

Starts ==
    /\ pc = "start"
    /\ context = "live"
    /\ pc' = "before"
    /\ prog' = "running"
    /\ UNCHANGED <<peakKB, out, copied, reached, context, lateKill, waited, woken, verdict>>

-----------------------------------------------------------------------------
(* The program *)

Writes(s) ==
    /\ prog = "running"
    /\ out[s] < MaxOut
    /\ out' = [out EXCEPT ![s] = @ + 1]
    /\ UNCHANGED <<pc, prog, peakKB, copied, reached, context, lateKill, waited, woken, verdict>>

\* Maxrss is of the waited process alone: the kernel may kill it for what its
\* container uses, whatever its own peak.
Ends(how) ==
    /\ prog = "running"
    /\ prog' = how
    /\ peakKB' \in PeaksKB
    /\ UNCHANGED <<pc, out, copied, reached, context, lateKill, waited, woken, verdict>>

-----------------------------------------------------------------------------
(* The goroutines around it *)

\* A select that is waiting takes the first case that becomes ready.
Wake(case) == woken' = IF pc = "in" /\ woken = "none" THEN case ELSE woken

\* a mistake: the bytes of a Write are counted twice
CopyTwice(s) ==
    /\ copied[s] < out[s]
    /\ copied' = [copied EXCEPT ![s] = @ + 2]
    /\ IF copied[s] + 2 >= Limit /\ s \notin reached
       THEN /\ reached' = reached \cup {s}
            /\ context' = IF context = "live" THEN "cancelled" ELSE context
            /\ Wake("context")
       ELSE UNCHANGED <<reached, context, woken>>
    /\ UNCHANGED <<pc, prog, peakKB, out, lateKill, waited, verdict>>

\* a mistake: the limit must be passed
CopyPastLimit(s) ==
    /\ copied[s] < out[s]
    /\ copied' = [copied EXCEPT ![s] = @ + 1]
    /\ IF copied[s] >= Limit /\ s \notin reached
       THEN /\ reached' = reached \cup {s}
            /\ context' = IF context = "live" THEN "cancelled" ELSE context
            /\ Wake("context")
       ELSE UNCHANGED <<reached, context, woken>>
    /\ UNCHANGED <<pc, prog, peakKB, out, lateKill, waited, verdict>>

\* LimitExceededWriter.Write of one byte: at the limit, cancel()
Copy(s) ==
    /\ copied[s] < out[s]
    /\ copied' = [copied EXCEPT ![s] = @ + 1]
    /\ IF copied[s] + 1 >= Limit /\ s \notin reached
       THEN /\ reached' = reached \cup {s}
            /\ context' = IF context = "live" THEN "cancelled" ELSE context
            /\ Wake("context")
       ELSE UNCHANGED <<reached, context, woken>>
    /\ UNCHANGED <<pc, prog, peakKB, out, lateKill, waited, verdict>>

\* a mistake: context.WithCancel in place of context.WithTimeout
NoDeadline == FALSE

\* TimeoutSec has passed since the context was made, which is before the files
\* are opened and the program started
Deadline ==
    /\ context = "live"
    /\ pc # "end"
    /\ context' = "deadline"
    /\ Wake("context")
    /\ UNCHANGED <<pc, prog, peakKB, out, copied, reached, lateKill, waited, verdict>>

\* SIGKILL, from CommandContext or from the select's first case.  A program
\* that has ended and is not waited for yet can be killed too: cmd.Wait then
\* answers with the context's error where it would have answered nil.
Kill ==
    /\ context # "live"
    /\ waited = "pending"
    /\ \/ /\ prog = "running"
          /\ prog' = "agent"
          /\ peakKB' \in PeaksKB
          /\ UNCHANGED lateKill
       \/ /\ prog \notin {"none", "running", "agent"}
          /\ ~lateKill
          /\ lateKill' = TRUE
          /\ UNCHANGED <<prog, peakKB>>
    /\ UNCHANGED <<pc, out, copied, reached, context, waited, woken, verdict>>

\* a mistake: Wait without waiting for the copying goroutines
WaitEarly ==
    /\ prog \notin {"none", "running"}
    /\ waited = "pending"
    /\ waited' = IF prog # "zero" THEN "exit" ELSE IF lateKill THEN "context" ELSE "nil"
    /\ Wake("done")
    /\ UNCHANGED <<pc, prog, peakKB, out, copied, reached, context, lateKill, verdict>>

\* cmd.Wait returns when the program has ended and its output is copied
WaitReturns ==
    /\ prog \notin {"none", "running"}
    /\ waited = "pending"
    /\ copied = out
    /\ waited' = IF prog # "zero" THEN "exit" ELSE IF lateKill THEN "context" ELSE "nil"
    /\ Wake("done")
    /\ UNCHANGED <<pc, prog, peakKB, out, copied, reached, context, lateKill, verdict>>

-----------------------------------------------------------------------------
(* The select *)

ContextReady == context # "live"
DoneReady == waited # "pending"

\* Reached while cases are ready it takes any of them, else it waits.
EnterSelect ==
    /\ pc = "before"
    /\ pc' = "in"
    /\ \/ ContextReady /\ woken' = "context"
       \/ DoneReady /\ woken' = "done"
       \/ ~ContextReady /\ ~DoneReady /\ woken' = "none"
    /\ UNCHANGED <<prog, peakKB, out, copied, reached, context, lateKill, waited, verdict>>

Decide(v) ==
    /\ pc = "in"
    /\ pc' = "end"
    /\ verdict' = v
    /\ UNCHANGED <<prog, peakKB, out, copied, reached, context, lateKill, waited, woken>>

\* a mistake: the writers are not asked why the context is done
DecideContextUnchecked ==
    /\ woken = "context"
    /\ Decide("TLE")

\* case <-tcCtx.Done()
DecideContext ==
    /\ woken = "context"
    /\ Decide(IF reached # {} THEN "OLE" ELSE "TLE")

\* signalHandler on SIGKILL: bytes are compared with megabytes
KillVerdict == IF peakKB * 1024 * 20 >= MemoryLimitMB * 19 THEN "MLE" ELSE "TLE"

ExitVerdict ==
    CASE prog \in {"self", "kernel", "agent"} -> KillVerdict
      [] prog = "SIGPIPE" -> "OLE"
      [] OTHER -> "RE"

\* a mistake: the writers are not asked
DecideDoneUnchecked ==
    /\ woken = "done"
    /\ \/ waited = "exit" /\ Decide(ExitVerdict)
       \/ waited = "context" /\ Decide("RE")
       \/ waited = "nil" /\ \E v \in {"OK", "WA"} : Decide(v)

\* case runErr := <-done, then the comparison of the outputs
DecideDone ==
    /\ woken = "done"
    /\ \/ reached # {} /\ Decide("OLE")
       \/ reached = {} /\ waited = "exit" /\ Decide(ExitVerdict)
       \/ reached = {} /\ waited = "context" /\ Decide("RE")
       \/ reached = {} /\ waited = "nil" /\ \E v \in {"OK", "WA"} : Decide(v)

Select == EnterSelect \/ DecideContext \/ DecideDone

Next ==
    \/ CannotStart \/ Starts
    \/ \E s \in Streams : Writes(s) \/ Copy(s)
    \/ \E how \in Signals \cup {"zero", "nonzero", "self", "kernel"} : Ends(how)
    \/ Deadline \/ Kill \/ WaitReturns
    \/ Select

Spec == Init /\ [][Next]_vars

\* The agent's goroutines and the timer run; the program need not do anything.
Fairness ==
    /\ WF_vars(CannotStart \/ Starts)
    /\ \A s \in Streams : WF_vars(Copy(s))
    /\ WF_vars(Deadline) /\ WF_vars(Kill) /\ WF_vars(WaitReturns) /\ WF_vars(Select)

FairSpec == Spec /\ Fairness

-----------------------------------------------------------------------------
\* Every variable keeps its range.
TypeOK ==
    /\ pc \in {"start", "before", "in", "end"}
    /\ prog \in Signals \cup {"none", "running", "zero", "nonzero", "self", "kernel", "agent"}
    /\ peakKB \in PeaksKB \cup {0}
    /\ out \in [Streams -> 0..MaxOut]
    /\ copied \in [Streams -> 0..MaxOut]
    /\ reached \subseteq Streams
    /\ context \in {"live", "deadline", "cancelled"}
    /\ lateKill \in BOOLEAN
    /\ waited \in {"pending", "nil", "exit", "context"}
    /\ woken \in {"none", "context", "done"}
    /\ verdict \in {"none", "OK", "WA", "RE", "TLE", "OLE", "MLE", "IE"}

\* A test is passed or failed for its output only when the program ended by
\* itself with status 0 and all it wrote was there to compare: no half-copied
\* and no truncated output is ever judged, however the copying, the exit and
\* the context interleave.
WholeOutputJudged ==
    verdict \in {"OK", "WA"} => prog = "zero" /\ copied = out /\ reached = {}

\* What the writer of stream s has kept of it: all of it up to the limit.
Kept(s) == IF copied[s] < Limit THEN copied[s] ELSE Limit

Writer(s) == INSTANCE LimitWriter WITH
    MaxLimit <- Limit, MaxTotal <- MaxOut,
    limit <- Limit, total <- copied[s], written <- Kept(s), buf <- [k \in 1..Kept(s) |-> k],
    limitReached <- s \in reached, cancels <- IF s \in reached THEN 1 ELSE 0

\* Whatever the program, the context and the other stream do, each stream goes
\* through a LimitExceededWriter as that module describes it: the two writers
\* share the context they cancel and nothing else.
StreamsAreLimited ==
    /\ \A s \in Streams : Writer(s)!Init
    /\ [][\A s \in Streams : [Writer(s)!Next]_(Writer(s)!writerVars)]_vars

\* "Output limit exceeded" needs a stream of Limit bytes, or SIGPIPE; and a
\* program that has written that much to a stream by the time its exit is seen
\* gets no other verdict.
OutputLimitKept ==
    /\ verdict = "OLE" => prog = "SIGPIPE" \/ \E s \in Streams : copied[s] >= Limit
    /\ pc = "end" /\ woken = "done" /\ (\E s \in Streams : out[s] >= Limit /\ out[s] > 0)
          => verdict = "OLE"

\* The output limit's own kill and the deadline are never blamed on the program.
\* A program that ended well gets "Runtime error" only when the deadline passed
\* and the kill found it ended but not waited for; until the deadline, SIGKILL
\* by the agent, which is then the output limit's, is neither a time nor a
\* memory verdict; and one killed by the kernel or by itself, whose exit is what
\* runTestCase hears of, is not a runtime error, although the agent sees SIGKILL
\* only.  An internal error is of a program that was never started.
FaultAttributed ==
    /\ verdict = "RE" =>
          \/ prog \in {"nonzero", "SEGV"}
          \/ prog = "zero" /\ lateKill /\ context = "deadline"
    /\ verdict = "TLE" => context = "deadline" \/ (woken = "done" /\ prog \in {"self", "kernel"})
    /\ verdict = "MLE" =>
          /\ woken = "done" /\ prog \in {"self", "kernel", "agent"}
          /\ prog = "agent" => context = "deadline"
    /\ pc = "end" /\ woken = "done" /\ prog \in {"self", "kernel"} => verdict \in {"MLE", "TLE", "OLE"}
    /\ verdict = "IE" => prog = "none"

\* Every test ends with a verdict, whatever the program does or fails to do.
TestEnds == <>(verdict # "none")
=============================================================================
