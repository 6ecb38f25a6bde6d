--------------------------- MODULE TestCaseProofs ---------------------------
(***************************************************************************)
(* Theorems of TestCase, for every limit, amount of output and memory: the *)
(* verdict of runTestCase is that of what happened.                        *)
(***************************************************************************)
EXTENDS TestCase, SequenceTheorems, TLAPS

\* What is copied was written, and a writer has limitReached when it was given
\* Limit bytes, a byte at least.
Copying ==
    \A s \in Streams :
        /\ copied[s] <= out[s]
        /\ s \in reached <=> copied[s] >= Limit /\ copied[s] > 0

\* cmd.Wait answers when the program has ended and all is copied, and what it
\* answers tells how the program ended.
Waiting ==
    /\ pc = "start" => prog = "none"
    /\ waited # "pending" => copied = out /\ prog \notin {"none", "running"}
    /\ waited = "nil" => prog = "zero"
    /\ waited = "exit" => prog # "zero"
    /\ waited = "context" => prog = "zero" /\ lateKill

\* The context is cancelled by a writer at its limit, and the agent kills only
\* when it is done.
Killing ==
    /\ context = "cancelled" => reached # {}
    /\ lateKill \/ prog = "agent" => context # "live"

\* The select is woken by a case that is ready, at once when one is.
Waking ==
    /\ pc \in {"start", "before"} => woken = "none"
    /\ woken = "done" => waited # "pending"
    /\ woken = "context" => context # "live"
    /\ pc = "in" /\ woken = "none" => context = "live" /\ waited = "pending"

\* What a verdict says of the output.
Judged ==
    /\ pc # "end" => verdict = "none"
    /\ verdict \in {"OK", "WA"} => waited = "nil" /\ reached = {}
    /\ verdict = "OLE" => reached # {} \/ (waited = "exit" /\ prog = "SIGPIPE")
    /\ pc = "end" /\ woken = "done" /\ verdict # "OLE" => reached = {}

IInv == TypeOK /\ Copying /\ Waiting /\ Killing /\ Waking /\ Judged

\* What a verdict says of the program and of the deadline.
Blamed ==
    /\ FaultAttributed
    /\ verdict # "none" => pc = "end"
    /\ prog = "none" => woken # "done"
    /\ verdict \in {"TLE", "MLE", "RE"} /\ woken = "done" => waited # "pending"

FInv == IInv /\ Blamed

-----------------------------------------------------------------------------
(* The program and the goroutines around it *)

\* Before anything runs all is in order.
LEMMA InitHolds == ASSUME Init PROVE FInv
<1>1. TypeOK
  <2>1. out \in [Streams -> 0..MaxOut] /\ copied \in [Streams -> 0..MaxOut]
    BY TestAssumption DEF Init
  <2>2. lateKill \in BOOLEAN /\ reached \subseteq Streams
    BY DEF Init
  <2> QED BY <2>1, <2>2 DEF Init, TypeOK
<1>2. Copying
  BY TestAssumption DEF Init, Copying
<1>3. Waiting /\ Killing /\ Waking /\ Judged /\ Blamed
  BY DEF Init, Waiting, Killing, Waking, Judged, Blamed, FaultAttributed
<1> QED BY <1>1, <1>2, <1>3 DEF FInv, IInv

\* The start of runTestCase.
LEMMA StartStep == ASSUME IInv, CannotStart \/ Starts PROVE IInv'
<1> USE DEF IInv
<1>1. TypeOK'
  BY DEF TypeOK, CannotStart, Starts
<1>2. Copying'
  BY DEF Copying, CannotStart, Starts
<1>3. Waiting' /\ Killing' /\ Waking' /\ Judged'
  BY DEF Waiting, Killing, Waking, Judged, CannotStart, Starts
<1> QED BY <1>1, <1>2, <1>3

\* The program writes, or ends.
LEMMA ProgramStep ==
    ASSUME IInv,
           (\E s \in Streams : Writes(s))
             \/ (\E how \in Signals \cup {"zero", "nonzero", "self", "kernel"} : Ends(how))
    PROVE  IInv'
<1> USE DEF IInv
<1>1. ASSUME NEW s \in Streams, Writes(s)
      PROVE  IInv'
  <2>1. TypeOK' /\ Copying'
    BY <1>1, TestAssumption DEF TypeOK, Copying, Writes
  <2>2. Waiting' /\ Killing' /\ Waking' /\ Judged'
    BY <1>1 DEF Waiting, Killing, Waking, Judged, Writes
  <2> QED BY <2>1, <2>2
<1>2. ASSUME NEW how \in Signals \cup {"zero", "nonzero", "self", "kernel"}, Ends(how)
      PROVE  IInv'
  <2>1. TypeOK' /\ Copying'
    BY <1>2 DEF TypeOK, Copying, Ends
  <2>2. Waiting' /\ Killing' /\ Waking' /\ Judged'
    BY <1>2 DEF Waiting, Killing, Waking, Judged, Ends, Signals
  <2> QED BY <2>1, <2>2
<1> QED BY <1>1, <1>2

\* A byte is copied; at the limit the writer cancels the context.
LEMMA CopyStep == ASSUME IInv, NEW s \in Streams, Copy(s) PROVE IInv'
<1> USE DEF IInv
<1>1. /\ copied[s] \in Nat /\ out[s] \in 0..MaxOut /\ copied[s] < out[s]
      /\ copied' = [copied EXCEPT ![s] = copied[s] + 1]
      /\ UNCHANGED <<pc, prog, peakKB, out, lateKill, waited, verdict>>
      /\ reached \subseteq reached'
      /\ Limit \in Nat /\ MaxOut \in Nat
  BY TestAssumption DEF TypeOK, Copy
<1>2. /\ woken' \in {woken, "context"} /\ context' \in {context, "cancelled"}
      /\ reached' = IF copied[s] + 1 >= Limit THEN reached \cup {s} ELSE reached
  BY DEF Copy, Wake
<1>3. TypeOK'
  BY <1>1, <1>2 DEF TypeOK
<1>4. Copying'
  BY <1>1, <1>2 DEF TypeOK, Copying
<1>5. waited = "pending"
  BY <1>1 DEF Waiting
<1>6. Waiting' /\ Judged'
  BY <1>1, <1>2, <1>5 DEF Waiting, Judged, Waking
<1>7. Killing'
  BY <1>1 DEF Killing, Copy
<1>8. Waking'
  BY <1>1, <1>5 DEF Waking, Copy, Wake
<1> QED BY <1>3, <1>4, <1>6, <1>7, <1>8

\* The deadline, and SIGKILL by the agent.
LEMMA ContextStep == ASSUME IInv, Deadline \/ Kill PROVE IInv'
<1> USE DEF IInv
<1>1. CASE Deadline
  <2>1. TypeOK' /\ Copying'
    BY <1>1 DEF TypeOK, Copying, Deadline, Wake
  <2>2. Waiting' /\ Killing' /\ Waking' /\ Judged'
    BY <1>1 DEF Waiting, Killing, Waking, Judged, Deadline, Wake
  <2> QED BY <2>1, <2>2
<1>2. CASE Kill
  <2>1. TypeOK' /\ Copying'
    BY <1>2 DEF TypeOK, Copying, Kill
  <2>2. Waiting' /\ Killing' /\ Waking' /\ Judged'
    BY <1>2 DEF Waiting, Killing, Waking, Judged, Kill
  <2> QED BY <2>1, <2>2
<1> QED BY <1>1, <1>2

\* cmd.Wait answers.
LEMMA WaitStep == ASSUME IInv, WaitReturns PROVE IInv'
<1> USE DEF IInv
<1>1. TypeOK' /\ Copying'
  BY DEF TypeOK, Copying, WaitReturns, Wake
<1>2. Waiting' /\ Killing' /\ Waking' /\ Judged'
  BY DEF Waiting, Killing, Waking, Judged, WaitReturns, Wake
<1> QED BY <1>1, <1>2

-----------------------------------------------------------------------------
(* The select *)

\* The verdicts of an exit: a runtime error, or what signalHandler says.
LEMMA ExitVerdicts ==
    ASSUME TypeOK, waited = "exit", Waiting, Killing
    PROVE  /\ ExitVerdict \in {"MLE", "TLE", "OLE", "RE"}
           /\ ExitVerdict = "OLE" => prog = "SIGPIPE"
           /\ ExitVerdict = "RE" => prog \in {"nonzero", "SEGV"}
           /\ ExitVerdict = "TLE" => prog \in {"self", "kernel", "agent"}
           /\ ExitVerdict = "MLE" => prog \in {"self", "kernel", "agent"}
           /\ prog \in {"self", "kernel"} => ExitVerdict \in {"MLE", "TLE"}
<1>1. KillVerdict \in {"MLE", "TLE"}
  BY DEF KillVerdict
<1>2. prog \in {"SIGPIPE", "SEGV", "nonzero", "self", "kernel", "agent"}
  BY DEF TypeOK, Waiting, Signals
<1> QED BY <1>1, <1>2 DEF ExitVerdict

\* The three steps of the select.
LEMMA SelectStep == ASSUME IInv, Select PROVE IInv'
<1> USE DEF IInv
<1>1. CASE EnterSelect
  <2>1. TypeOK' /\ Copying'
    BY <1>1 DEF TypeOK, Copying, EnterSelect
  <2>2. Waiting' /\ Killing' /\ Waking' /\ Judged'
    BY <1>1 DEF TypeOK, Waiting, Killing, Waking, Judged, EnterSelect, ContextReady, DoneReady
  <2> QED BY <2>1, <2>2
<1>2. CASE DecideContext
  <2>1. PICK v \in {"OLE", "TLE"} : Decide(v) /\ (v = "OLE" <=> reached # {})
    BY <1>2 DEF DecideContext
  <2>2. TypeOK' /\ Copying'
    BY <2>1 DEF TypeOK, Copying, Decide
  <2>3. Waiting' /\ Killing' /\ Waking'
    BY <2>1 DEF Waiting, Killing, Waking, Decide
  <2>4. Judged'
    BY <1>2, <2>1 DEF Judged, Decide, DecideContext
  <2> QED BY <2>2, <2>3, <2>4
<1>3. CASE DecideDone
  <2>1. PICK v \in {"OLE", "MLE", "TLE", "RE", "OK", "WA"} :
            /\ Decide(v)
            /\ v \in {"OK", "WA"} => waited = "nil"
            /\ v = "OLE" => reached # {} \/ (waited = "exit" /\ prog = "SIGPIPE")
            /\ v # "OLE" => reached = {}
    BY <1>3, ExitVerdicts DEF DecideDone
  <2>2. TypeOK' /\ Copying'
    BY <2>1 DEF TypeOK, Copying, Decide
  <2>3. Waiting' /\ Killing' /\ Waking'
    BY <2>1 DEF Waiting, Killing, Waking, Decide
  <2>4. Judged'
    BY <2>1 DEF Judged, Decide
  <2> QED BY <2>2, <2>3, <2>4
<1> QED BY <1>1, <1>2, <1>3 DEF Select

\* Every step keeps the invariant.
LEMMA NextStep == ASSUME IInv, [Next]_vars PROVE IInv'
<1>1. CASE UNCHANGED vars
  BY <1>1 DEF vars, IInv, TypeOK, Copying, Waiting, Killing, Waking, Judged
<1> QED BY <1>1, StartStep, ProgramStep, CopyStep, ContextStep, WaitStep, SelectStep DEF Next

-----------------------------------------------------------------------------
(* Runtime errors and the deadline *)

\* What the exit, the context's error and the comparison decide.
LEMMA DoneVerdicts ==
    ASSUME FInv, DecideDone
    PROVE  \E v :
              /\ Decide(v)
              /\ v \in {"OLE", "MLE", "TLE", "RE", "OK", "WA"}
              /\ v = "RE" => \/ prog \in {"nonzero", "SEGV"}
                             \/ prog = "zero" /\ lateKill /\ context = "deadline"
              /\ v \in {"TLE", "MLE"} =>
                    /\ prog \in {"self", "kernel", "agent"}
                    /\ prog = "agent" => context = "deadline"
              /\ prog \in {"self", "kernel"} => v \in {"MLE", "TLE", "OLE"}
<1> USE DEF FInv, IInv
<1>1. context # "live" /\ reached = {} => context = "deadline"
  BY DEF TypeOK, Killing
<1>2. CASE reached # {}
  BY <1>2 DEF DecideDone
<1>3. CASE reached = {} /\ waited = "exit"
  <2>1. prog = "agent" => context = "deadline"
    BY <1>1, <1>3 DEF Killing
  <2> QED BY <1>3, <2>1, ExitVerdicts DEF DecideDone
<1>4. CASE reached = {} /\ waited = "context"
  <2>1. prog = "zero" /\ lateKill /\ context = "deadline"
    BY <1>1, <1>4 DEF Waiting, Killing
  <2> QED BY <1>4, <2>1 DEF DecideDone
<1>5. CASE reached = {} /\ waited = "nil"
  <2>1. prog = "zero"
    BY <1>5 DEF Waiting
  <2> QED BY <1>5, <2>1 DEF DecideDone
<1> QED BY <1>2, <1>3, <1>4, <1>5 DEF DecideDone

\* No step blames the program for the limit's kill or for the deadline.
LEMMA BlameStep == ASSUME FInv, [Next]_vars PROVE Blamed'
<1> USE DEF FInv
<1>1. CASE CannotStart \/ Starts \/ UNCHANGED vars
  BY <1>1 DEF Blamed, FaultAttributed, CannotStart, Starts, vars, IInv, Judged, Waiting, Waking
<1>2. ASSUME NEW s \in Streams, Writes(s)
      PROVE  Blamed'
  BY <1>2 DEF Blamed, FaultAttributed, Writes
<1>3. ASSUME NEW how \in Signals \cup {"zero", "nonzero", "self", "kernel"}, Ends(how)
      PROVE  Blamed'
  BY <1>3 DEF Blamed, FaultAttributed, Ends, IInv, Waiting, Waking, Judged
<1>4. ASSUME NEW s \in Streams, Copy(s)
      PROVE  Blamed'
  BY <1>4 DEF Blamed, FaultAttributed, Copy, Wake, IInv, Waiting, Waking, Judged, TypeOK
<1>5. CASE Deadline
  BY <1>5 DEF Blamed, FaultAttributed, Deadline, Wake, IInv, Judged
<1>6. CASE Kill
  BY <1>6 DEF Blamed, FaultAttributed, Kill, IInv, Waiting, Waking, Judged
<1>7. CASE WaitReturns
  BY <1>7 DEF Blamed, FaultAttributed, WaitReturns, Wake, IInv, Judged
<1>8. CASE EnterSelect
  BY <1>8 DEF Blamed, FaultAttributed, EnterSelect, DoneReady, IInv, Waiting, Judged
<1>9. CASE DecideContext
  <2>1. PICK v \in {"OLE", "TLE"} : Decide(v) /\ (v = "OLE" <=> reached # {})
    BY <1>9 DEF DecideContext
  <2>2. v = "TLE" => context = "deadline"
    BY <1>9, <2>1 DEF DecideContext, IInv, TypeOK, Waking, Killing
  <2> QED BY <1>9, <2>1, <2>2 DEF Blamed, FaultAttributed, Decide, DecideContext
<1>10. CASE DecideDone
  <2>1. waited # "pending" /\ woken = "done"
    BY <1>10 DEF DecideDone, IInv, Waking
  <2> QED BY <1>10, <2>1, DoneVerdicts DEF Blamed, FaultAttributed, Decide
<1> QED
  BY <1>1, <1>2, <1>3, <1>4, <1>5, <1>6, <1>7, <1>8, <1>9, <1>10 DEF Next, Select

-----------------------------------------------------------------------------
(* The theorems *)

\* IInv holds in every state of a test, for every limit and every program.
THEOREM Inductive == Spec => []IInv
<1>1. Init => IInv
  BY InitHolds DEF FInv
<1>2. IInv /\ [Next]_vars => IInv'
  BY NextStep
<1> QED BY <1>1, <1>2, PTL DEF Spec

\* Every variable of runTestCase keeps its range.
THEOREM TypeCorrect == Spec => []TypeOK
<1>1. IInv => TypeOK
  BY DEF IInv
<1> QED BY <1>1, Inductive, PTL

\* Only the whole output of a program that ended well is compared.
THEOREM WholeJudged == Spec => []WholeOutputJudged
<1>1. IInv => WholeOutputJudged
  BY DEF IInv, Waiting, Judged, WholeOutputJudged
<1> QED BY <1>1, Inductive, PTL

\* The output-limit verdict is given for output, and is not missed.
THEOREM LimitKept == Spec => []OutputLimitKept
<1>1. ASSUME IInv PROVE OutputLimitKept
  <2>1. reached \subseteq Streams
    BY <1>1 DEF IInv, TypeOK
  <2>2. verdict = "OLE" => prog = "SIGPIPE" \/ \E s \in Streams : copied[s] >= Limit
    BY <1>1, <2>1 DEF IInv, Judged, Copying
  <2>3. ASSUME pc = "end", woken = "done",
               NEW s \in Streams, out[s] >= Limit, out[s] > 0
        PROVE  verdict = "OLE"
    <3>1. s \in reached
      BY <1>1, <2>3 DEF IInv, Waking, Waiting, Copying
    <3> QED BY <1>1, <2>3, <3>1 DEF IInv, Judged
  <2> QED BY <2>2, <2>3 DEF OutputLimitKept
<1> QED BY <1>1, Inductive, PTL

\* The program is not blamed for what the output limit or the deadline did,
\* but for the kill that finds it ended.
THEOREM Attributed == Spec => []FaultAttributed
<1>1. Init => FInv
  BY InitHolds
<1>2. FInv /\ [Next]_vars => FInv'
  BY NextStep, BlameStep DEF FInv
<1>3. FInv => FaultAttributed
  BY DEF FInv, Blamed
<1> QED BY <1>1, <1>2, <1>3, PTL DEF Spec

-----------------------------------------------------------------------------
(* The two writers *)

\* Numbers of the first n bytes of a stream.
Upto(n) == [k \in 1..n |-> k]

\* What Keep appends to the bytes kept so far.
LEMMA KeepsCounting ==
    ASSUME NEW s, NEW n \in Nat
    PROVE  /\ Upto(n) \o Writer(s)!Bytes(n + 1, n + 1) = Upto(n + 1)
           /\ Upto(n) \o Writer(s)!Bytes(n + 1, n + 0) = Upto(n)
<1>1. Writer(s)!Bytes(n + 1, n + 1) = <<n + 1>>
  BY DEF Writer!Bytes
<1>2. Writer(s)!Bytes(n + 1, n + 0) = <<>>
  BY DEF Writer!Bytes
<1>3. Upto(n) \in Seq(Nat) /\ Len(Upto(n)) = n
  BY DEF Upto
<1>4. Upto(n) \o <<n + 1>> = Upto(n + 1)
  BY DEF Upto
<1>5. Upto(n) \o <<>> = Upto(n)
  BY <1>3
<1> QED BY <1>1, <1>2, <1>4, <1>5

\* A byte copied is a Write of one byte by the stream's writer, and nothing for
\* the other.
LEMMA CopyIsWrite ==
    ASSUME IInv, NEW s \in Streams, Copy(s)
    PROVE  Writer(s)!Next
<1> DEFINE c == copied[s]
<1>1. /\ c \in Nat /\ c < MaxOut /\ Limit \in Nat /\ MaxOut \in Nat
      /\ copied'[s] = c + 1
      /\ s \in reached <=> c >= Limit /\ c > 0
      /\ reached' = IF c + 1 >= Limit THEN reached \cup {s} ELSE reached
  BY TestAssumption DEF IInv, TypeOK, Copying, Copy
<1> HIDE DEF c
<1>2. /\ Kept(s) = IF c < Limit THEN c ELSE Limit
      /\ Kept(s)' = IF c + 1 < Limit THEN c + 1 ELSE Limit
  BY <1>1 DEF Kept, c
<1>3. Writer(s)!Write(1)
  <2>1. CASE c + 1 >= Limit /\ s \notin reached
    <3>1. Kept(s) = c /\ Kept(s)' = Limit /\ s \in reached' /\ Limit \in {c, c + 1}
      BY <1>1, <1>2, <2>1
    <3>2. Upto(Limit) = Upto(c) \o Writer(s)!Bytes(c + 1, c + (Limit - c))
      BY <1>1, <3>1, KeepsCounting
    <3>3. c + 1 >= Limit /\ Limit = c + (Limit - c)
      BY <1>1, <2>1
    <3>4. [k \in 1..Kept(s) |-> k]' = [k \in 1..Kept(s) |-> k] \o
              Writer(s)!Bytes(copied[s] + 1, copied[s] + (Limit - Kept(s)))
      BY <3>1, <3>2 DEF Upto, c
    <3>5. Kept(s)' = Kept(s) + (Limit - Kept(s)) /\ Kept(s) + 1 >= Limit
      BY <1>1, <3>1, <3>3
    <3>6. (IF s \in reached THEN 1 ELSE 0)' = (IF s \in reached THEN 1 ELSE 0) + 1
      BY <2>1, <3>1
    <3>7. (s \in reached)' = TRUE /\ copied'[s] = copied[s] + 1
      BY <1>1, <3>1 DEF c
    <3> QED BY <2>1, <3>4, <3>5, <3>6, <3>7, Zenon DEF Writer!Write, Writer!Keep
  <2>2. CASE s \in reached
    <3>1. Kept(s) = Limit /\ Kept(s)' = Limit /\ s \in reached' /\ Limit + 1 >= Limit
      BY <1>1, <1>2, <2>2
    <3> QED BY <1>1, <2>2, <3>1 DEF Writer!Write, c
  <2>3. CASE c + 1 < Limit
    <3>1. Kept(s) = c /\ Kept(s)' = c + 1 /\ s \notin reached /\ s \notin reached'
      BY <1>1, <1>2, <2>3
    <3>2. Upto(c + 1) = Upto(c) \o Writer(s)!Bytes(c + 1, c + 1)
      BY <1>1, KeepsCounting
    <3> QED BY <1>1, <2>3, <3>1, <3>2 DEF Writer!Write, Writer!Keep, Upto, c
  <2> QED BY <1>1, <2>1, <2>2, <2>3
<1>4. 1 \in 0..MaxOut /\ c + 1 <= MaxOut
  BY <1>1
<1> QED BY <1>3, <1>4 DEF Writer!Next, c

\* No other step is seen by the writer of a stream.
LEMMA WriterUntouched ==
    ASSUME IInv, NEW s \in Streams, copied'[s] = copied[s], s \in reached' <=> s \in reached
    PROVE  UNCHANGED Writer(s)!writerVars
BY DEF Writer!writerVars, Kept

\* Each stream of runTestCase goes through a LimitExceededWriter as that module
\* describes it.
THEOREM WritersRefined == Spec => StreamsAreLimited
<1>1. Init => \A s \in Streams : Writer(s)!Init
  <2> SUFFICES ASSUME Init, NEW s \in Streams PROVE Writer(s)!Init
    OBVIOUS
  <2>1. copied[s] = 0 /\ s \notin reached /\ Limit \in Nat
    BY TestAssumption DEF Init
  <2>2. Kept(s) = 0
    BY <2>1 DEF Kept
  <2> QED BY <2>1, <2>2 DEF Writer!Init
<1>2. ASSUME IInv, [Next]_vars
      PROVE  \A s \in Streams : [Writer(s)!Next]_(Writer(s)!writerVars)
  <2> SUFFICES ASSUME NEW s \in Streams PROVE [Writer(s)!Next]_(Writer(s)!writerVars)
    OBVIOUS
  <2>1. CASE Copy(s)
    BY <1>2, <2>1, CopyIsWrite
  <2>2. CASE ~Copy(s)
    <3>1. ASSUME NEW t \in Streams, Copy(t), t # s
          PROVE  copied'[s] = copied[s] /\ (s \in reached' <=> s \in reached)
      BY <1>2, <3>1 DEF IInv, TypeOK, Copy
    <3>2. ASSUME ~\E t \in Streams : Copy(t)
          PROVE  copied'[s] = copied[s] /\ (s \in reached' <=> s \in reached)
      <4>1. CASE (\E t \in Streams : Writes(t)) \/ Deadline \/ Kill \/ WaitReturns
        BY <4>1 DEF Writes, Deadline, Kill, WaitReturns
      <4>2. CASE \E how \in Signals \cup {"zero", "nonzero", "self", "kernel"} : Ends(how)
        BY <4>2 DEF Ends
      <4>3. CASE CannotStart \/ Starts \/ Select \/ UNCHANGED vars
        BY <4>3 DEF CannotStart, Starts, Select, EnterSelect, DecideContext, DecideDone, Decide,
            vars
      <4> QED BY <1>2, <3>2, <4>1, <4>2, <4>3 DEF Next
    <3> QED BY <1>2, <2>2, <3>1, <3>2, WriterUntouched
  <2> QED BY <2>1, <2>2
<1> QED BY <1>1, <1>2, Inductive, PTL DEF Spec, StreamsAreLimited
=============================================================================
