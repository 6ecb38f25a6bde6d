-------------------------- MODULE AgentJudgeProofs --------------------------
(***************************************************************************)
(* Theorems of AgentJudge, for every number of tests: RunnerAgent is well  *)
(* typed, says Accepted only of what it tested, and speaks UESP.           *)
(***************************************************************************)
EXTENDS AgentJudge, TLAPS

\* Nothing was sent before the tests begin.
NothingYet ==
    pc \in {"dial", "read", "compile"} =>
        sent = <<>> /\ i = 1 /\ testCount = 0 /\ allCorrect = TRUE

\* In the loop there is one INFO per test run, none of which stops the judging,
\* allCorrect tells whether all passed, and all tests up to here have files.
Testing ==
    pc \in {"find", "run", "conclude"} =>
        /\ E!Continues(sent)
        /\ Len(sent) = testCount
        /\ testCount = i - 1
        /\ allCorrect <=> \A k \in DOMAIN sent : sent[k].status = "OK"
        /\ 1..testCount \subseteq spec.files
        /\ pc = "run" => i \in spec.files
        /\ pc = "conclude" => i \notin spec.files

\* All the tests there are up to the first missing number were run.
AllTested ==
    /\ Len(sent) = testCount
    /\ 1..testCount \subseteq spec.files
    /\ testCount + 1 \notin spec.files

\* The verdict sendResult is about to send follows from what was sent.
Concluded ==
    pc = "result" =>
        /\ E!Justified(sent, final)
        /\ final \in E!Statuses
        /\ final = "AC" => AllTested

\* There is a RESULT only when RunnerAgent has returned.
ResultIsLast ==
    pc # "exited" => \A k \in DOMAIN sent : sent[k].type # "RESULT"

IInv ==
    TypeOK /\ NothingYet /\ Testing /\ Concluded /\ ResultIsLast /\ AcceptedMeansTested

-----------------------------------------------------------------------------
(* Streams *)

\* What sendEvent does to the stream.
LEMMA SendFacts ==
    ASSUME sent \in Seq(E!Events), NEW t \in E!Types, NEW v \in E!Statuses, Send(t, v)
    PROVE  /\ sent' \in Seq(E!Events)
           /\ Len(sent') = Len(sent) + 1
           /\ DOMAIN sent = 1..Len(sent)
           /\ DOMAIN sent' = 1..(Len(sent) + 1)
           /\ \A k \in 1..Len(sent) : sent'[k] = sent[k]
           /\ sent'[Len(sent) + 1] = E!Event(t, v)
           /\ E!Event(t, v).type = t /\ E!Event(t, v).status = v
<1>1. E!Event(t, v) \in E!Events
  BY DEF E!Event, E!Events
<1>2. E!Event(t, v).type = t /\ E!Event(t, v).status = v
  BY DEF E!Event
<1> QED BY <1>1, <1>2 DEF Send

\* Reporting a verdict that does not stop the judging leaves it going on.
LEMMA ContinueFacts ==
    ASSUME sent \in Seq(E!Events), E!Continues(sent), NEW v \in {"OK", "WA"},
           Send("INFO", v)
    PROVE  E!Continues(sent')
<1>1. "INFO" \in E!Types /\ v \in E!Statuses
  BY DEF E!Types, E!Statuses, E!TestVerdicts
<1> QED BY <1>1, SendFacts DEF E!Continues

-----------------------------------------------------------------------------
(* The steps *)

\* RunnerAgent starts with the invariant, and so does ExecSubm with an agent that
\* is about to read.
LEMMA StartHolds == ASSUME NEW p \in {"dial", "read"}, Start(p) PROVE IInv
BY AgentAssumption DEF Start, IInv, TypeOK, NothingYet, Testing, Concluded, ResultIsLast,
    AcceptedMeansTested, E!EndsWith

\* Dialling, reading and compiling: nothing is sent, or the event that
\* makes a RESULT of IE or CE follow.
LEMMA PrepareStep ==
    ASSUME IInv,
           Dial \/ ReadFails \/ UnmarshalFails \/ ReadSpec \/ Compiles \/ CompileFails
    PROVE  IInv'
<1> USE DEF IInv
<1>1. CASE Dial \/ ReadSpec \/ Compiles
  BY <1>1 DEF Dial, ReadSpec, Compiles, TypeOK, NothingYet, Testing, Concluded,
      ResultIsLast, AcceptedMeansTested, E!EndsWith, E!Continues, E!Event
<1>2. CASE ReadFails \/ UnmarshalFails \/ CompileFails
  <2>1. /\ sent = <<>> /\ UNCHANGED <<spec, i, testCount, allCorrect>>
        /\ pc' \in {"exited", "result"}
    BY <1>2 DEF ReadFails, UnmarshalFails, CompileFails, ResultIs, NothingYet
  <2>2. PICK t \in {"ERROR", "FATAL"}, v \in {"IE", "CE"} : Send(t, v)
    BY <1>2 DEF ReadFails, UnmarshalFails, CompileFails
  <2>3. t \in E!Types /\ v \in E!Statuses
    BY DEF E!Types, E!Statuses, E!TestVerdicts
  <2>4. /\ sent' \in Seq(E!Events) /\ Len(sent') = 1 /\ DOMAIN sent' = 1..1
        /\ sent'[1].type # "RESULT"
    BY <2>1, <2>2, <2>3, SendFacts DEF TypeOK
  <2>5. final' \in E!Statuses \cup {"none"}
    BY <1>2 DEF TypeOK, ReadFails, UnmarshalFails, CompileFails, ResultIs, E!Statuses,
        E!TestVerdicts
  <2>6. TypeOK'
    BY <2>1, <2>4, <2>5 DEF TypeOK
  <2>7. pc' = "result" => E!Justified(sent, final)' /\ final' \in E!Statuses /\ final' # "AC"
    BY <1>2, <2>1 DEF ReadFails, UnmarshalFails, CompileFails, ResultIs, Send,
        E!Justified, E!Statuses, E!TestVerdicts
  <2>8. AcceptedMeansTested'
    BY <2>4 DEF AcceptedMeansTested, E!EndsWith, E!Event
  <2> QED
    BY <2>1, <2>4, <2>6, <2>7, <2>8 DEF NothingYet, Testing, Concluded, ResultIsLast
<1> QED BY <1>1, <1>2

\* The search for the next test.
LEMMA FindStep == ASSUME IInv, FindTest PROVE IInv'
BY DEF IInv, FindTest, TypeOK, NothingYet, Testing, Concluded, ResultIsLast,
    AcceptedMeansTested, E!EndsWith, E!Continues

\* One test and what follows from its verdict.
LEMMA RunStep ==
    ASSUME IInv, NEW v \in E!TestVerdicts, RunTest(v)
    PROVE  IInv'
<1>1. /\ pc = "run" /\ testCount' = i /\ Send("INFO", v) /\ UNCHANGED spec
      /\ i \in 1..MaxTests /\ 1..i \subseteq spec.files /\ Len(sent) = i - 1
      /\ sent \in Seq(E!Events) /\ E!Continues(sent) /\ MaxTests \in Nat
  BY AgentAssumption DEF IInv, TypeOK, Testing, RunTest, ExecSpecs
<1>2. "INFO" \in E!Types /\ v \in E!Statuses
  BY DEF E!Types, E!Statuses
<1>3. /\ sent' \in Seq(E!Events) /\ Len(sent') = i
      /\ DOMAIN sent' = 1..i /\ DOMAIN sent = 1..(i - 1)
      /\ \A k \in 1..(i - 1) : sent'[k] = sent[k]
      /\ sent'[i] = E!Event("INFO", v)
      /\ sent'[i].type = "INFO" /\ sent'[i].status = v
  BY <1>1, <1>2, SendFacts
<1>4. pc' \in {"result", "find"} /\ i' \in 1..(MaxTests + 1) /\ allCorrect' \in BOOLEAN
      /\ final' \in E!Statuses \cup {"none"}
  <2>1. allCorrect \in BOOLEAN /\ final \in E!Statuses \cup {"none"} /\ i + 1 \in 1..(MaxTests + 1)
    BY <1>1 DEF IInv, TypeOK
  <2>2. "WA" \in E!Statuses /\ (allCorrect /\ v = "OK") \in BOOLEAN
    BY DEF E!Statuses, E!TestVerdicts
  <2>3. CASE ResultIs(v) \/ ResultIs("WA")
    BY <1>1, <1>2, <2>1, <2>2, <2>3 DEF RunTest, ResultIs
  <2>4. CASE ~ResultIs(v) /\ ~ResultIs("WA")
    <3>1. allCorrect' = (allCorrect /\ v = "OK") /\ i' = i + 1 /\ pc' = "find" /\ UNCHANGED final
      BY <2>4 DEF RunTest
    <3> QED BY <2>1, <2>2, <3>1
  <2> QED BY <2>3, <2>4
<1>5. TypeOK'
  BY <1>1, <1>3, <1>4 DEF IInv, TypeOK
<1>6. ResultIsLast'
  BY <1>1, <1>3 DEF ResultIsLast, IInv
<1>7. AcceptedMeansTested'
  BY <1>1, <1>3 DEF AcceptedMeansTested, E!EndsWith, E!Event
<1>8. NothingYet'
  BY <1>4 DEF NothingYet
<1>9. Concluded'
  <2> SUFFICES ASSUME pc' = "result"
               PROVE  E!Justified(sent', v) /\ final' = v /\ v # "AC" /\ v \in E!Statuses
    BY DEF Concluded
  <2>1. final' = v /\ (v \in E!Stops \/ v = "WA")
    BY DEF RunTest, ResultIs
  <2>2. v \in E!Stops => E!Justified(sent', v)
    <3> HAVE v \in E!Stops
    <3>1. sent' # <<>> /\ sent'[Len(sent')] = E!Event("INFO", v)
      BY <1>1, <1>3
    <3> QED BY <3>1 DEF E!Justified, E!EndsWith
  <2>3. v = "WA" => E!Justified(sent', v)
    <3> HAVE v = "WA"
    <3>1. E!Continues(sent')
      BY <1>1, ContinueFacts
    <3>2. E!Seen(sent', E!Event("INFO", "WA"))
      BY <1>1, <1>3 DEF E!Seen
    <3> QED BY <3>1, <3>2 DEF E!Justified
  <2> QED BY <1>2, <2>1, <2>2, <2>3 DEF E!Stops
<1>10. Testing'
  <2> SUFFICES ASSUME pc' = "find"
               PROVE  Testing'
    BY <1>4 DEF Testing
  <2>1. /\ v \in {"OK", "WA"} /\ i' = i + 1 /\ allCorrect' = (allCorrect /\ v = "OK")
    BY DEF RunTest, ResultIs
  <2>2. E!Continues(sent')
    BY <1>1, <2>1, ContinueFacts
  <2>3. allCorrect <=> \A k \in 1..(i - 1) : sent[k].status = "OK"
    BY <1>1, <1>3 DEF IInv, Testing
  <2>4. (\A k \in 1..i : sent'[k].status = "OK")
          <=> (\A k \in 1..(i - 1) : sent[k].status = "OK") /\ v = "OK"
    BY <1>1, <1>3
  <2>5. allCorrect' <=> \A k \in DOMAIN sent' : sent'[k].status = "OK"
    BY <1>3, <2>1, <2>3, <2>4
  <2> QED BY <1>1, <1>3, <2>1, <2>2, <2>5 DEF Testing
<1> QED BY <1>5, <1>6, <1>7, <1>8, <1>9, <1>10 DEF IInv

\* After the last test: no tests at all, or the verdict of all of them.
LEMMA ConcludeStep ==
    ASSUME IInv, NoTests \/ Conclude
    PROVE  IInv'
<1>1. /\ pc = "conclude" /\ pc' = "result" /\ UNCHANGED <<spec, i, testCount, allCorrect>>
      /\ sent \in Seq(E!Events) /\ E!Continues(sent) /\ Len(sent) = testCount
      /\ 1..testCount \subseteq spec.files /\ testCount + 1 \notin spec.files
      /\ allCorrect \in BOOLEAN
      /\ allCorrect <=> \A k \in DOMAIN sent : sent[k].status = "OK"
  BY DEF IInv, TypeOK, Testing, NoTests, Conclude, ResultIs
<1>2. CASE NoTests
  <2>1. sent = <<>>
    BY <1>1, <1>2 DEF NoTests
  <2>2. Send("ERROR", "IE") /\ final' = "IE" /\ sent' = <<E!Event("ERROR", "IE")>>
    BY <1>2, <2>1 DEF NoTests, ResultIs, Send
  <2>3. "ERROR" \in E!Types /\ "IE" \in E!Statuses
    BY DEF E!Types, E!Statuses, E!TestVerdicts
  <2>4. /\ sent' \in Seq(E!Events) /\ Len(sent') = 1 /\ DOMAIN sent' = 1..1
        /\ sent'[1].type # "RESULT"
    BY <1>1, <2>1, <2>2, <2>3, SendFacts
  <2>5. TypeOK'
    BY <1>1, <2>2, <2>3, <2>4 DEF IInv, TypeOK
  <2>6. Concluded'
    BY <2>2, <2>3 DEF Concluded, E!Justified
  <2>7. AcceptedMeansTested'
    BY <2>4 DEF AcceptedMeansTested, E!EndsWith, E!Event
  <2> QED BY <1>1, <2>4, <2>5, <2>6, <2>7 DEF IInv, NothingYet, Testing, ResultIsLast
<1>3. CASE Conclude
  <2>1. /\ UNCHANGED sent /\ sent # <<>>
        /\ final' = IF allCorrect THEN "AC" ELSE "WA"
    BY <1>1, <1>3 DEF Conclude, ResultIs
  <2>2. final' \in E!Statuses
    BY <2>1 DEF E!Statuses, E!TestVerdicts
  <2>3. \A k \in DOMAIN sent :
            /\ sent[k] \in E!Events
            /\ sent[k].type = "INFO" /\ sent[k].status \in {"OK", "WA"}
    BY <1>1 DEF E!Continues
  <2>4. \A k \in DOMAIN sent : sent[k] = E!Event("INFO", sent[k].status)
    BY <2>3 DEF E!Events, E!Event
  <2>5. allCorrect => E!Justified(sent, "AC")
    BY <1>1, <2>1, <2>4 DEF E!Justified
  <2>6. ~allCorrect => E!Justified(sent, "WA")
    <3> HAVE ~allCorrect
    <3>1. PICK k \in DOMAIN sent : sent[k].status # "OK"
      BY <1>1
    <3>2. sent[k] = E!Event("INFO", "WA")
      BY <2>3, <2>4, <3>1
    <3> QED BY <1>1, <3>2 DEF E!Justified, E!Seen
  <2>7. E!Justified(sent, final')
    BY <1>1, <2>1, <2>5, <2>6
  <2>8. Concluded'
    BY <1>1, <2>1, <2>2, <2>7 DEF Concluded, AllTested
  <2>9. TypeOK'
    BY <1>1, <2>1, <2>2 DEF IInv, TypeOK
  <2>10. AcceptedMeansTested'
    BY <1>1, <2>1 DEF IInv, AcceptedMeansTested
  <2> QED
    BY <1>1, <2>1, <2>8, <2>9, <2>10 DEF IInv, NothingYet, Testing, ResultIsLast
<1> QED BY <1>2, <1>3

\* RESULT is sent once and last, and Accepted only when all was tested.
LEMMA ResultStep == ASSUME IInv, SendResult PROVE IInv'
<1>1. /\ pc = "result" /\ pc' = "exited" /\ Send("RESULT", final)
      /\ UNCHANGED <<spec, i, testCount, allCorrect, final>>
      /\ sent \in Seq(E!Events) /\ final \in E!Statuses
      /\ final = "AC" => AllTested
  BY DEF IInv, TypeOK, Concluded, SendResult
<1>2. "RESULT" \in E!Types
  BY DEF E!Types
<1>3. /\ sent' \in Seq(E!Events) /\ Len(sent') = Len(sent) + 1
      /\ sent'[Len(sent) + 1].status = final
  BY <1>1, <1>2, SendFacts
<1>4. TypeOK'
  BY <1>1, <1>3 DEF IInv, TypeOK
<1>5. E!EndsWith(sent', E!Event("RESULT", "AC")) => final = "AC"
  BY <1>3 DEF E!EndsWith, E!Event
<1>6. AcceptedMeansTested'
  BY <1>1, <1>3, <1>5 DEF AcceptedMeansTested, AllTested
<1> QED BY <1>1, <1>4, <1>6 DEF IInv, NothingYet, Testing, Concluded, ResultIsLast

\* A kill takes nothing back and adds nothing.
LEMMA KilledStep == ASSUME IInv, Killed PROVE IInv'
BY DEF IInv, Killed, TypeOK, NothingYet, Testing, Concluded, ResultIsLast,
    AcceptedMeansTested, E!EndsWith

\* Every step keeps the invariant.
LEMMA NextStep == ASSUME IInv, [Next]_agentVars PROVE IInv'
<1>1. CASE Dial \/ ReadFails \/ UnmarshalFails \/ ReadSpec \/ Compiles \/ CompileFails
  BY <1>1, PrepareStep
<1>2. CASE Judge
  BY <1>2, FindStep, RunStep, ConcludeStep, ResultStep DEF Judge
<1>3. CASE Killed
  BY <1>3, KilledStep
<1>4. CASE UNCHANGED agentVars
  BY <1>4 DEF agentVars, IInv, TypeOK, NothingYet, Testing, Concluded, ResultIsLast,
      AllTested, AcceptedMeansTested
<1> QED BY <1>1, <1>2, <1>3, <1>4 DEF Next, Agent

-----------------------------------------------------------------------------
(* The theorems *)

\* IInv holds in every state RunnerAgent reaches.
THEOREM Inductive == Spec => []IInv
<1>1. Init => IInv
  BY StartHolds DEF Init
<1>2. IInv /\ [Next]_agentVars => IInv'
  BY NextStep
<1> QED BY <1>1, <1>2, PTL DEF Spec

\* Every variable of the agent keeps its range.
THEOREM TypeCorrect == Spec => []TypeOK
<1>1. IInv => TypeOK
  BY DEF IInv
<1> QED BY <1>1, Inductive, PTL

\* Accepted is sent only after every test up to the first missing number passed.
THEOREM Accepted == Spec => []AcceptedMeansTested
<1>1. IInv => AcceptedMeansTested
  BY DEF IInv
<1> QED BY <1>1, Inductive, PTL

\* RunnerAgent returns with a RESULT, or it has judged nothing.
THEOREM Returns == Spec => []ReturnsAnswered
<1>1. Init => ReturnsAnswered
  BY DEF Init, Start, ReturnsAnswered
<1>2. ASSUME IInv, ReturnsAnswered, [Next]_agentVars PROVE ReturnsAnswered'
  <2>1. CASE SendResult
    <3>1. /\ sent \in Seq(E!Events) /\ Send("RESULT", final)
          /\ final \in E!Statuses /\ "RESULT" \in E!Types
      BY <1>2, <2>1 DEF IInv, TypeOK, Concluded, SendResult, E!Types
    <3>2. sent' # <<>> /\ sent'[Len(sent')].type = "RESULT"
      BY <3>1, SendFacts
    <3> QED BY <3>2 DEF ReturnsAnswered, E!EndsWithResult
  <2>2. CASE ReadFails \/ Dial
    <3>1. sent = <<>> /\ testCount = 0
      BY <1>2, <2>2 DEF IInv, NothingYet, ReadFails, Dial
    <3>2. testCount' = 0 /\ sent' \in {<<>>, <<E!Event("FATAL", "IE")>>}
      BY <2>2, <3>1 DEF ReadFails, Dial, Send
    <3> QED BY <3>2 DEF ReturnsAnswered, E!Event
  <2>3. CASE \/ UnmarshalFails \/ ReadSpec \/ Compiles \/ CompileFails \/ FindTest \/ NoTests
             \/ Conclude \/ Killed \/ \E v \in E!TestVerdicts : RunTest(v)
    BY <2>3 DEF UnmarshalFails, ReadSpec, Compiles, CompileFails, FindTest, NoTests, Conclude,
        Killed, RunTest, ResultIs, ReturnsAnswered
  <2>4. CASE UNCHANGED agentVars
    BY <1>2, <2>4 DEF agentVars, ReturnsAnswered, E!EndsWithResult, E!Event
  <2> QED BY <1>2, <2>1, <2>2, <2>3, <2>4 DEF Next, Agent, Judge
<1> QED BY <1>1, <1>2, Inductive, PTL DEF Spec

\* Every step of RunnerAgent sends nothing or what UESP allows after what was sent.
LEMMA StreamStep == ASSUME IInv, [Next]_agentVars PROVE [E!Next]_sent
<1>1. CASE ReadFails \/ UnmarshalFails \/ CompileFails \/ NoTests
  <2>1. sent = <<>>
    BY <1>1 DEF IInv, TypeOK, NothingYet, Testing, ReadFails, UnmarshalFails, CompileFails,
        NoTests
  <2>2. PICK t \in {"ERROR", "FATAL"}, v \in {"IE", "CE"} : Send(t, v)
    BY <1>1 DEF ReadFails, UnmarshalFails, CompileFails, NoTests
  <2>3. E!Event(t, v) \in E!Events /\ E!Event(t, v).type # "RESULT"
    BY DEF E!Event, E!Events, E!Types, E!Statuses, E!TestVerdicts
  <2>4. E!Continues(sent)
    BY <2>1 DEF E!Continues
  <2> QED BY <2>2, <2>3, <2>4 DEF Send, E!Next, E!Emit
<1>2. ASSUME NEW v \in E!TestVerdicts, RunTest(v)
      PROVE  E!Next
  <2>1. E!Event("INFO", v) \in E!Events /\ E!Event("INFO", v).type # "RESULT"
    BY DEF E!Event, E!Events, E!Types, E!Statuses
  <2>2. E!Continues(sent) /\ Send("INFO", v)
    BY <1>2 DEF IInv, Testing, RunTest
  <2> QED BY <2>1, <2>2 DEF Send, E!Next, E!Emit
<1>3. CASE SendResult
  <2>1. Send("RESULT", final) /\ E!Justified(sent, final) /\ final \in E!Statuses
    BY <1>3 DEF IInv, Concluded, SendResult
  <2>2. /\ E!Event("RESULT", final) \in E!Events
        /\ E!Event("RESULT", final).type = "RESULT" /\ E!Event("RESULT", final).status = final
    BY <2>1 DEF E!Event, E!Events, E!Types
  <2> QED BY <2>1, <2>2 DEF Send, E!Next, E!Emit
<1>4. CASE Dial \/ ReadSpec \/ Compiles \/ FindTest \/ Conclude \/ Killed \/ UNCHANGED agentVars
  BY <1>4 DEF Dial, ReadSpec, Compiles, FindTest, Conclude, Killed, agentVars
<1> QED BY <1>1, <1>2, <1>3, <1>4 DEF Next, Agent, Judge

\* RunnerAgent speaks UESP: one RESULT, last, with the verdict that follows from
\* the tests reported before it.
THEOREM Speaks == Spec => SpeaksUESP
<1>1. Init => E!Init
  BY DEF Init, Start, E!Init
<1>2. IInv /\ [Next]_agentVars => [E!Next]_sent
  BY StreamStep
<1> QED BY <1>1, <1>2, Inductive, PTL DEF Spec, SpeaksUESP, E!Spec

-----------------------------------------------------------------------------
(* What the stream is, from the steps that made it *)

\* Every event on the stream is one that UESP allows after those before it.
Grounded ==
    \A k \in DOMAIN sent :
        IF sent[k].type = "RESULT"
            THEN E!Justified(SubSeq(sent, 1, k - 1), sent[k].status)
            ELSE E!Continues(SubSeq(sent, 1, k - 1))

\* The first m elements of a sequence are not changed by one more at its end.
LEMMA PrefixOfAppend ==
    ASSUME NEW S, NEW s \in Seq(S), NEW e \in S, NEW m \in 0..Len(s)
    PROVE  SubSeq(Append(s, e), 1, m) = SubSeq(s, 1, m)
OBVIOUS

\* The whole of a sequence is its prefix of the same length.
LEMMA WholeIsPrefix ==
    ASSUME NEW S, NEW s \in Seq(S)
    PROVE  SubSeq(s, 1, Len(s)) = s
OBVIOUS

\* An event that UESP allows leaves every event in its place and grounded.
LEMMA GroundedStep ==
    ASSUME sent \in Seq(E!Events), Grounded, [E!Next]_sent
    PROVE  Grounded'
<1>1. CASE UNCHANGED sent
  <2> SUFFICES ASSUME NEW k \in DOMAIN sent'
               PROVE  IF sent'[k].type = "RESULT"
                          THEN E!Justified(SubSeq(sent', 1, k - 1), sent'[k].status)
                          ELSE E!Continues(SubSeq(sent', 1, k - 1))
    BY DEF Grounded, E!Justified, E!Continues, E!Seen, E!EndsWith, E!Event, E!Stops
  <2> QED BY <1>1 DEF Grounded
<1>2. CASE E!Next
  <2>1. PICK e \in E!Events : E!Emit(e)
    BY <1>2 DEF E!Next
  <2>2. /\ sent' = Append(sent, e)
        /\ IF e.type = "RESULT" THEN E!Justified(sent, e.status) ELSE E!Continues(sent)
    BY <2>1 DEF E!Emit
  <2>3. /\ DOMAIN sent' = 1..(Len(sent) + 1) /\ DOMAIN sent = 1..Len(sent)
        /\ sent'[Len(sent) + 1] = e
        /\ \A k \in 1..Len(sent) : sent'[k] = sent[k]
    BY <2>2
  <2>4. \A m \in 0..Len(sent) : SubSeq(sent', 1, m) = SubSeq(sent, 1, m)
    BY <2>2, PrefixOfAppend
  <2>5. SubSeq(sent, 1, Len(sent)) = sent
    BY WholeIsPrefix
  <2>6. ASSUME NEW k \in DOMAIN sent'
        PROVE  IF sent'[k].type = "RESULT"
                   THEN E!Justified(SubSeq(sent', 1, k - 1), sent'[k].status)
                   ELSE E!Continues(SubSeq(sent', 1, k - 1))
    <3>1. Len(sent) \in Nat
      OBVIOUS
    <3>2. CASE k \in 1..Len(sent)
      <4>1. k - 1 \in 0..Len(sent) /\ sent'[k] = sent[k] /\ k \in DOMAIN sent
        BY <2>3, <3>1, <3>2
      <4> QED BY <2>4, <4>1 DEF Grounded
    <3>3. CASE k = Len(sent) + 1
      <4>1. k - 1 = Len(sent) /\ sent'[k] = e /\ k - 1 \in 0..Len(sent)
        BY <2>3, <3>1, <3>3
      <4>2. SubSeq(sent', 1, k - 1) = sent
        BY <2>4, <2>5, <4>1
      <4> QED BY <2>2, <4>1, <4>2
    <3> QED BY <2>3, <3>1, <3>2, <3>3
  <2> QED BY <2>6 DEF Grounded, E!Justified, E!Continues, E!Seen, E!EndsWith, E!Event, E!Stops
<1> QED BY <1>1, <1>2

\* The agent answers when it returns, and accepts only what it has tested.
THEOREM Earned == Spec => []AnswersEarned
BY Accepted, Returns, PTL DEF AnswersEarned
=============================================================================
