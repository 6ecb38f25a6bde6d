-------------------------- MODULE ExecStreamProofs --------------------------
(***************************************************************************)
(* Theorems of ExecStream, for every number of tests, every limit and with *)
(* or without a loss of the publishing channel: what ExecSubm publishes is *)
(* what the agent sent.                                                    *)
(***************************************************************************)
EXTENDS ExecStream, AgentJudgeProofs

\* While the reader scans and publishing works, all it has read is published.
ReadIsPublished == rmq /\ reader = "scanning" => Len(published) = read

\* A half line is left only by an agent that was killed.
TornMeansKilled == torn => pc = "killed"

\* Only lines that were read are published, in their places; the half line of a
\* killed agent may follow, when the reader has ended.
Forwarded ==
    \A k \in DOMAIN published :
        \/ k <= read /\ published[k] = sent[k]
        \/ IsBlank(k) /\ k = Len(published) /\ torn /\ reader = "closed"

SInv == IInv /\ STypeOK /\ ReadIsPublished /\ TornMeansKilled /\ Forwarded

-----------------------------------------------------------------------------
\* A step of the agent adds at most one event to the stream, and none when it
\* has ended.
LEMMA AgentSends ==
    ASSUME IInv, [Next]_agentVars
    PROVE  \/ UNCHANGED sent
           \/ pc # "killed" /\ \E e \in E!Events : sent' = Append(sent, e)
<1>1. CASE ReadFails \/ UnmarshalFails \/ CompileFails \/ NoTests \/ SendResult
        \/ \E v \in E!TestVerdicts : RunTest(v)
  <2>1. PICK t \in E!Types, v \in E!Statuses : pc # "killed" /\ Send(t, v)
    BY <1>1 DEF IInv, Concluded, ReadFails, UnmarshalFails, CompileFails, NoTests, SendResult,
        RunTest, E!Types, E!Statuses, E!TestVerdicts
  <2>2. E!Event(t, v) \in E!Events
    BY DEF E!Event, E!Events
  <2> QED BY <2>1, <2>2 DEF Send
<1>2. CASE Dial \/ ReadSpec \/ Compiles \/ FindTest \/ Conclude \/ Killed \/ UNCHANGED agentVars
  BY <1>2 DEF Dial, ReadSpec, Compiles, FindTest, Conclude, Killed, agentVars
<1> QED BY <1>1, <1>2 DEF Next, Agent, Judge

\* What the agent sends, and its end, change nothing of what was read or published.
LEMMA SentGrows ==
    ASSUME SInv, [Next]_agentVars, UNCHANGED <<reader, read, published, rmq, uploads, stored>>,
           torn' \in BOOLEAN, torn => torn', torn' => pc' = "killed",
           exec' \in {"waiting", "returned"}
    PROVE  SInv'
<1>1. IInv'
  BY NextStep DEF SInv
<1>2. sent \in Seq(E!Events) /\ read \in 0..Len(sent)
  BY DEF SInv, STypeOK, TypeOK
<1>3. /\ Len(sent) <= Len(sent') /\ Len(sent') \in Nat
      /\ \A k \in 1..Len(sent) : sent'[k] = sent[k]
  BY <1>2, AgentSends DEF SInv
<1>4. STypeOK'
  <2>1. TypeOK' /\ read' \in 0..Len(sent')
    BY <1>1, <1>2, <1>3 DEF IInv
  <2> QED BY <2>1 DEF SInv, STypeOK, Blank
<1>5. DOMAIN published = 1..Len(published)
  BY DEF SInv, STypeOK
<1>6. Forwarded'
  <2> SUFFICES ASSUME NEW k \in 1..Len(published)
               PROVE  \/ k <= read /\ published[k] = sent'[k]
                      \/ published[k] = Blank /\ k = Len(published) /\ torn' /\ reader = "closed"
    BY <1>5 DEF Forwarded, IsBlank, Blank
  <2>1. CASE k <= read /\ published[k] = sent[k]
    BY <1>2, <1>3, <2>1
  <2>2. CASE IsBlank(k) /\ k = Len(published) /\ torn /\ reader = "closed"
    BY <2>2 DEF IsBlank
  <2>3. k \in DOMAIN published /\ Forwarded
    BY <1>5 DEF SInv
  <2>4. \/ k <= read /\ published[k] = sent[k]
        \/ IsBlank(k) /\ k = Len(published) /\ torn /\ reader = "closed"
    BY <2>3, Zenon DEF Forwarded
  <2> QED BY <2>1, <2>2, <2>4, Zenon
<1>7. ReadIsPublished' /\ TornMeansKilled'
  BY DEF SInv, ReadIsPublished, TornMeansKilled
<1> QED BY <1>1, <1>4, <1>6, <1>7 DEF SInv

\* The agent alone, killed for memory, or killed by the timeout.
LEMMA AgentSteps ==
    ASSUME SInv, AgentStep \/ OutOfMemory \/ TimesOut
    PROVE  SInv'
<1>1. torn \in BOOLEAN /\ exec \in {"waiting", "returned"} /\ (torn => pc = "killed")
  BY DEF SInv, STypeOK, TornMeansKilled
<1>2. CASE AgentStep
  <2>1. [Next]_agentVars /\ UNCHANGED streamVars
    BY <1>2 DEF AgentStep, Next, Agent
  <2>2. pc # "killed"
    BY <1>2 DEF AgentStep, ReadSpec, Compiles, CompileFails, Judge, FindTest, RunTest,
        NoTests, Conclude, SendResult
  <2> QED BY <1>1, <2>1, <2>2, SentGrows DEF streamVars
<1>3. ASSUME NEW half \in BOOLEAN, Die(half),
             UNCHANGED <<reader, read, published, rmq, uploads, stored>>,
             exec' \in {"waiting", "returned"}
      PROVE  SInv'
  <2>1. [Next]_agentVars /\ pc' = "killed" /\ pc # "killed" /\ torn' \in BOOLEAN
    BY <1>3 DEF Die, Killed, Next
  <2> QED BY <1>1, <1>3, <2>1, SentGrows
<1>4. CASE OutOfMemory
  BY <1>1, <1>3, <1>4 DEF OutOfMemory
<1>5. CASE TimesOut /\ Finished
  BY <1>1, <1>5, SentGrows DEF TimesOut, agentVars
<1>6. CASE TimesOut /\ ~Finished
  BY <1>1, <1>3, <1>6 DEF TimesOut
<1> QED BY <1>2, <1>4, <1>5, <1>6

\* The reader publishes the next line in its place.
LEMMA ForwardStep == ASSUME SInv, Forward PROVE SInv'
<1>1. /\ sent \in Seq(E!Events) /\ read \in 0..Len(sent) /\ read < Len(sent)
      /\ published \in Seq(E!Events \cup {Blank})
      /\ reader = "scanning" /\ read' = read + 1
      /\ UNCHANGED <<spec, pc, i, testCount, allCorrect, final, sent, reader, torn, rmq, exec, stored>>
      /\ uploads' = uploads \cup {read + 1}
  BY DEF SInv, STypeOK, TypeOK, Forward, agentVars
<1>2. sent[read + 1] \in E!Events
  BY <1>1
<1>ranges. /\ read' \in 0..Len(sent') /\ uploads' \subseteq 1..read' /\ stored' \in 0..read'
      /\ torn' \in BOOLEAN /\ rmq' \in BOOLEAN /\ exec' \in {"waiting", "returned"}
  <2>1. /\ uploads \subseteq 1..read /\ stored \in 0..read
        /\ torn \in BOOLEAN /\ rmq \in BOOLEAN /\ exec \in {"waiting", "returned"}
    BY DEF SInv, STypeOK
  <2>2. torn' \in BOOLEAN /\ rmq' \in BOOLEAN /\ exec' \in {"waiting", "returned"}
    BY <1>1, <2>1
  <2>3. read' \in 0..Len(sent') /\ uploads' \subseteq 1..read' /\ stored' \in 0..read'
    BY <1>1, <2>1
  <2> QED BY <2>2, <2>3
<1>inPlace. \A k \in DOMAIN published : k <= read /\ published[k] = sent[k]
  BY <1>1 DEF SInv, Forwarded
<1>3. CASE ~rmq
  <2>1. UNCHANGED published
    BY <1>3 DEF Forward, Publish
  <2>2. IInv'
    BY <1>1 DEF SInv, IInv, TypeOK, NothingYet, Testing, Concluded, ResultIsLast, AllTested,
        AcceptedMeansTested
  <2>3. STypeOK'
    BY <1>1, <1>ranges, <2>1, <2>2 DEF IInv, STypeOK, Blank
  <2>4. ReadIsPublished' /\ TornMeansKilled'
    BY <1>1, <1>3 DEF SInv, ReadIsPublished, TornMeansKilled
  <2>5. \A k \in DOMAIN published' : k <= read' /\ published'[k] = sent'[k]
    <3>1. DOMAIN published = 1..Len(published)
      BY <1>1
    <3> QED BY <1>1, <1>inPlace, <2>1, <3>1
  <2>6. Forwarded'
    BY <2>5 DEF Forwarded
  <2> QED BY <2>2, <2>3, <2>4, <2>6 DEF SInv
<1>4. CASE rmq
  <2>1. published' = Append(published, sent[read + 1]) /\ Len(published) = read
    BY <1>1, <1>4 DEF Forward, Publish, SInv, ReadIsPublished
  <2>2. IInv'
    BY <1>1 DEF SInv, IInv, TypeOK, NothingYet, Testing, Concluded, ResultIsLast, AllTested,
        AcceptedMeansTested
  <2>3. /\ published' \in Seq(E!Events \cup {Blank}) /\ Len(published') = read + 1
        /\ DOMAIN published = 1..read /\ DOMAIN published' = 1..(read + 1)
        /\ \A k \in 1..read : published'[k] = published[k]
        /\ published'[read + 1] = sent[read + 1]
    BY <1>1, <1>2, <2>1
  <2>4. STypeOK'
    BY <1>1, <1>ranges, <2>2, <2>3 DEF IInv, STypeOK, Blank
  <2>5. ReadIsPublished' /\ TornMeansKilled'
    BY <1>1, <2>3 DEF SInv, ReadIsPublished, TornMeansKilled
  <2>6. Forwarded'
    BY <1>1, <1>inPlace, <2>3 DEF Forwarded
  <2> QED BY <2>2, <2>4, <2>5, <2>6 DEF SInv
<1> QED BY <1>3, <1>4

\* The reader ends: at a line too long, or at the end of the stream.
LEMMA ReaderEndStep == ASSUME SInv, LineTooLong \/ EndOfStream PROVE SInv'
<1>1. /\ published \in Seq(E!Events \cup {Blank})
      /\ reader = "scanning" /\ reader' = "closed"
      /\ UNCHANGED <<spec, pc, i, testCount, allCorrect, final, sent, read, torn, rmq, exec,
                     uploads, stored>>
  BY DEF SInv, STypeOK, LineTooLong, EndOfStream, agentVars
<1>2. IInv'
  BY <1>1 DEF SInv, IInv, TypeOK, NothingYet, Testing, Concluded, ResultIsLast, AllTested,
      AcceptedMeansTested
<1>3. ReadIsPublished' /\ TornMeansKilled'
  BY <1>1 DEF SInv, ReadIsPublished, TornMeansKilled
<1>4. CASE UNCHANGED published
  <2>1. STypeOK'
    BY <1>1, <1>2, <1>4 DEF SInv, IInv, STypeOK, Blank
  <2>2. Forwarded'
    BY <1>1, <1>4 DEF SInv, Forwarded, IsBlank, Blank
  <2> QED BY <1>2, <1>3, <2>1, <2>2 DEF SInv
<1>5. CASE published' = Append(published, Blank) /\ torn
  <2>1. /\ published' \in Seq(E!Events \cup {Blank}) /\ Len(published') = Len(published) + 1
        /\ DOMAIN published = 1..Len(published)
        /\ DOMAIN published' = 1..(Len(published) + 1)
        /\ \A k \in 1..Len(published) : published'[k] = published[k]
        /\ published'[Len(published) + 1] = Blank
    BY <1>1, <1>5
  <2>2. STypeOK'
    BY <1>1, <1>2, <2>1 DEF SInv, IInv, STypeOK, Blank
  <2>3. \A k \in DOMAIN published : k <= read /\ published[k] = sent[k]
    BY <1>1 DEF SInv, Forwarded
  <2>torn. torn'
    BY <1>1, <1>5
  <2>4. Forwarded'
    <3> SUFFICES ASSUME NEW k \in 1..(Len(published) + 1)
                 PROVE  \/ k <= read' /\ published'[k] = sent'[k]
                        \/ IsBlank(k)' /\ k = Len(published') /\ torn' /\ reader' = "closed"
      BY <2>1 DEF Forwarded
    <3>1. CASE k \in 1..Len(published)
      BY <1>1, <2>1, <2>3, <3>1
    <3>2. CASE k = Len(published) + 1
      <4>1. published'[k] = Blank /\ k = Len(published')
        BY <2>1, <3>2
      <4>2. IsBlank(k)'
        BY <4>1 DEF IsBlank, Blank
      <4> QED BY <1>1, <2>torn, <4>1, <4>2
    <3> QED BY <1>1, <3>1, <3>2
  <2> QED BY <1>2, <1>3, <2>2, <2>4 DEF SInv
<1> QED BY <1>4, <1>5 DEF LineTooLong, EndOfStream, Publish

\* Uploads, the return of ExecSubm and a lost channel touch no event.
LEMMA OtherStep ==
    ASSUME SInv, (\E k \in uploads : UploadEnds(k)) \/ Exits \/ LoseRmq \/ UNCHANGED vars
    PROVE  SInv'
<1>1. UNCHANGED <<spec, pc, i, testCount, allCorrect, final, sent, reader, read, torn, published>>
  BY DEF UploadEnds, Exits, LoseRmq, vars, agentVars, streamVars
<1>2. IInv'
  BY <1>1 DEF SInv, IInv, TypeOK, NothingYet, Testing, Concluded, ResultIsLast, AllTested,
      AcceptedMeansTested
<1>3. /\ uploads' \subseteq 1..read /\ stored' \in 0..read
      /\ rmq' \in BOOLEAN /\ (rmq' => rmq) /\ exec' \in {"waiting", "returned"}
  <2>1. /\ uploads \subseteq 1..read /\ stored \in 0..read
        /\ rmq \in BOOLEAN /\ exec \in {"waiting", "returned"}
    BY DEF SInv, STypeOK
  <2>2. CASE \E k \in uploads : UploadEnds(k)
    BY <2>1, <2>2 DEF UploadEnds
  <2>3. CASE Exits
    BY <2>1, <2>3 DEF Exits
  <2>4. CASE LoseRmq
    BY <2>1, <2>4 DEF LoseRmq
  <2>5. CASE UNCHANGED vars
    BY <2>1, <2>5 DEF vars, streamVars
  <2> QED BY <2>2, <2>3, <2>4, <2>5
<1>4. STypeOK'
  BY <1>1, <1>2, <1>3 DEF SInv, IInv, STypeOK, Blank
<1>5. ReadIsPublished' /\ TornMeansKilled' /\ Forwarded'
  BY <1>1, <1>3 DEF SInv, ReadIsPublished, TornMeansKilled, Forwarded, IsBlank, Blank
<1> QED BY <1>2, <1>4, <1>5 DEF SInv

-----------------------------------------------------------------------------
(* The theorems *)

\* SInv holds in every state of a submission's execution.
THEOREM StreamInductive == SSpec => []SInv
<1>1. SInit => SInv
  <2> SUFFICES ASSUME SInit PROVE SInv
    OBVIOUS
  <2>1. IInv
    BY StartHolds DEF SInit
  <2>2. sent = <<>> /\ TypeOK
    BY <2>1 DEF SInit, Start, IInv
  <2>3. STypeOK
    <3>1. Len(sent) = 0 /\ published = <<>> /\ uploads = {} /\ read = 0 /\ stored = 0
      BY <2>2 DEF SInit
    <3>2. published \in Seq(E!Events \cup {Blank})
      BY <3>1
    <3>3. read \in 0..Len(sent) /\ uploads \subseteq 1..read /\ stored \in 0..read
      BY <3>1
    <3> QED BY <2>2, <3>2, <3>3 DEF SInit, STypeOK
  <2>4. ReadIsPublished /\ TornMeansKilled /\ Forwarded
    BY DEF SInit, ReadIsPublished, TornMeansKilled, Forwarded
  <2> QED BY <2>1, <2>3, <2>4 DEF SInv
<1>2. SInv /\ [SNext]_vars => SInv'
  BY AgentSteps, ForwardStep, ReaderEndStep, OtherStep DEF SNext, Reader
<1> QED BY <1>1, <1>2, PTL DEF SSpec

\* Every variable of ExecSubm and of its goroutines keeps its range.
THEOREM StreamTypeCorrect == SSpec => []STypeOK
<1>1. SInv => STypeOK
  BY DEF SInv
<1> QED BY <1>1, StreamInductive, PTL

\* Consumers see a prefix of what the agent sent, in order and without gaps; only
\* the half line of a killed agent may follow it.
THEOREM PublishedInOrder == SSpec => []PublishedIsPrefix
<1>1. ASSUME SInv PROVE PublishedIsPrefix
  <2>1. read <= Len(sent) /\ read \in Nat /\ Len(sent) \in Nat
    BY <1>1 DEF SInv, STypeOK, TypeOK
  <2>2. DOMAIN published \subseteq Nat
    BY <1>1 DEF SInv, STypeOK
  <2> QED BY <1>1, <2>1, <2>2 DEF SInv, Forwarded, TornMeansKilled, PublishedIsPrefix
<1> QED BY <1>1, StreamInductive, PTL

-----------------------------------------------------------------------------
(* Nothing is dropped *)

\* While the reader scans with publishing alive, the published events are the
\* lines read so far, each in its place.
LEMMA PublishedIsRead ==
    ASSUME SInv, reader = "scanning", rmq
    PROVE  /\ published = SubSeq(sent, 1, read)
           /\ published \in Seq(E!Events)
           /\ Len(published) = read
<1>1. /\ sent \in Seq(E!Events) /\ read \in 0..Len(sent)
      /\ published \in Seq(E!Events \cup {Blank}) /\ Len(published) = read
  BY DEF SInv, STypeOK, TypeOK, ReadIsPublished
<1>2. \A k \in 1..read : published[k] = sent[k]
  BY <1>1 DEF SInv, Forwarded
<1>3. \A k \in 1..read : sent[k] \in E!Events
  BY <1>1
<1>4. SubSeq(sent, 1, read) = [k \in 1..read |-> sent[k]]
  BY <1>1
<1>5. published = [k \in 1..read |-> published[k]]
  BY <1>1
<1>6. published = [k \in 1..read |-> sent[k]]
  BY <1>2, <1>5
<1>7. published \in Seq(E!Events)
  BY <1>1, <1>3, <1>6
<1> QED BY <1>1, <1>4, <1>6, <1>7

\* The agent does nothing more when it has ended.
LEMMA FinishedStays ==
    ASSUME SInv, [SNext]_vars, Finished
    PROVE  Finished' /\ UNCHANGED <<spec, sent, torn>>
<1>1. CASE AgentStep
  BY <1>1 DEF Finished, AgentStep, ReadSpec, Compiles, CompileFails, Judge, FindTest, RunTest,
      NoTests, Conclude, SendResult
<1>2. CASE OutOfMemory
  BY <1>2 DEF Finished, OutOfMemory, Die, Killed
<1>3. CASE Reader \/ (\E k \in uploads : UploadEnds(k)) \/ Exits \/ TimesOut \/ LoseRmq
        \/ UNCHANGED vars
  BY <1>3 DEF Reader, Forward, LineTooLong, EndOfStream, UploadEnds, Exits, TimesOut, LoseRmq,
      vars, agentVars, streamVars, Finished
<1> QED BY <1>1, <1>2, <1>3 DEF SNext

\* The reader stops only at the end of the stream, with all of it published, or
\* at a line too long; and after its end nothing is added to either side.
LEMMA NothingDroppedStep ==
    ASSUME SInv, NothingDropped, [SNext]_vars
    PROVE  NothingDropped'
<1> SUFFICES ASSUME reader' = "closed", rmq', spec'.logKB \notin LongLimits
             PROVE  /\ Finished'
                    /\ published' = IF torn' THEN Append(sent', Blank) ELSE sent'
  BY DEF NothingDropped, Blank, E!Event
<1>1. CASE reader = "closed"
  <2>1. rmq /\ UNCHANGED published
    BY <1>1 DEF SNext, AgentStep, OutOfMemory, Reader, Forward, LineTooLong, EndOfStream,
        UploadEnds, Exits, TimesOut, LoseRmq, vars, streamVars
  <2>2. CASE spec.logKB \notin LongLimits
    <3>1. Finished /\ published = IF torn THEN Append(sent, Blank) ELSE sent
      BY <1>1, <2>1, <2>2 DEF NothingDropped
    <3>2. Finished' /\ UNCHANGED <<spec, sent, torn>>
      BY <3>1, FinishedStays
    <3> QED BY <2>1, <3>1, <3>2
  <2>3. UNCHANGED spec
    BY DEF SNext, AgentStep, ReadSpec, Compiles, CompileFails, Judge, FindTest, RunTest,
        NoTests, Conclude, SendResult, OutOfMemory, Die, Killed, Reader, Forward, LineTooLong,
        EndOfStream, UploadEnds, Exits, TimesOut, LoseRmq, vars, agentVars, streamVars
  <2> QED BY <2>2, <2>3
<1>2. CASE reader = "scanning"
  <2>1. LineTooLong \/ EndOfStream
    BY <1>2 DEF SNext, AgentStep, OutOfMemory, Reader, Forward, UploadEnds, Exits, TimesOut,
        LoseRmq, vars, streamVars
  <2>2. /\ UNCHANGED <<spec, pc, sent, torn, rmq>>
        /\ LineTooLong => spec.logKB \in LongLimits
    BY <2>1 DEF LineTooLong, EndOfStream, agentVars
  <2>3. EndOfStream /\ rmq
    BY <2>1, <2>2
  <2>4. /\ Finished /\ read = Len(sent)
        /\ published' = IF torn THEN Append(published, Blank) ELSE published
    BY <2>3 DEF EndOfStream, Publish
  <2>5. published = sent
    BY <1>2, <2>3, <2>4, PublishedIsRead, WholeIsPrefix DEF SInv, STypeOK, TypeOK
  <2> QED BY <2>2, <2>4, <2>5 DEF Finished
<1> QED BY <1>1, <1>2 DEF SInv, STypeOK

\* With publishing alive and no line too long, all the agent sent is published
\* when the reader has ended, up to the last line.
THEOREM AllPublished == SSpec => []NothingDropped
<1>1. SInit => NothingDropped
  BY DEF SInit, NothingDropped
<1> QED BY <1>1, NothingDroppedStep, StreamInductive, PTL DEF SSpec

-----------------------------------------------------------------------------
(* UESP, on the socket and on the exchange *)

\* What ExecSubm, its reader and its uploads do is no step of the agent, and what
\* happens to the agent is one.
LEMMA AgentInside == ASSUME [SNext]_vars PROVE [Next]_agentVars
<1>1. CASE AgentStep
  BY <1>1 DEF AgentStep, Next, Agent
<1>2. CASE OutOfMemory \/ TimesOut
  BY <1>2 DEF OutOfMemory, TimesOut, Die, Next
<1>3. CASE Reader \/ (\E k \in uploads : UploadEnds(k)) \/ Exits \/ LoseRmq \/ UNCHANGED vars
  BY <1>3 DEF Reader, Forward, LineTooLong, EndOfStream, UploadEnds, Exits, LoseRmq, vars
<1> QED BY <1>1, <1>2, <1>3 DEF SNext

\* Between ExecSubm and its timeout and kills the agent still speaks UESP, and
\* every event on the socket is one that UESP allows after those before it.
THEOREM SpeaksInside == SSpec => SpeaksUESP /\ []Grounded
<1>1. SInit => E!Init /\ Grounded
  BY DEF SInit, Start, E!Init, Grounded
<1>2. ASSUME SInv, [SNext]_vars PROVE [E!Next]_sent
  BY <1>2, AgentInside, StreamStep DEF SInv
<1>3. ASSUME SInv, Grounded, [SNext]_vars PROVE Grounded'
  BY <1>2, <1>3, GroundedStep DEF SInv, STypeOK, TypeOK
<1> QED BY <1>1, <1>2, <1>3, StreamInductive, PTL DEF SSpec, SpeaksUESP, E!Spec

\* UESP says the same of the socket and of the exchange.
LEMMA SameUESP ==
    ASSUME NEW s, NEW v
    PROVE  /\ Consumed!Justified(s, v) <=> E!Justified(s, v)
           /\ Consumed!Continues(s) <=> E!Continues(s)
           /\ Consumed!Events = E!Events
BY DEF Consumed!Justified, Consumed!Continues, Consumed!Seen, Consumed!EndsWith, Consumed!Event,
    Consumed!Stops, Consumed!Events, Consumed!Types, Consumed!Statuses, Consumed!TestVerdicts,
    E!Justified, E!Continues, E!Seen, E!EndsWith, E!Event, E!Stops, E!Events, E!Types,
    E!Statuses, E!TestVerdicts

\* No event of the agent is the half line.
LEMMA BlankIsNoEvent == \A e \in E!Events : e # Blank
<1>1. Blank.type = ""
  BY DEF Blank, E!Event
<1>2. ASSUME NEW e \in E!Events PROVE e.type # ""
  <2>1. e.type \in E!Types
    BY DEF E!Events
  <2> QED BY <2>1 DEF E!Types
<1> QED BY <1>1, <1>2

\* One line forwarded is one event of UESP for the consumers, the end of a half
\* line is none.
LEMMA ConsumerStep ==
    ASSUME SInv, Grounded, [SNext]_vars
    PROVE  [Consumed!Next]_Whole
<1>1. CASE UNCHANGED published
  BY <1>1 DEF Whole, IsBlank, Blank, E!Event
<1>2. CASE ~UNCHANGED published
  <2>1. (Forward \/ (EndOfStream /\ torn)) /\ reader = "scanning" /\ rmq
    BY <1>2 DEF SNext, AgentStep, OutOfMemory, Reader, Forward, LineTooLong, EndOfStream,
        UploadEnds, Exits, TimesOut, LoseRmq, vars, streamVars, Publish
  <2>2. /\ published = SubSeq(sent, 1, read) /\ published \in Seq(E!Events)
        /\ Len(published) = read /\ sent \in Seq(E!Events) /\ read \in Nat
    BY <2>1, PublishedIsRead DEF SInv, STypeOK, TypeOK
  <2>3. Whole = published
    <3> SUFFICES ASSUME published # <<>> PROVE published[Len(published)] # Blank
      BY DEF Whole, IsBlank
    <3>1. published[Len(published)] \in E!Events
      BY <2>2
    <3> QED BY <3>1, BlankIsNoEvent
  <2>4. CASE Forward
    <3>1. /\ published' = Append(published, sent[read + 1])
          /\ read + 1 \in DOMAIN sent /\ sent[read + 1] \in E!Events
      BY <2>1, <2>2, <2>4 DEF Forward, Publish
    <3> DEFINE e == sent[read + 1]
    <3>2. Whole' = Append(Whole, e)
      <4>1. published'[Len(published')] = e /\ e # Blank
        BY <2>2, <3>1, BlankIsNoEvent
      <4> QED BY <2>3, <3>1, <4>1 DEF Whole, IsBlank, Blank, E!Event
    <3>3. IF e.type = "RESULT" THEN E!Justified(SubSeq(sent, 1, (read + 1) - 1), e.status)
                               ELSE E!Continues(SubSeq(sent, 1, (read + 1) - 1))
      BY <3>1 DEF Grounded
    <3>4. SubSeq(sent, 1, (read + 1) - 1) = Whole
      BY <2>2, <2>3
    <3>5. IF e.type = "RESULT" THEN Consumed!Justified(Whole, e.status)
                               ELSE Consumed!Continues(Whole)
      BY <3>3, <3>4, SameUESP
    <3>6. e \in Consumed!Events
      BY <3>1, SameUESP
    <3> QED BY <3>2, <3>5, <3>6 DEF Consumed!Next, Consumed!Emit
  <2>5. CASE EndOfStream /\ torn
    <3>1. published' = Append(published, Blank)
      BY <2>1, <2>5 DEF EndOfStream, Publish
    <3>2. Len(published') = Len(published) + 1 /\ published' # <<>>
          /\ published'[Len(published')] = Blank
      BY <2>2, <3>1
    <3>3. SubSeq(published', 1, Len(published') - 1) = published
      BY <2>2, <3>1, <3>2
    <3>4. Whole' = published
      BY <3>2, <3>3 DEF Whole, IsBlank, Blank, E!Event
    <3> QED BY <2>3, <3>4
  <2> QED BY <2>1, <2>4, <2>5
<1> QED BY <1>1, <1>2

\* A consumer of the exchange reads UESP: at most one RESULT, last, with the
\* verdict that follows from the events the consumer itself has read.
THEOREM ConsumersRead == SSpec => ConsumersReadUESP
<1>1. SInit => Consumed!Init
  BY DEF SInit, Consumed!Init, Whole
<1>2. SInv /\ Grounded /\ [SNext]_vars => [Consumed!Next]_Whole
  BY ConsumerStep
<1> QED BY <1>1, <1>2, StreamInductive, SpeaksInside, PTL
    DEF SSpec, ConsumersReadUESP, Consumed!Spec

\* What is published is what the agent sent, in its order, and in the end all of it.
THEOREM PublishedWhole == SSpec => []PublishedIsSent
BY PublishedInOrder, AllPublished, PTL DEF PublishedIsSent
=============================================================================
