---------------------------- MODULE RunnerEngine ----------------------------
(***************************************************************************)
(* The engine of the Runner (runner/pkg/engine.go): the consumer goroutine *)
(* that pipes deliveries of the job queue into an unbuffered Go channel,   *)
(* the producer of warm containers, the main loop, and one worker          *)
(* goroutine per delivery, together with the part of RabbitMQ they rely on *)
(* (which job is ready, unacknowledged, acknowledged) and the processes'   *)
(* crashes and restarts.                                                   *)
(*                                                                         *)
(* A job is one message of the queue.  Within one life of the process a    *)
(* message is delivered at most once (DeliveredOnce below), so a worker    *)
(* goroutine is named by its job.  The order of messages is left out: no   *)
(* property here is about it, so the queue and the buffers are sets.       *)
(* OrchestrateSubm is a few steps here; the event stream it starts is      *)
(* reduced to "has the RESULT line been written, has it been published".   *)
(***************************************************************************)
EXTENDS Naturals, FiniteSets

CONSTANTS
    Jobs,         \* messages that may be published to the job queue
    Malformed,    \* those whose body json.Unmarshal refuses
    Containers,   \* identities of containers
    NoContainer,  \* the nil *WarmContainer
    QueueCap,     \* CONTAINER_QUEUECAP, capacity of containerQueue
    MaxFaults,    \* bound on crashes, lost connections, shutdowns and failed calls
    MayDisconnect \* does the broker connection break in this instance?

ASSUME ConstantsAssumption ==
    /\ IsFiniteSet(Jobs) /\ Malformed \subseteq Jobs
    /\ NoContainer \notin Containers
    /\ QueueCap \in Nat \ {0}
    /\ MaxFaults \in Nat
    /\ MayDisconnect \in BOOLEAN

VARIABLES
    \* RabbitMQ
    broker,     \* [Jobs -> state of the message in the queue]
    channel,    \* the consumer channel: "open", "refused" (closed by the broker
                \* with PRECONDITION_FAILED), "closed" (by the runner), or "lost"
                \* (the whole connection)
    \* the runner process
    main,       \* main loop of InitRunner: "down", "loop", "drain" (wg.Wait)
    cancelled,  \* ctx.Done() is closed
    pipe,       \* goroutine of Subscribe: "running" or "gone"
    delivery,   \* [Jobs -> stage of the delivery inside the runner]
    producer,   \* pc of the warm container producer
    hand,       \* the container the producer is sending
    pool,       \* containers in containerQueue
    worker,     \* [Jobs -> the container its worker holds]
    \* containers and streams
    agent,      \* [Jobs -> the in-container agent judging it]
    reader,     \* [Jobs -> goroutine of ExecSubm reading the agent's socket]
    published,  \* jobs whose RESULT has been published (history)
    faults      \* faults so far

brokerVars == <<broker, channel>>
warmVars   == <<producer, hand, pool>>
streamVars == <<agent, reader, published>>
procVars   == <<main, cancelled, pipe>>
vars == <<brokerVars, procVars, delivery, warmVars, worker, streamVars, faults>>

-----------------------------------------------------------------------------
\* stages of a delivery, in the order it goes through them
Buffered == {"buffered", "held"}          \* in the amqp library, in the pipe
Working  == {"waiting", "creating", "parsing", "nacked",
             "orchestrating", "preparing", "executing", "acking"}
Idle     == {"none", "done"}

Held == {j \in Jobs : delivery[j] = "held"}

Fault == faults < MaxFaults /\ faults' = faults + 1

\* generateContainerID never returns the id of a container in use; ids that
\* nobody refers to any more stand for new ones
InUse == pool \cup {hand} \cup {worker[j] : j \in Jobs}
Fresh == Containers \ InUse
\* a mistake: ids that may repeat
RepeatedId == CHOOSE c \in Containers : TRUE
NewContainer == CHOOSE c \in Containers : c \notin InUse

Init ==
    /\ broker = [j \in Jobs |-> "unsent"]
    /\ channel = "closed"
    /\ main = "down"
    /\ cancelled = FALSE
    /\ pipe = "gone"
    /\ delivery = [j \in Jobs |-> "none"]
    /\ producer = "gone"
    /\ hand = NoContainer
    /\ pool = {}
    /\ worker = [j \in Jobs |-> NoContainer]
    /\ agent = [j \in Jobs |-> "none"]
    /\ reader = [j \in Jobs |-> "none"]
    /\ published = {}
    /\ faults = 0

-----------------------------------------------------------------------------
(* RabbitMQ *)

\* When a channel closes, what was unacknowledged on it becomes ready again.
Requeued == [j \in Jobs |-> IF broker[j] = "unacked" THEN "ready" ELSE broker[j]]

Close(how) ==
    /\ channel' = how
    /\ broker' = Requeued

\* Effect of basic.ack / basic.nack for j's delivery tag.  On a channel that is
\* not open the library returns ErrClosed, which every caller ignores; a tag
\* that is no longer unacknowledged is a protocol error that closes the channel.
Settle(j, as) ==
    \/ /\ channel # "open"
       /\ UNCHANGED brokerVars
    \/ /\ channel = "open"
       /\ broker[j] = "unacked"
       /\ broker' = [broker EXCEPT ![j] = as]
       /\ UNCHANGED channel
    \/ /\ channel = "open"
       /\ broker[j] # "unacked"
       /\ Close("refused")

\* A dispatcher publishes the job.
Submit(j) ==
    /\ broker[j] = "unsent"
    /\ broker' = [broker EXCEPT ![j] = "ready"]
    /\ UNCHANGED <<channel, procVars, delivery, warmVars, worker, streamVars, faults>>

\* The broker pushes a message to the consumer.  Qos(cap(localQueue)) asks for
\* a prefetch of 0, which is no limit.
Deliver(j) ==
    /\ channel = "open"
    /\ broker[j] = "ready"
    /\ broker' = [broker EXCEPT ![j] = "unacked"]
    /\ delivery' = [delivery EXCEPT ![j] = "buffered"]
    /\ UNCHANGED <<channel, procVars, warmVars, worker, streamVars, faults>>

-----------------------------------------------------------------------------
(* The goroutine of Subscribe *)

\* case d := <-msgs, then it is blocked in localQueue <- d
PipeTake(j) ==
    /\ pipe = "running"
    /\ Held = {}
    /\ delivery[j] = "buffered"
    /\ delivery' = [delivery EXCEPT ![j] = "held"]
    /\ UNCHANGED <<brokerVars, procVars, warmVars, worker, streamVars, faults>>

\* what is still in the library's buffer of a closed channel is dropped
DropBuffered ==
    delivery' = [j \in Jobs |-> IF delivery[j] = "buffered" THEN "none" ELSE delivery[j]]

\* case <-ctx.Done(): the deferred consumerCh.Close() runs
PipeCancelled ==
    /\ pipe = "running"
    /\ Held = {}
    /\ cancelled
    /\ pipe' = "gone"
    /\ DropBuffered
    /\ \/ channel = "open" /\ Close("closed")
       \/ channel # "open" /\ UNCHANGED brokerVars
    /\ UNCHANGED <<main, cancelled, warmVars, worker, streamVars, faults>>

\* case d, ok := <-msgs with !ok: the channel was closed under it.  Nobody
\* closes localqueue or opens another channel.
PipeClosed ==
    /\ pipe = "running"
    /\ Held = {}
    /\ channel # "open"
    /\ pipe' = "gone"
    /\ DropBuffered
    /\ UNCHANGED <<brokerVars, main, cancelled, warmVars, worker, streamVars, faults>>

-----------------------------------------------------------------------------
(* The warm container producer *)

ProducerStart ==
    /\ producer = "top"
    /\ producer' = IF cancelled THEN "gone" ELSE "creating"
    /\ UNCHANGED <<brokerVars, procVars, delivery, hand, pool, worker, streamVars, faults>>

ProducerCreates ==
    /\ producer = "creating"
    /\ Fresh # {}
    /\ producer' = "sending"
    /\ hand' = NewContainer
    /\ UNCHANGED <<brokerVars, procVars, delivery, pool, worker, streamVars, faults>>

\* a mistake: no continue after the failure
FailsWithoutContinue ==
    /\ producer = "creating"
    /\ cancelled \/ faults < MaxFaults
    /\ faults' = IF cancelled THEN faults ELSE faults + 1
    /\ producer' = "sending"
    /\ UNCHANGED <<brokerVars, procVars, delivery, hand, pool, worker, streamVars>>

\* log, sleep a second, continue
ProducerFails ==
    /\ producer = "creating"
    /\ cancelled \/ faults < MaxFaults
    /\ faults' = IF cancelled THEN faults ELSE faults + 1
    /\ producer' = "top"
    /\ UNCHANGED <<brokerVars, procVars, delivery, hand, pool, worker, streamVars>>

ProducerSends ==
    /\ producer = "sending"
    /\ Cardinality(pool) < QueueCap
    /\ pool' = pool \cup {hand}
    /\ hand' = NoContainer
    /\ producer' = "top"
    /\ UNCHANGED <<brokerVars, procVars, delivery, worker, streamVars, faults>>

ProducerCancelled ==
    /\ producer = "sending"
    /\ cancelled
    /\ hand' = NoContainer
    /\ producer' = "gone"
    /\ UNCHANGED <<brokerVars, procVars, delivery, pool, worker, streamVars, faults>>

-----------------------------------------------------------------------------
(* The main loop *)

\* case msg := <-localqueue, wg.Add(1), go func: with localqueue unbuffered,
\* the pipe's send and this receive are one step
MainReceive(j) ==
    /\ main = "loop"
    /\ delivery[j] = "held"
    /\ delivery' = [delivery EXCEPT ![j] = "waiting"]
    /\ UNCHANGED <<brokerVars, procVars, warmVars, worker, streamVars, faults>>

\* case <-ctx.Done(), then wg.Wait()
MainCancelled ==
    /\ main = "loop"
    /\ cancelled
    /\ main' = "drain"
    /\ UNCHANGED <<brokerVars, cancelled, pipe, delivery, warmVars, worker, streamVars, faults>>

\* The process is gone, and with it its goroutines and its connections; the
\* containers live on in containerd, referred to by nobody.
ProcessEnds ==
    /\ main' = "down"
    /\ cancelled' = FALSE
    /\ pipe' = "gone"
    /\ Close("closed")
    /\ delivery' = [j \in Jobs |-> "none"]
    /\ producer' = "gone"
    /\ hand' = NoContainer
    /\ pool' = {}
    /\ worker' = [j \in Jobs |-> NoContainer]
    /\ agent' = [j \in Jobs |-> "none"]
    /\ reader' = [j \in Jobs |-> "none"]
    /\ UNCHANGED published

\* wg.Wait() is over: InitRunner and then Runner return
MainReturns ==
    /\ main = "drain"
    /\ \A j \in Jobs : delivery[j] \notin Working
    /\ ProcessEnds
    /\ UNCHANGED faults

-----------------------------------------------------------------------------
(* The worker goroutine of a delivery *)

\* case warmcontainer = <-containerQueue
WorkerTakes(j) ==
    /\ delivery[j] = "waiting"
    /\ \E c \in pool :
          /\ pool' = pool \ {c}
          /\ worker' = [worker EXCEPT ![j] = c]
    /\ delivery' = [delivery EXCEPT ![j] = "parsing"]
    /\ UNCHANGED <<brokerVars, procVars, producer, hand, streamVars, faults>>

\* a mistake: no fallback, the worker waits for containerQueue alone
NoFallback(j) == FALSE

\* case <-time.After(3 * time.Second): three seconds may pass at any moment
WorkerTimesOut(j) ==
    /\ delivery[j] = "waiting"
    /\ delivery' = [delivery EXCEPT ![j] = "creating"]
    /\ UNCHANGED <<brokerVars, procVars, warmVars, worker, streamVars, faults>>

WorkerCreates(j) ==
    /\ delivery[j] = "creating"
    /\ Fresh # {}
    /\ worker' = [worker EXCEPT ![j] = NewContainer]
    /\ delivery' = [delivery EXCEPT ![j] = "parsing"]
    /\ UNCHANGED <<brokerVars, procVars, warmVars, streamVars, faults>>

\* a mistake: the worker returns when it has no container
ReturnsWithoutContainer(j) ==
    /\ delivery[j] = "creating"
    /\ cancelled \/ faults < MaxFaults
    /\ faults' = IF cancelled THEN faults ELSE faults + 1
    /\ delivery' = [delivery EXCEPT ![j] = "done"]
    /\ UNCHANGED <<brokerVars, procVars, warmVars, worker, streamVars>>

\* the error is logged and the worker goes on with a nil container
WorkerCreateFails(j) ==
    /\ delivery[j] = "creating"
    /\ cancelled \/ faults < MaxFaults
    /\ faults' = IF cancelled THEN faults ELSE faults + 1
    /\ delivery' = [delivery EXCEPT ![j] = "parsing"]
    /\ UNCHANGED <<brokerVars, procVars, warmVars, worker, streamVars>>

ParseOk(j) ==
    /\ delivery[j] = "parsing"
    /\ j \notin Malformed
    /\ delivery' = [delivery EXCEPT ![j] = "orchestrating"]
    /\ UNCHANGED <<brokerVars, procVars, warmVars, worker, streamVars, faults>>

\* ProcessJobSpec: msg.Nack(false, false) discards the message
ParseFails(j) ==
    /\ delivery[j] = "parsing"
    /\ j \in Malformed
    /\ Settle(j, "dropped")
    /\ delivery' = [delivery EXCEPT ![j] = "nacked"]
    /\ UNCHANGED <<procVars, warmVars, worker, streamVars, faults>>

\* InitRunner: delivery.Nack(false, true) for the same tag, and no return
NackAgain(j) ==
    /\ delivery[j] = "nacked"
    /\ Settle(j, "ready")
    /\ delivery' = [delivery EXCEPT ![j] = "orchestrating"]
    /\ UNCHANGED <<procVars, warmVars, worker, streamVars, faults>>

\* mistakes after an orchestration error: to return without an answer, to
\* requeue and acknowledge as well, to discard the job
FailsWithoutAck(j) ==
    /\ delivery[j] = "orchestrating"
    /\ delivery' = [delivery EXCEPT ![j] = "done"]
    /\ UNCHANGED <<brokerVars, procVars, warmVars, worker, streamVars, faults>>

FailsWithNackAndAck(j) ==
    /\ delivery[j] = "orchestrating"
    /\ Settle(j, "ready")
    /\ delivery' = [delivery EXCEPT ![j] = "acking"]
    /\ UNCHANGED <<procVars, warmVars, worker, streamVars, faults>>

FailsWithDiscard(j) ==
    /\ delivery[j] = "orchestrating"
    /\ Settle(j, "dropped")
    /\ delivery' = [delivery EXCEPT ![j] = "done"]
    /\ UNCHANGED <<procVars, warmVars, worker, streamVars, faults>>

\* OrchestrateSubm returns an error: mkdir, S3, rules, or the write to the
\* agent's socket.  The empty JobSpec of a malformed message has no bucket, so
\* S3 always fails for it.  The agent goes on waiting for its specification.
OrchestrateFails(j) ==
    /\ delivery[j] = "orchestrating"
    /\ delivery' = [delivery EXCEPT ![j] = "acking"]
    /\ UNCHANGED <<brokerVars, procVars, warmVars, worker, streamVars, faults>>

\* json.Encode to wc.Conn: the agent has its specification, and judges
SendSpec(j) ==
    /\ delivery[j] = "orchestrating"
    /\ j \notin Malformed
    /\ worker[j] # NoContainer
    /\ agent' = [agent EXCEPT ![j] = "judging"]
    /\ delivery' = [delivery EXCEPT ![j] = "preparing"]
    /\ UNCHANGED <<brokerVars, procVars, warmVars, worker, reader, published, faults>>

\* The directory /tmprunner/submissions/<id> cannot be made: OrchestrateSubm
\* returns, and leaves the agent without a reader and without a kill.
DirFails(j) ==
    /\ delivery[j] = "preparing"
    /\ Fault
    /\ delivery' = [delivery EXCEPT ![j] = "acking"]
    /\ UNCHANGED <<brokerVars, procVars, warmVars, worker, streamVars>>

\* The directory is there; ExecSubm starts its reader goroutine and waits.
ExecStarts(j) ==
    /\ delivery[j] = "preparing"
    /\ reader' = [reader EXCEPT ![j] = "open"]
    /\ delivery' = [delivery EXCEPT ![j] = "executing"]
    /\ UNCHANGED <<brokerVars, procVars, warmVars, worker, agent, published, faults>>

\* wc.Conn of a nil container: the panic takes the process down
OrchestratePanics(j) ==
    /\ delivery[j] = "orchestrating"
    /\ j \notin Malformed
    /\ worker[j] = NoContainer
    /\ ProcessEnds
    /\ UNCHANGED faults

\* a mistake: ExecSubm closes the socket when the container has exited
ExitClosesSocket(j) ==
    /\ delivery[j] = "executing"
    /\ agent[j] \in {"result", "dead"}
    /\ reader' = [reader EXCEPT ![j] = "closed"]
    /\ delivery' = [delivery EXCEPT ![j] = "acking"]
    /\ UNCHANGED <<brokerVars, procVars, warmVars, worker, agent, published, faults>>

\* case status = <-wc.ContStatus
ExecExits(j) ==
    /\ delivery[j] = "executing"
    /\ agent[j] \in {"result", "dead"}
    /\ delivery' = [delivery EXCEPT ![j] = "acking"]
    /\ UNCHANGED <<brokerVars, procVars, warmVars, worker, streamVars, faults>>

\* a mistake: wait for the container only
NoTimeout(j) == FALSE

\* a mistake: the agent is left alone when the time is up
TimesOutWithoutKill(j) ==
    /\ delivery[j] = "executing"
    /\ delivery' = [delivery EXCEPT ![j] = "acking"]
    /\ UNCHANGED <<brokerVars, procVars, warmVars, worker, streamVars, faults>>

\* case <-ctxTimeout.Done(), and SIGKILL
ExecTimesOut(j) ==
    /\ delivery[j] = "executing"
    /\ agent[j] = "judging" => ~cancelled
    /\ agent' = IF agent[j] = "judging" THEN [agent EXCEPT ![j] = "dead"] ELSE agent
    /\ delivery' = [delivery EXCEPT ![j] = "acking"]
    /\ UNCHANGED <<brokerVars, procVars, warmVars, worker, reader, published, faults>>

\* ContStatus brings the error of a Wait that failed, or SIGKILL fails: the
\* agent goes on.  A cancelled ctx, which both are given, fails both.
ExecFails(j) ==
    /\ delivery[j] = "executing"
    /\ agent[j] = "judging"
    /\ cancelled \/ faults < MaxFaults
    /\ faults' = IF cancelled THEN faults ELSE faults + 1
    /\ delivery' = [delivery EXCEPT ![j] = "acking"]
    /\ UNCHANGED <<brokerVars, procVars, warmVars, worker, streamVars>>

\* delivery.Ack(false) whatever OrchestrateSubm returned.  The container is not
\* deleted: it stays in containerd and is never handed out again.
Ack(j) ==
    /\ delivery[j] = "acking"
    /\ Settle(j, "acked")
    /\ delivery' = [delivery EXCEPT ![j] = "done"]
    /\ UNCHANGED <<procVars, warmVars, worker, streamVars, faults>>

WorkerStep(j) ==
    \/ WorkerTakes(j) \/ WorkerTimesOut(j) \/ WorkerCreates(j) \/ WorkerCreateFails(j)
    \/ ParseOk(j) \/ ParseFails(j) \/ NackAgain(j)
    \/ OrchestrateFails(j) \/ OrchestratePanics(j)
    \/ SendSpec(j) \/ DirFails(j) \/ ExecStarts(j)
    \/ ExecExits(j) \/ ExecTimesOut(j) \/ ExecFails(j) \/ Ack(j)

-----------------------------------------------------------------------------
(* The agent in the container, and the reader goroutine of ExecSubm *)

\* The agent writes its RESULT line and the container exits.
AgentAnswers(j) ==
    /\ agent[j] = "judging"
    /\ agent' = [agent EXCEPT ![j] = "result"]
    /\ UNCHANGED <<brokerVars, procVars, delivery, warmVars, worker, reader, published, faults>>

\* The container exits without a RESULT line the scanner can read.
AgentDies(j) ==
    /\ agent[j] = "judging"
    /\ agent' = [agent EXCEPT ![j] = "dead"]
    /\ UNCHANGED <<brokerVars, procVars, delivery, warmVars, worker, reader, published, faults>>

\* The reader forwards RESULT through routeToRMQ, which only logs a failure,
\* and sees the end of the stream.
ReaderForwards(j) ==
    /\ reader[j] = "open"
    /\ agent[j] = "result"
    /\ reader' = [reader EXCEPT ![j] = "closed"]
    /\ published' = IF channel = "lost" THEN published ELSE published \cup {j}
    /\ UNCHANGED <<brokerVars, procVars, delivery, warmVars, worker, agent, faults>>

ReaderEnds(j) ==
    /\ reader[j] = "open"
    /\ agent[j] = "dead"
    /\ reader' = [reader EXCEPT ![j] = "closed"]
    /\ UNCHANGED <<brokerVars, procVars, delivery, warmVars, worker, agent, published, faults>>

-----------------------------------------------------------------------------
(* The environment *)

Crash ==
    /\ main # "down"
    /\ Fault
    /\ ProcessEnds

\* The context given to InitRunner is cancelled.
Cancel ==
    /\ main = "loop"
    /\ ~cancelled
    /\ Fault
    /\ cancelled' = TRUE
    /\ UNCHANGED <<brokerVars, main, pipe, delivery, warmVars, worker, streamVars>>

\* RMQManager never opens a second connection.
Disconnect ==
    /\ MayDisconnect
    /\ main # "down"
    /\ channel # "lost"
    /\ Fault
    /\ Close("lost")
    /\ UNCHANGED <<procVars, delivery, warmVars, worker, streamVars>>

\* systemd starts the runner again: NewRMQManager connects, Subscribe opens a
\* channel, the producer and the main loop start
Restart ==
    /\ main = "down"
    /\ main' = "loop"
    /\ pipe' = "running"
    /\ channel' = "open"
    /\ producer' = "top"
    /\ UNCHANGED <<broker, cancelled, delivery, hand, pool, worker, streamVars, faults>>

-----------------------------------------------------------------------------
Pipe == (\E j \in Jobs : PipeTake(j)) \/ PipeCancelled \/ PipeClosed

Producer ==
    \/ ProducerStart \/ ProducerCreates \/ ProducerFails
    \/ ProducerSends \/ ProducerCancelled

Main == (\E j \in Jobs : MainReceive(j)) \/ MainCancelled \/ MainReturns

Reader(j) == ReaderForwards(j) \/ ReaderEnds(j)

Environment == Crash \/ Cancel \/ Disconnect \/ Restart

Next ==
    \/ \E j \in Jobs : Submit(j) \/ Deliver(j)
    \/ Pipe
    \/ Producer
    \/ Main
    \/ \E j \in Jobs : WorkerStep(j) \/ AgentAnswers(j) \/ AgentDies(j) \/ Reader(j)
    \/ Environment

Spec == Init /\ [][Next]_vars

\* Goroutines and the broker run; a container id is generated and the agent
\* connects in the end; systemd restarts the runner.  No job has to be
\* submitted, no agent has to answer (TIMEOUT_SEC ends the wait), and no fault
\* has to happen.
Fairness ==
    /\ WF_vars(\E j \in Jobs : Deliver(j))
    /\ WF_vars(Pipe)
    /\ WF_vars(Producer)
    /\ WF_vars(Main)
    /\ WF_vars(Restart)
    /\ \A j \in Jobs : WF_vars(WorkerStep(j)) /\ WF_vars(Reader(j))

FairSpec == Spec /\ Fairness

-----------------------------------------------------------------------------
Stages == Idle \cup Buffered \cup Working

\* Every variable keeps its range, in every state of InitRunner's goroutines.
TypeOK ==
    /\ broker \in [Jobs -> {"unsent", "ready", "unacked", "acked", "dropped"}]
    /\ channel \in {"open", "refused", "closed", "lost"}
    /\ main \in {"down", "loop", "drain"}
    /\ cancelled \in BOOLEAN
    /\ pipe \in {"running", "gone"}
    /\ delivery \in [Jobs -> Stages]
    /\ producer \in {"top", "creating", "sending", "gone"}
    /\ hand \in Containers \cup {NoContainer}
    /\ pool \in SUBSET Containers
    /\ worker \in [Jobs -> Containers \cup {NoContainer}]
    /\ agent \in [Jobs -> {"none", "judging", "result", "dead"}]
    /\ reader \in [Jobs -> {"none", "open", "closed"}]
    /\ published \in SUBSET Jobs
    /\ faults \in 0..MaxFaults

\* While the consumer channel is open the broker and the runner agree on who
\* owns a job: it is unacknowledged exactly while one goroutine of this process
\* has it and still owes it an answer.  No message is stuck unacknowledged with
\* nobody working on it, none is worked on after it was given away or settled.
DeliveryOwned ==
    channel = "open" =>
        \A j \in Jobs :
            broker[j] = "unacked" <=> delivery[j] \notin Idle \cup {"nacked"}

\* A warm container has one holder: containerQueue, the producer's hand, or one
\* worker and the stream it started.  Two submissions never share a container.
ContainerExclusive ==
    /\ hand \notin pool
    /\ \A i, j \in Jobs :
          /\ worker[i] \notin pool
          /\ worker[i] # NoContainer => worker[i] # hand /\ (worker[i] = worker[j] => i = j)

\* The broker closes the consumer channel for a protocol error only after a
\* malformed message was discarded: no well-formed job is ever settled twice,
\* whatever crashes, timeouts and redeliveries came before.
RefusedOnlyByMalformed ==
    channel = "refused" => \E j \in Malformed : broker[j] = "dropped"

\* Each job has one owner, who settles it once; only a malformed one has two
\* goes at it, and only they can cost the runner its channel.
SettledByOwner == DeliveryOwned /\ RefusedOnlyByMalformed

\* A RESULT line that an agent wrote is never given up: until it is published a
\* goroutine reads the agent's socket, however ExecSubm returned and whether or
\* not the job is acknowledged, as long as the connection lives.  Only before
\* ExecSubm, or for a call that failed there, has it no reader.
ResultKept ==
    \A j \in Jobs :
        agent[j] = "result" =>
            \/ reader[j] = "open" \/ j \in published \/ channel = "lost"
            \/ reader[j] = "none" /\ (delivery[j] = "preparing" \/ faults > 0)

\* agents that judge on although their worker has left OrchestrateSubm
LeftRunning ==
    {j \in Jobs : agent[j] = "judging" /\ delivery[j] \notin {"preparing", "executing"}}

\* No agent outlives its submission, timeout or not, but one for each call that
\* failed once it had its specification: MkdirAll, Wait or Kill.  A cancelled ctx
\* fails the last two for all.
NoAgentLeftRunning == cancelled \/ Cardinality(LeftRunning) <= faults

\* What ExecSubm leaves behind when it returns is in order, RESULT and agent.
LeftInOrder == ResultKept /\ NoAgentLeftRunning

\* In one life of the process no job is delivered twice: what has reached a
\* worker, finished or not, never comes back from the broker to the same
\* process, so no two workers judge one submission side by side.
DeliveredOnce ==
    [][\A j \in Jobs :
          delivery[j] # "none" /\ delivery'[j] = "buffered" => delivery[j] = "buffered"]_vars

\* The runner keeps the queue's contract: a job leaves it acknowledged or, if
\* malformed, discarded, and until then is ready or taken.
Queue == INSTANCE JobDelivery WITH status <- broker
QueueContract == Queue!Spec

\* Whatever happens (no answer, a failing containerd, S3 errors, the panic of
\* another worker, crashes), the jobs that reached the queue get settled: again
\* and again there is none left, unless the runner is cut off from its queue.
EveryJobSettled ==
    []<>(\/ channel \in {"refused", "lost"}
         \/ \A j \in Jobs : broker[j] \notin {"ready", "unacked"})

\* No delivery stays inside the runner for ever, not even when its channel or
\* the connection is gone, or ctx is cancelled while it waits for a container:
\* the runner becomes idle again and again.
EveryDeliveryEnds == []<>(\A j \in Jobs : delivery[j] \in Idle)

\* Cancelling ctx ends the process: wg.Wait() is not for ever.
ShutdownEnds == cancelled ~> main = "down"

\* A RESULT line the agent wrote is published even when ExecSubm has already
\* returned and the job is acknowledged, unless the process or the connection
\* ends first, or ExecSubm was never reached and nobody reads the socket.
ResultForwarded ==
    []<>(\A j \in Jobs :
            agent[j] = "result" /\ reader[j] # "none" => j \in published \/ channel = "lost")

-----------------------------------------------------------------------------
(* What comments and documents say, and the code does not do *)

\* validator.go:20 "NACK bad JSON and move on": a malformed message does not
\* keep the well-formed ones from being settled.
MalformedMovesOn ==
    \A j \in Jobs \ Malformed : broker[j] = "ready" ~> broker[j] = "acked"
=============================================================================
