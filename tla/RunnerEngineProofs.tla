------------------------- MODULE RunnerEngineProofs -------------------------
(***************************************************************************)
(* What is proved of RunnerEngine for every set of jobs and containers,    *)
(* every capacity of containerQueue and every number of faults.            *)
(***************************************************************************)
EXTENDS RunnerEngine, FiniteSetTheorems, TLAPS

-----------------------------------------------------------------------------
(* The inductive invariant *)

\* The producer that sends has something to send.
SendingHolds == producer = "sending" => hand \in Containers

\* A process that is down has left nothing behind that a restart could meet.
DownIsEmpty ==
    main = "down" =>
        /\ channel # "open"
        /\ \A j \in Jobs : delivery[j] = "none"

\* Only an open channel has unacknowledged messages.
ClosedOwesNothing ==
    channel # "open" => \A j \in Jobs : broker[j] # "unacked"

\* Between the two Nacks of a malformed message it has left the queue.
NackedIsDropped ==
    \A j \in Jobs : delivery[j] = "nacked" =>
        /\ j \in Malformed
        /\ channel = "open" => broker[j] = "dropped"

Ownership ==
    /\ DownIsEmpty
    /\ ClosedOwesNothing
    /\ NackedIsDropped
    /\ DeliveryOwned
    /\ RefusedOnlyByMalformed

IInv == TypeOK /\ SendingHolds /\ Ownership /\ ContainerExclusive

-----------------------------------------------------------------------------
(* Types *)

\* What a settled, closed or restarted channel leaves in broker and channel.
LEMMA CloseType ==
    ASSUME TypeOK, NEW how \in {"open", "refused", "closed", "lost"}, Close(how)
    PROVE  /\ broker' \in [Jobs -> {"unsent", "ready", "unacked", "acked", "dropped"}]
           /\ channel' \in {"open", "refused", "closed", "lost"}
BY DEF TypeOK, Close, Requeued

\* Ack and Nack keep the ranges of broker and channel.
LEMMA SettleType ==
    ASSUME TypeOK, NEW j \in Jobs, NEW as \in {"ready", "acked", "dropped"}, Settle(j, as)
    PROVE  /\ broker' \in [Jobs -> {"unsent", "ready", "unacked", "acked", "dropped"}]
           /\ channel' \in {"open", "refused", "closed", "lost"}
<1>1. CASE Close("refused")
  BY <1>1, CloseType
<1>2. CASE ~Close("refused")
  BY <1>2 DEF TypeOK, Settle, brokerVars
<1> QED BY <1>1, <1>2

\* The end of the process (panic, crash, return of InitRunner) keeps the ranges.
LEMMA ProcessEndsType ==
    ASSUME TypeOK, ProcessEnds, faults' \in 0..MaxFaults
    PROVE  TypeOK' /\ SendingHolds'
<1>1. Close("closed")
  BY DEF ProcessEnds
<1>2. /\ broker' \in [Jobs -> {"unsent", "ready", "unacked", "acked", "dropped"}]
      /\ channel' \in {"open", "refused", "closed", "lost"}
  BY <1>1, CloseType
<1> QED BY <1>2 DEF TypeOK, SendingHolds, ProcessEnds, Stages, Idle

\* No step of the engine takes a variable out of its range.
LEMMA TypeStep ==
    ASSUME TypeOK, SendingHolds, [Next]_vars
    PROVE  TypeOK' /\ SendingHolds'
<1> USE ConstantsAssumption DEF ConstantsAssumption
<1> USE DEF Stages, Idle, Buffered, Working, brokerVars, procVars, warmVars, streamVars
<1>1. ASSUME NEW j \in Jobs, Submit(j) PROVE TypeOK' /\ SendingHolds'
  BY <1>1 DEF TypeOK, SendingHolds, Submit
<1>2. ASSUME NEW j \in Jobs, Deliver(j) PROVE TypeOK' /\ SendingHolds'
  BY <1>2 DEF TypeOK, SendingHolds, Deliver
<1>3. ASSUME NEW j \in Jobs, MainReceive(j) PROVE TypeOK' /\ SendingHolds'
  BY <1>3 DEF TypeOK, SendingHolds, MainReceive
<1>4. CASE Pipe
  <2>1. ASSUME NEW j \in Jobs, PipeTake(j) PROVE TypeOK' /\ SendingHolds'
    BY <2>1 DEF TypeOK, SendingHolds, PipeTake
  <2>2. CASE PipeCancelled
    <3>1. /\ broker' \in [Jobs -> {"unsent", "ready", "unacked", "acked", "dropped"}]
          /\ channel' \in {"open", "refused", "closed", "lost"}
      <4>1. CASE Close("closed")
        BY <4>1, CloseType
      <4>2. CASE UNCHANGED brokerVars
        BY <4>2 DEF TypeOK
      <4> QED BY <2>2, <4>1, <4>2 DEF PipeCancelled
    <3> QED BY <2>2, <3>1 DEF TypeOK, SendingHolds, PipeCancelled, DropBuffered
  <2>3. CASE PipeClosed
    BY <2>3 DEF TypeOK, SendingHolds, PipeClosed, DropBuffered
  <2> QED BY <1>4, <2>1, <2>2, <2>3 DEF Pipe
<1>5. CASE Producer
  <2>1. CASE ProducerStart
    BY <2>1 DEF TypeOK, SendingHolds, ProducerStart
  <2>2. CASE ProducerCreates
    <3>1. NewContainer \in Containers
      BY <2>2 DEF ProducerCreates, Fresh, NewContainer
    <3> QED BY <2>2, <3>1 DEF TypeOK, SendingHolds, ProducerCreates
  <2>3. CASE ProducerFails
    BY <2>3 DEF TypeOK, SendingHolds, ProducerFails
  <2>4. CASE ProducerSends
    BY <2>4 DEF TypeOK, SendingHolds, ProducerSends
  <2>5. CASE ProducerCancelled
    BY <2>5 DEF TypeOK, SendingHolds, ProducerCancelled
  <2> QED BY <1>5, <2>1, <2>2, <2>3, <2>4, <2>5 DEF Producer
<1>6. CASE MainCancelled
  BY <1>6 DEF TypeOK, SendingHolds, MainCancelled
<1>7. CASE MainReturns
  BY <1>7, ProcessEndsType DEF MainReturns, TypeOK
<1>8. ASSUME NEW j \in Jobs, WorkerStep(j) PROVE TypeOK' /\ SendingHolds'
  <2>1. CASE WorkerTakes(j)
    BY <2>1 DEF TypeOK, SendingHolds, WorkerTakes
  <2>2. CASE WorkerTimesOut(j)
    BY <2>2 DEF TypeOK, SendingHolds, WorkerTimesOut
  <2>3. CASE WorkerCreates(j)
    <3>1. NewContainer \in Containers
      BY <2>3 DEF WorkerCreates, Fresh, NewContainer
    <3> QED BY <2>3, <3>1 DEF TypeOK, SendingHolds, WorkerCreates
  <2>4. CASE WorkerCreateFails(j)
    BY <2>4 DEF TypeOK, SendingHolds, WorkerCreateFails
  <2>5. CASE ParseOk(j)
    BY <2>5 DEF TypeOK, SendingHolds, ParseOk
  <2>6. CASE ParseFails(j)
    <3>1. Settle(j, "dropped")
      BY <2>6 DEF ParseFails
    <3> QED BY <2>6, <3>1, SettleType DEF TypeOK, SendingHolds, ParseFails
  <2>7. CASE NackAgain(j)
    <3>1. Settle(j, "ready")
      BY <2>7 DEF NackAgain
    <3> QED BY <2>7, <3>1, SettleType DEF TypeOK, SendingHolds, NackAgain
  <2>8. CASE OrchestrateFails(j)
    BY <2>8 DEF TypeOK, SendingHolds, OrchestrateFails
  <2>9. CASE SendSpec(j) \/ DirFails(j) \/ ExecStarts(j)
    BY <2>9 DEF TypeOK, SendingHolds, SendSpec, DirFails, Fault, ExecStarts
  <2>10. CASE OrchestratePanics(j)
    BY <2>10, ProcessEndsType DEF OrchestratePanics, TypeOK
  <2>11. CASE ExecExits(j)
    BY <2>11 DEF TypeOK, SendingHolds, ExecExits
  <2>12. CASE ExecTimesOut(j) \/ ExecFails(j)
    BY <2>12 DEF TypeOK, SendingHolds, ExecTimesOut, ExecFails
  <2>13. CASE Ack(j)
    <3>1. Settle(j, "acked")
      BY <2>13 DEF Ack
    <3> QED BY <2>13, <3>1, SettleType DEF TypeOK, SendingHolds, Ack
  <2> QED BY <1>8, <2>1, <2>2, <2>3, <2>4, <2>5, <2>6, <2>7, <2>8, <2>9, <2>10,
             <2>11, <2>12, <2>13 DEF WorkerStep
<1>9. ASSUME NEW j \in Jobs, AgentAnswers(j) \/ AgentDies(j) PROVE TypeOK' /\ SendingHolds'
  BY <1>9 DEF TypeOK, SendingHolds, AgentAnswers, AgentDies
<1>10. ASSUME NEW j \in Jobs, Reader(j) PROVE TypeOK' /\ SendingHolds'
  BY <1>10 DEF TypeOK, SendingHolds, Reader, ReaderForwards, ReaderEnds
<1>11. CASE Environment
  <2>1. CASE Crash
    BY <2>1, ProcessEndsType DEF Crash, Fault, TypeOK
  <2>2. CASE Cancel
    BY <2>2 DEF TypeOK, SendingHolds, Cancel, Fault
  <2>3. CASE Disconnect
    <3>1. Close("lost")
      BY <2>3 DEF Disconnect
    <3> QED BY <2>3, <3>1, CloseType DEF TypeOK, SendingHolds, Disconnect, Fault
  <2>4. CASE Restart
    BY <2>4 DEF TypeOK, SendingHolds, Restart
  <2> QED BY <1>11, <2>1, <2>2, <2>3, <2>4 DEF Environment
<1>12. CASE UNCHANGED vars
  BY <1>12 DEF TypeOK, SendingHolds, vars
<1> QED BY <1>1, <1>2, <1>3, <1>4, <1>5, <1>6, <1>7, <1>8, <1>9, <1>10, <1>11, <1>12 DEF Next, Main

\* The ranges hold before the first start of the process.
LEMMA TypeInit == ASSUME Init PROVE TypeOK /\ SendingHolds
<1>1. faults \in 0..MaxFaults /\ pool \in SUBSET Containers /\ published \in SUBSET Jobs
  BY ConstantsAssumption DEF ConstantsAssumption, Init
<1>2. delivery \in [Jobs -> Stages]
  BY DEF Init, Stages, Idle
<1>3. SendingHolds
  BY DEF Init, SendingHolds
<1> QED BY <1>1, <1>2, <1>3 DEF Init, TypeOK

-----------------------------------------------------------------------------
(* Ownership of jobs *)

\* A channel that is closed, for whatever reason but a refusal, owes nothing.
LEMMA CloseOwnership ==
    ASSUME TypeOK, Ownership, NEW how \in {"closed", "lost", "refused"}, Close(how),
           how = "refused" => \E j \in Malformed : broker[j] = "dropped",
           DownIsEmpty', \A j \in Jobs : delivery'[j] = "nacked" => j \in Malformed
    PROVE  Ownership'
<1> USE ConstantsAssumption DEF ConstantsAssumption
<1>1. channel' = how /\ channel' # "open"
  BY DEF Close
<1>2. \A j \in Jobs : broker'[j] # "unacked"
  BY DEF Close, Requeued, TypeOK
<1>3. \A j \in Jobs : broker[j] = "dropped" => broker'[j] = "dropped"
  BY DEF Close, Requeued, TypeOK
<1>4. RefusedOnlyByMalformed'
  BY <1>1, <1>3 DEF RefusedOnlyByMalformed
<1> QED BY <1>1, <1>2, <1>4
        DEF Ownership, ClosedOwesNothing, NackedIsDropped, DeliveryOwned

\* The process ends: nothing is left of it.
LEMMA ProcessEndsOwnership ==
    ASSUME TypeOK, Ownership, ProcessEnds PROVE Ownership'
<1>1. Close("closed") /\ DownIsEmpty'
  BY DEF ProcessEnds, Close, DownIsEmpty
<1>2. \A j \in Jobs : delivery'[j] # "nacked"
  BY DEF ProcessEnds
<1> QED BY <1>1, <1>2, CloseOwnership

\* A step that changes only which stage of the same kind a delivery is in.
LEMMA StageOwnership ==
    ASSUME TypeOK, Ownership, NEW j \in Jobs, NEW stage \in (Buffered \cup Working) \ {"nacked"},
           delivery' = [delivery EXCEPT ![j] = stage], UNCHANGED <<broker, channel, main>>,
           delivery[j] \in (Buffered \cup Working) \ {"nacked"} 
    PROVE  Ownership'
<1> USE DEF Buffered, Working, Idle, Stages, TypeOK
<1>1. DownIsEmpty'
  BY DEF Ownership, DownIsEmpty
<1>2. ClosedOwesNothing' /\ NackedIsDropped' /\ RefusedOnlyByMalformed'
  BY DEF Ownership, ClosedOwesNothing, NackedIsDropped, RefusedOnlyByMalformed
<1>3. DeliveryOwned'
  BY DEF Ownership, DeliveryOwned
<1> QED BY <1>1, <1>2, <1>3 DEF Ownership

\* Every step of the engine preserves the agreement of broker and runner.
LEMMA OwnershipStep ==
    ASSUME TypeOK, Ownership, [Next]_vars
    PROVE  Ownership'
<1> USE ConstantsAssumption DEF ConstantsAssumption
<1> USE DEF Buffered, Working, Idle, brokerVars, procVars, warmVars, streamVars
<1> DEFINE Same == UNCHANGED <<broker, channel, main, delivery>>
<1>0. CASE Same
  BY <1>0 DEF Ownership, DownIsEmpty, ClosedOwesNothing, NackedIsDropped,
              DeliveryOwned, RefusedOnlyByMalformed
<1>1. ASSUME NEW j \in Jobs, Submit(j) PROVE Ownership'
  BY <1>1 DEF Submit, TypeOK, Ownership, DownIsEmpty, ClosedOwesNothing, NackedIsDropped,
              DeliveryOwned, RefusedOnlyByMalformed
<1>2. ASSUME NEW j \in Jobs, Deliver(j) PROVE Ownership'
  <2>1. DownIsEmpty' /\ ClosedOwesNothing' /\ NackedIsDropped' /\ RefusedOnlyByMalformed'
    BY <1>2 DEF Deliver, TypeOK, Ownership, DownIsEmpty, ClosedOwesNothing, NackedIsDropped,
                RefusedOnlyByMalformed
  <2>2. DeliveryOwned'
    BY <1>2 DEF Deliver, TypeOK, Ownership, DeliveryOwned
  <2> QED BY <2>1, <2>2 DEF Ownership
<1>3. ASSUME NEW j \in Jobs, MainReceive(j) PROVE Ownership'
  BY <1>3, StageOwnership DEF MainReceive
<1>4. CASE Pipe
  <2>1. ASSUME NEW j \in Jobs, PipeTake(j) PROVE Ownership'
    BY <2>1, StageOwnership DEF PipeTake
  <2>2. ASSUME DropBuffered, UNCHANGED <<broker, channel, main>>, channel # "open"
        PROVE  Ownership'
    BY <2>2 DEF DropBuffered, TypeOK, Ownership, DownIsEmpty, ClosedOwesNothing,
                NackedIsDropped, DeliveryOwned, RefusedOnlyByMalformed
  <2>3. ASSUME PipeCancelled, Close("closed"), channel = "open" PROVE Ownership'
    <3>1. DownIsEmpty' /\ \A j \in Jobs : delivery'[j] = "nacked" => j \in Malformed
      BY <2>3 DEF PipeCancelled, DropBuffered, Ownership, DownIsEmpty, NackedIsDropped
    <3> QED BY <2>3, <3>1, CloseOwnership
  <2> QED BY <1>4, <2>1, <2>2, <2>3 DEF Pipe, PipeCancelled, PipeClosed
<1>5. CASE Producer
  BY <1>5, <1>0 DEF Producer, ProducerStart, ProducerCreates, ProducerFails, ProducerSends,
                    ProducerCancelled
<1>6. CASE MainCancelled
  BY <1>6 DEF MainCancelled, Ownership, DownIsEmpty, ClosedOwesNothing, NackedIsDropped,
              DeliveryOwned, RefusedOnlyByMalformed
<1>7. CASE MainReturns
  BY <1>7, ProcessEndsOwnership DEF MainReturns
<1>8. ASSUME NEW j \in Jobs, WorkerStep(j) PROVE Ownership'
  <2>1. CASE WorkerTakes(j)
    BY <2>1, StageOwnership DEF WorkerTakes
  <2>2. CASE WorkerTimesOut(j)
    BY <2>2, StageOwnership DEF WorkerTimesOut
  <2>3. CASE WorkerCreates(j)
    BY <2>3, StageOwnership DEF WorkerCreates
  <2>4. CASE WorkerCreateFails(j)
    BY <2>4, StageOwnership DEF WorkerCreateFails
  <2>5. CASE ParseOk(j)
    BY <2>5, StageOwnership DEF ParseOk
  <2>6. CASE ParseFails(j)
    <3>1. main # "down"
      BY <2>6 DEF ParseFails, Ownership, DownIsEmpty
    <3>2. CASE channel # "open"
      BY <2>6, <3>1, <3>2 DEF ParseFails, Settle, TypeOK, Ownership, DownIsEmpty,
            ClosedOwesNothing, NackedIsDropped, DeliveryOwned, RefusedOnlyByMalformed
    <3>3. CASE channel = "open"
      <4>1. broker[j] = "unacked"
        BY <2>6, <3>3 DEF ParseFails, Ownership, DeliveryOwned
      <4>2. /\ broker' = [broker EXCEPT ![j] = "dropped"] /\ channel' = "open"
            /\ delivery' = [delivery EXCEPT ![j] = "nacked"]
            /\ j \in Malformed /\ main' = main
        BY <2>6, <3>3, <4>1 DEF ParseFails, Settle
      <4> QED BY <3>1, <3>3, <4>2 DEF TypeOK, Ownership, DownIsEmpty,
            ClosedOwesNothing, NackedIsDropped, DeliveryOwned, RefusedOnlyByMalformed
    <3> QED BY <3>2, <3>3
  <2>7. CASE NackAgain(j)
    <3>1. main # "down" /\ j \in Malformed
      BY <2>7 DEF NackAgain, Ownership, DownIsEmpty, NackedIsDropped
    <3>2. CASE channel # "open"
      BY <2>7, <3>1, <3>2 DEF NackAgain, Settle, TypeOK, Ownership, DownIsEmpty,
            ClosedOwesNothing, NackedIsDropped, DeliveryOwned, RefusedOnlyByMalformed
    <3>3. CASE channel = "open"
      <4>1. broker[j] = "dropped"
        BY <2>7, <3>3 DEF NackAgain, Ownership, NackedIsDropped
      <4>2. Close("refused")
        BY <2>7, <3>3, <4>1 DEF NackAgain, Settle
      <4>3. DownIsEmpty' /\ \A i \in Jobs : delivery'[i] = "nacked" => i \in Malformed
        BY <2>7, <3>1 DEF NackAgain, TypeOK, Ownership, DownIsEmpty, NackedIsDropped
      <4> QED BY <3>1, <4>1, <4>2, <4>3, CloseOwnership
    <3> QED BY <3>2, <3>3
  <2>8. CASE OrchestrateFails(j)
    BY <2>8, StageOwnership DEF OrchestrateFails
  <2>9. CASE SendSpec(j) \/ DirFails(j) \/ ExecStarts(j)
    BY <2>9, StageOwnership DEF SendSpec, DirFails, ExecStarts
  <2>10. CASE OrchestratePanics(j)
    BY <2>10, ProcessEndsOwnership DEF OrchestratePanics
  <2>11. CASE ExecExits(j)
    BY <2>11, StageOwnership DEF ExecExits
  <2>12. CASE ExecTimesOut(j) \/ ExecFails(j)
    BY <2>12, StageOwnership DEF ExecTimesOut, ExecFails
  <2>13. CASE Ack(j)
    <3>1. main # "down"
      BY <2>13 DEF Ack, Ownership, DownIsEmpty
    <3>2. CASE channel # "open"
      BY <2>13, <3>1, <3>2 DEF Ack, Settle, TypeOK, Ownership, DownIsEmpty,
            ClosedOwesNothing, NackedIsDropped, DeliveryOwned, RefusedOnlyByMalformed
    <3>3. CASE channel = "open"
      <4>1. broker[j] = "unacked"
        BY <2>13, <3>3 DEF Ack, Ownership, DeliveryOwned
      <4>2. /\ broker' = [broker EXCEPT ![j] = "acked"] /\ channel' = "open"
            /\ delivery' = [delivery EXCEPT ![j] = "done"] /\ main' = main
        BY <2>13, <3>3, <4>1 DEF Ack, Settle
      <4> QED BY <3>1, <3>3, <4>2 DEF TypeOK, Ownership, DownIsEmpty,
            ClosedOwesNothing, NackedIsDropped, DeliveryOwned, RefusedOnlyByMalformed
    <3> QED BY <3>2, <3>3
  <2> QED BY <1>8, <2>1, <2>2, <2>3, <2>4, <2>5, <2>6, <2>7, <2>8, <2>9, <2>10,
             <2>11, <2>12, <2>13 DEF WorkerStep
<1>9. ASSUME NEW j \in Jobs, AgentAnswers(j) \/ AgentDies(j) \/ Reader(j) PROVE Ownership'
  BY <1>9, <1>0 DEF AgentAnswers, AgentDies, Reader, ReaderForwards, ReaderEnds
<1>10. CASE Environment
  <2>1. CASE Crash
    BY <2>1, ProcessEndsOwnership DEF Crash
  <2>2. CASE Cancel
    BY <2>2, <1>0 DEF Cancel
  <2>3. CASE Disconnect
    <3>1. Close("lost") /\ DownIsEmpty' /\ UNCHANGED delivery
      BY <2>3 DEF Disconnect, Close, Ownership, DownIsEmpty
    <3> QED BY <3>1, CloseOwnership DEF Ownership, NackedIsDropped
  <2>4. CASE Restart
    BY <2>4 DEF Restart, Ownership, DownIsEmpty, ClosedOwesNothing, NackedIsDropped,
                DeliveryOwned, RefusedOnlyByMalformed
  <2> QED BY <1>10, <2>1, <2>2, <2>3, <2>4 DEF Environment
<1>11. CASE UNCHANGED vars
  BY <1>11, <1>0 DEF vars
<1> QED BY <1>1, <1>2, <1>3, <1>4, <1>5, <1>6, <1>7, <1>8, <1>9, <1>10, <1>11 DEF Next, Main

\* Before the first start nobody owns anything.
LEMMA OwnershipInit == ASSUME Init PROVE Ownership
BY DEF Init, Ownership, DownIsEmpty, ClosedOwesNothing, NackedIsDropped, DeliveryOwned,
       RefusedOnlyByMalformed

-----------------------------------------------------------------------------
(* Containers *)

\* generateContainerID gives a new container an id that is not in use.
LEMMA FreshContainer ==
    ASSUME Fresh # {} PROVE NewContainer \in Containers /\ NewContainer \notin InUse
BY DEF Fresh, NewContainer

\* A process that has ended holds no container.
LEMMA ProcessEndsExclusive ==
    ASSUME TypeOK, ProcessEnds PROVE ContainerExclusive'
BY DEF TypeOK, ProcessEnds, ContainerExclusive

\* Every step keeps each warm container with one holder.
LEMMA ExclusiveStep ==
    ASSUME TypeOK, SendingHolds, ContainerExclusive, [Next]_vars
    PROVE  ContainerExclusive'
<1> USE ConstantsAssumption DEF ConstantsAssumption
<1> USE DEF brokerVars, procVars, warmVars, streamVars
<1>0. CASE UNCHANGED <<hand, pool, worker>>
  BY <1>0 DEF ContainerExclusive
<1>1. CASE Producer
  <2>1. CASE ProducerCreates
    <3>1. NewContainer \notin pool /\ \A j \in Jobs : worker[j] # NewContainer
      BY <2>1, FreshContainer DEF ProducerCreates, InUse
    <3> QED BY <2>1, <3>1 DEF ProducerCreates, ContainerExclusive
  <2>2. CASE ProducerSends
    <3>1. hand \in Containers /\ hand # NoContainer
      BY <2>2 DEF ProducerSends, SendingHolds
    <3>2. \A j \in Jobs : worker[j] # hand
      BY <3>1 DEF ContainerExclusive
    <3>3. NoContainer \notin pool
      BY DEF TypeOK
    <3>4. hand' = NoContainer /\ pool' = pool \cup {hand} /\ worker' = worker
      BY <2>2 DEF ProducerSends
    <3> QED BY <3>1, <3>2, <3>3, <3>4 DEF ContainerExclusive
  <2>3. CASE ProducerCancelled
    BY <2>3 DEF ProducerCancelled, ContainerExclusive, TypeOK
  <2>4. CASE ProducerStart \/ ProducerFails
    BY <2>4, <1>0 DEF ProducerStart, ProducerFails
  <2> QED BY <1>1, <2>1, <2>2, <2>3, <2>4 DEF Producer
<1>2. ASSUME NEW j \in Jobs, WorkerStep(j) PROVE ContainerExclusive'
  <2>1. CASE WorkerTakes(j)
    <3>1. PICK c \in pool : /\ pool' = pool \ {c}
                            /\ worker' = [worker EXCEPT ![j] = c] /\ hand' = hand
      BY <2>1 DEF WorkerTakes
    <3>2. c # hand /\ \A i \in Jobs : worker[i] # c
      BY <3>1 DEF ContainerExclusive
    <3>3. \A i \in Jobs : worker'[i] = IF i = j THEN c ELSE worker[i]
      BY <3>1 DEF TypeOK
    <3> QED BY <3>1, <3>2, <3>3 DEF ContainerExclusive
  <2>2. CASE WorkerCreates(j)
    <3>1. /\ NewContainer \notin pool /\ NewContainer # hand
          /\ \A i \in Jobs : worker[i] # NewContainer
      BY <2>2, FreshContainer DEF WorkerCreates, InUse
    <3>2. /\ \A i \in Jobs : worker'[i] = IF i = j THEN NewContainer ELSE worker[i]
          /\ pool' = pool /\ hand' = hand
      BY <2>2 DEF WorkerCreates, TypeOK
    <3> QED BY <3>1, <3>2 DEF ContainerExclusive
  <2>3. CASE OrchestratePanics(j)
    BY <2>3, ProcessEndsExclusive DEF OrchestratePanics
  <2>4. CASE \/ WorkerTimesOut(j) \/ WorkerCreateFails(j) \/ ParseOk(j) \/ ParseFails(j)
             \/ NackAgain(j) \/ OrchestrateFails(j) \/ SendSpec(j) \/ DirFails(j)
             \/ ExecStarts(j) \/ ExecExits(j) \/ ExecTimesOut(j) \/ ExecFails(j) \/ Ack(j)
    BY <2>4, <1>0 DEF WorkerTimesOut, WorkerCreateFails, ParseOk, ParseFails, NackAgain,
          OrchestrateFails, SendSpec, DirFails, ExecStarts, ExecExits, ExecTimesOut,
          ExecFails, Ack
  <2> QED BY <1>2, <2>1, <2>2, <2>3, <2>4 DEF WorkerStep
<1>3. CASE MainReturns \/ Crash
  BY <1>3, ProcessEndsExclusive DEF MainReturns, Crash
<1>4. ASSUME NEW j \in Jobs, \/ Submit(j) \/ Deliver(j) \/ MainReceive(j)
                             \/ AgentAnswers(j) \/ AgentDies(j) \/ Reader(j)
      PROVE ContainerExclusive'
  BY <1>4, <1>0 DEF Submit, Deliver, MainReceive, AgentAnswers, AgentDies, Reader,
                    ReaderForwards, ReaderEnds
<1>5. CASE Pipe \/ MainCancelled
  BY <1>5, <1>0 DEF Pipe, PipeTake, PipeCancelled, PipeClosed, MainCancelled
<1>6. CASE Cancel \/ Disconnect \/ Restart
  BY <1>6, <1>0 DEF Cancel, Disconnect, Restart
<1>7. CASE UNCHANGED vars
  BY <1>7, <1>0 DEF vars
<1> QED BY <1>1, <1>2, <1>3, <1>4, <1>5, <1>6, <1>7 DEF Next, Main, Environment

-----------------------------------------------------------------------------
(* Agents, their readers and finished deliveries *)

\* Stages in which, and after which, a worker may have an agent and a reader.
HasReader == {"executing", "acking", "done"}
HasAgent == {"preparing", "executing"}

\* A process that is down has no agents.
DownHasNoAgents == main = "down" => \A j \in Jobs : agent[j] = "none"

\* Nobody reads a socket before ExecSubm does.
NotYetRead == \A j \in Jobs : delivery[j] \notin HasReader => reader[j] = "none"

\* An agent that judges has a reader, unless ExecSubm was not reached.
JudgingRead ==
    \A j \in Jobs : agent[j] = "judging" =>
        \/ reader[j] = "open"
        \/ reader[j] = "none" /\ (delivery[j] = "preparing" \/ faults > 0)

AgentsRead ==
    /\ DownHasNoAgents
    /\ NotYetRead
    /\ JudgingRead
    /\ ResultKept
    /\ NoAgentLeftRunning

\* What a worker is done with has left the queue, while its channel is open.
DoneIsAcked ==
    channel = "open" => \A j \in Jobs : delivery[j] = "done" => broker[j] = "acked"

\* Every step keeps what is done out of the queue.
LEMMA DoneStep ==
    ASSUME TypeOK, Ownership, DoneIsAcked, [Next]_vars
    PROVE  DoneIsAcked'
<1> USE DEF brokerVars, procVars, warmVars, streamVars
<1>0. ASSUME UNCHANGED <<broker, channel>>,
             \A j \in Jobs : delivery'[j] = "done" => delivery[j] = "done"
      PROVE  DoneIsAcked'
  BY <1>0 DEF DoneIsAcked
<1>1. ASSUME channel' # "open" PROVE DoneIsAcked'
  BY <1>1 DEF DoneIsAcked
<1>2. ASSUME NEW j \in Jobs, Submit(j) PROVE DoneIsAcked'
  BY <1>2 DEF Submit, DoneIsAcked, TypeOK
<1>3. ASSUME NEW j \in Jobs, Deliver(j) PROVE DoneIsAcked'
  BY <1>3 DEF Deliver, DoneIsAcked, TypeOK
<1>4. ASSUME NEW j \in Jobs, MainReceive(j) \/ PipeTake(j) PROVE DoneIsAcked'
  BY <1>4, <1>0 DEF MainReceive, PipeTake, TypeOK
<1>5. CASE PipeCancelled \/ PipeClosed
  <2>1. \A j \in Jobs : delivery'[j] = "done" => delivery[j] = "done"
    BY <1>5 DEF PipeCancelled, PipeClosed, DropBuffered
  <2> QED BY <1>5, <2>1, <1>0, <1>1 DEF PipeCancelled, PipeClosed, Close
<1>6. CASE Producer \/ MainCancelled \/ Cancel
  BY <1>6, <1>0 DEF Producer, ProducerStart, ProducerCreates, ProducerFails, ProducerSends,
     ProducerCancelled, MainCancelled, Cancel
<1>7. ASSUME NEW j \in Jobs, WorkerStep(j) PROVE DoneIsAcked'
  <2>1. CASE \/ WorkerTakes(j) \/ WorkerTimesOut(j) \/ WorkerCreates(j)
             \/ WorkerCreateFails(j) \/ ParseOk(j) \/ OrchestrateFails(j)
             \/ SendSpec(j) \/ DirFails(j) \/ ExecStarts(j) \/ ExecExits(j)
             \/ ExecTimesOut(j) \/ ExecFails(j)
    BY <2>1, <1>0 DEF WorkerTakes, WorkerTimesOut, WorkerCreates, WorkerCreateFails, ParseOk,
       OrchestrateFails, SendSpec, DirFails, ExecStarts, ExecExits, ExecTimesOut, ExecFails,
       TypeOK
  <2>2. ASSUME NEW as \in {"dropped", "ready", "acked"}, Settle(j, as),
               \A i \in Jobs \ {j} : delivery'[i] = delivery[i],
               channel = "open" /\ channel' = "open" /\ delivery'[j] = "done" => as = "acked"
        PROVE  DoneIsAcked'
    BY <2>2 DEF Settle, Close, DoneIsAcked, TypeOK
  <2>3. CASE ParseFails(j) \/ NackAgain(j) \/ Ack(j)
    BY <2>3, <2>2 DEF ParseFails, NackAgain, Ack, TypeOK
  <2>4. CASE OrchestratePanics(j)
    BY <2>4, <1>1 DEF OrchestratePanics, ProcessEnds, Close
  <2> QED BY <1>7, <2>1, <2>3, <2>4 DEF WorkerStep
<1>8. ASSUME NEW j \in Jobs, AgentAnswers(j) \/ AgentDies(j) \/ Reader(j) PROVE DoneIsAcked'
  BY <1>8, <1>0 DEF AgentAnswers, AgentDies, Reader, ReaderForwards, ReaderEnds
<1>9. CASE MainReturns \/ Crash \/ Disconnect
  BY <1>9, <1>1 DEF MainReturns, Crash, Disconnect, ProcessEnds, Close
<1>10. CASE Restart
  BY <1>10 DEF Restart, DoneIsAcked, Ownership, DownIsEmpty
<1>11. CASE UNCHANGED vars
  BY <1>11, <1>0 DEF vars
<1> QED BY <1>2, <1>3, <1>4, <1>5, <1>6, <1>7, <1>8, <1>9, <1>10, <1>11
        DEF Next, Main, Pipe, Environment

\* Only what this process has never seen is delivered to it.
LEMMA DeliveryStep ==
    ASSUME TypeOK, Ownership, DoneIsAcked, [Next]_vars, NEW j \in Jobs,
           delivery[j] # "none", delivery'[j] = "buffered"
    PROVE  delivery[j] = "buffered"
<1> USE DEF brokerVars, procVars, warmVars, streamVars
<1>1. ASSUME NEW i \in Jobs, Deliver(i) PROVE delivery[j] = "buffered"
  <2>1. CASE i = j
    <3>1. channel = "open" /\ broker[j] = "ready"
      BY <1>1, <2>1 DEF Deliver
    <3> QED BY <3>1 DEF Ownership, DeliveryOwned, DoneIsAcked, NackedIsDropped, Idle
  <2>2. CASE i # j
    BY <1>1, <2>2 DEF Deliver, TypeOK
  <2> QED BY <2>1, <2>2
<1>2. ASSUME NEW i \in Jobs, \/ Submit(i) \/ MainReceive(i) \/ PipeTake(i)
                             \/ AgentAnswers(i) \/ AgentDies(i) \/ Reader(i)
      PROVE  delivery[j] = "buffered"
  BY <1>2 DEF Submit, MainReceive, PipeTake, AgentAnswers, AgentDies, Reader, ReaderForwards,
     ReaderEnds, TypeOK
<1>3. CASE PipeCancelled \/ PipeClosed
  BY <1>3 DEF PipeCancelled, PipeClosed, DropBuffered
<1>4. CASE Producer \/ MainCancelled \/ Cancel \/ Disconnect \/ Restart \/ UNCHANGED vars
  BY <1>4 DEF Producer, ProducerStart, ProducerCreates, ProducerFails, ProducerSends,
     ProducerCancelled, MainCancelled, Cancel, Disconnect, Restart, vars
<1>5. ASSUME NEW i \in Jobs, WorkerStep(i) PROVE delivery[j] = "buffered"
  <2>1. CASE OrchestratePanics(i)
    BY <2>1 DEF OrchestratePanics, ProcessEnds
  <2>2. CASE ~OrchestratePanics(i)
    BY <1>5, <2>2 DEF WorkerStep, WorkerTakes, WorkerTimesOut, WorkerCreates,
       WorkerCreateFails, ParseOk, ParseFails, NackAgain, OrchestrateFails,
       SendSpec, DirFails, ExecStarts, ExecExits, ExecTimesOut, ExecFails, Ack, TypeOK
  <2> QED BY <2>1, <2>2
<1>6. CASE MainReturns \/ Crash
  BY <1>6 DEF MainReturns, Crash, ProcessEnds
<1> QED BY <1>1, <1>2, <1>3, <1>4, <1>5, <1>6 DEF Next, Main, Pipe, Environment

\* Agents that run on are finitely many.
LEMMA LeftFinite == IsFiniteSet(LeftRunning) /\ Cardinality(LeftRunning) \in Nat
<1>1. LeftRunning \subseteq Jobs /\ IsFiniteSet(Jobs)
  BY ConstantsAssumption DEF ConstantsAssumption, LeftRunning
<1>2. IsFiniteSet(LeftRunning)
  BY <1>1, FS_Subset
<1> QED BY <1>2, FS_CardinalityType

\* A step that leaves no other agent running keeps the bound.
LEMMA NoMoreLeft ==
    ASSUME TypeOK, NoAgentLeftRunning, LeftRunning' \subseteq LeftRunning,
           cancelled => cancelled', faults' \in Nat, faults' >= faults
    PROVE  NoAgentLeftRunning'
<1>1. Cardinality(LeftRunning') \in Nat /\ Cardinality(LeftRunning') <= Cardinality(LeftRunning)
  BY LeftFinite, FS_Subset, FS_CardinalityType
<1>2. Cardinality(LeftRunning) \in Nat /\ faults \in Nat
  BY LeftFinite DEF TypeOK
<1> QED BY <1>1, <1>2 DEF NoAgentLeftRunning

\* A failed call leaves one more, and is counted.
LEMMA OneMoreLeft ==
    ASSUME TypeOK, NoAgentLeftRunning, NEW j, LeftRunning' \subseteq LeftRunning \cup {j},
           cancelled => cancelled', faults' = faults + 1
    PROVE  NoAgentLeftRunning'
<1> DEFINE More == LeftRunning \cup {j}
<1>1. /\ IsFiniteSet(More)
      /\ Cardinality(More) <= Cardinality(LeftRunning) + 1
  BY LeftFinite, FS_AddElement
<1>2. Cardinality(More) \in Nat
  BY <1>1, FS_CardinalityType
<1>3. Cardinality(LeftRunning') \in Nat /\ Cardinality(LeftRunning') <= Cardinality(More)
  BY <1>1, FS_Subset, FS_CardinalityType
<1>4. Cardinality(LeftRunning) \in Nat /\ faults \in Nat
  BY LeftFinite DEF TypeOK
<1> HIDE DEF More
<1> QED BY <1>1, <1>2, <1>3, <1>4 DEF NoAgentLeftRunning

\* A step that leaves the agents and their readers alone.
LEMMA AgentsQuiet ==
    ASSUME TypeOK, AgentsRead, UNCHANGED streamVars,
           main' = "down" => main = "down", cancelled => cancelled',
           channel = "lost" => channel' = "lost",
           faults' \in Nat, faults' >= faults,
           \A j \in Jobs : delivery[j] \in HasAgent => delivery'[j] = delivery[j],
           \A j \in Jobs : delivery[j] \in HasReader => delivery'[j] \in HasReader
    PROVE  AgentsRead'
<1>1. DownHasNoAgents' /\ NotYetRead'
  BY DEF AgentsRead, DownHasNoAgents, NotYetRead, streamVars
<1>2. faults > 0 => faults' > 0
  BY DEF TypeOK
<1>3. JudgingRead' /\ ResultKept'
  BY <1>2 DEF AgentsRead, JudgingRead, ResultKept, HasAgent, streamVars
<1>4. LeftRunning' \subseteq LeftRunning
  BY DEF LeftRunning, HasAgent, streamVars
<1>5. NoAgentLeftRunning'
  BY <1>4, NoMoreLeft DEF AgentsRead
<1> QED BY <1>1, <1>3, <1>5 DEF AgentsRead

\* The agents of a process that has ended are nobody's.
LEMMA ProcessEndsAgents ==
    ASSUME ProcessEnds, faults' \in Nat PROVE AgentsRead'
<1>1. \A j \in Jobs : agent'[j] = "none" /\ reader'[j] = "none"
  BY DEF ProcessEnds
<1>2. LeftRunning' = {}
  BY <1>1 DEF LeftRunning
<1>3. NoAgentLeftRunning'
  BY <1>2, FS_EmptySet DEF NoAgentLeftRunning
<1> QED BY <1>1, <1>3 DEF AgentsRead, DownHasNoAgents, NotYetRead, JudgingRead, ResultKept

\* Ack and Nack leave a lost connection lost.
LEMMA SettleLost ==
    ASSUME NEW j, NEW as, Settle(j, as), channel = "lost" PROVE channel' = "lost"
BY DEF Settle, brokerVars

\* Every step keeps a reader at each agent until its RESULT is out, and counts the
\* agents it leaves running.
LEMMA AgentsStep ==
    ASSUME TypeOK, Ownership, DoneIsAcked, AgentsRead, [Next]_vars, TypeOK'
    PROVE  AgentsRead'
<1> USE DEF brokerVars, procVars, warmVars
<1>0. faults \in Nat /\ faults' \in Nat /\ faults >= faults /\ faults + 1 >= faults
  BY DEF TypeOK
<1>1. ASSUME NEW j \in Jobs, Submit(j) PROVE AgentsRead'
  BY <1>0, <1>1, AgentsQuiet DEF Submit
<1>2. ASSUME NEW j \in Jobs, MainReceive(j) PROVE AgentsRead'
  BY <1>0, <1>2, AgentsQuiet DEF MainReceive, TypeOK, HasAgent, HasReader
<1>3. ASSUME NEW j \in Jobs, Deliver(j) PROVE AgentsRead'
  <2>1. delivery[j] = "none" \/ delivery[j] = "buffered"
    BY <1>3, DeliveryStep DEF Deliver, TypeOK
  <2> QED BY <1>0, <1>3, <2>1, AgentsQuiet DEF Deliver, TypeOK, HasAgent, HasReader
<1>4. CASE Pipe
  <2>1. ASSUME NEW j \in Jobs, PipeTake(j) PROVE AgentsRead'
    BY <1>0, <2>1, AgentsQuiet DEF PipeTake, TypeOK, HasAgent, HasReader
  <2>2. CASE PipeCancelled \/ PipeClosed
    <3>1. \A j \in Jobs : delivery[j] # "buffered" => delivery'[j] = delivery[j]
      BY <2>2 DEF PipeCancelled, PipeClosed, DropBuffered
    <3>2. channel = "lost" => channel' = "lost"
      BY <2>2 DEF PipeCancelled, PipeClosed
    <3> QED BY <1>0, <2>2, <3>1, <3>2, AgentsQuiet
            DEF PipeCancelled, PipeClosed, HasAgent, HasReader
  <2> QED BY <1>4, <2>1, <2>2 DEF Pipe
<1>5. CASE Producer \/ MainCancelled
  <2>1. faults' = faults \/ faults' = faults + 1
    BY <1>5 DEF Producer, ProducerStart, ProducerCreates, ProducerFails, ProducerSends,
       ProducerCancelled, MainCancelled
  <2>2. faults' >= faults
    BY <1>0, <2>1
  <2> QED BY <1>0, <1>5, <2>2, AgentsQuiet DEF Producer, ProducerStart, ProducerCreates,
          ProducerFails, ProducerSends, ProducerCancelled, MainCancelled
<1>6. ASSUME NEW j \in Jobs, WorkerStep(j) PROVE AgentsRead'
  <2>0. \A i \in Jobs : i # j /\ ~OrchestratePanics(j) => delivery'[i] = delivery[i]
    BY <1>6 DEF WorkerStep, WorkerTakes, WorkerTimesOut, WorkerCreates, WorkerCreateFails,
       ParseOk, ParseFails, NackAgain, OrchestrateFails, SendSpec, DirFails, ExecStarts,
       ExecExits, ExecTimesOut, ExecFails, Ack, TypeOK
  <2>1. CASE \/ WorkerTakes(j) \/ WorkerTimesOut(j) \/ WorkerCreates(j)
             \/ ParseOk(j) \/ OrchestrateFails(j)
    BY <1>0, <2>1, AgentsQuiet DEF WorkerTakes, WorkerTimesOut, WorkerCreates,
       ParseOk, OrchestrateFails, TypeOK, HasAgent, HasReader
  <2>2. CASE WorkerCreateFails(j)
    <3>1. faults' >= faults
      BY <1>0, <2>2 DEF WorkerCreateFails
    <3> QED BY <1>0, <2>2, <3>1, AgentsQuiet
            DEF WorkerCreateFails, TypeOK, HasAgent, HasReader
  <2>3. CASE ParseFails(j) \/ NackAgain(j) \/ Ack(j)
    <3>1. channel = "lost" => channel' = "lost"
      BY <2>3, SettleLost DEF ParseFails, NackAgain, Ack
    <3> QED BY <1>0, <2>3, <3>1, AgentsQuiet
            DEF ParseFails, NackAgain, Ack, TypeOK, HasAgent, HasReader
  <2>4. CASE SendSpec(j)
    <3>1. main # "down" /\ main' = main
      BY <2>4 DEF SendSpec, Ownership, DownIsEmpty
    <3>2. reader[j] = "none"
      BY <2>4 DEF SendSpec, AgentsRead, NotYetRead, HasReader
    <3>3. LeftRunning' \subseteq LeftRunning
      BY <2>4 DEF SendSpec, TypeOK, LeftRunning
    <3>4. NoAgentLeftRunning'
      BY <1>0, <2>4, <3>3, NoMoreLeft DEF SendSpec, AgentsRead
    <3>5. NotYetRead' /\ JudgingRead' /\ ResultKept'
      BY <2>4, <3>2 DEF SendSpec, TypeOK, AgentsRead, NotYetRead, HasReader, JudgingRead, ResultKept
    <3> QED BY <3>1, <3>4, <3>5 DEF AgentsRead, DownHasNoAgents
  <2>5. CASE DirFails(j) \/ ExecFails(j)
    <3>1. UNCHANGED <<main, cancelled, channel, agent, reader, published>>
      BY <2>5 DEF DirFails, ExecFails, streamVars
    <3>2. faults' >= faults
      BY <1>0, <2>5 DEF DirFails, Fault, ExecFails
    <3>3. cancelled \/ faults' = faults + 1
      BY <2>5 DEF DirFails, Fault, ExecFails
    <3>4. delivery'[j] = "acking" /\ (delivery[j] = "preparing" => faults' > 0)
      BY <1>0, <2>5 DEF DirFails, Fault, ExecFails, TypeOK
    <3>5. LeftRunning' \subseteq LeftRunning \cup {j}
      BY <2>0, <2>5, <3>1 DEF LeftRunning, DirFails, ExecFails, TypeOK, OrchestratePanics
    <3>6. NoAgentLeftRunning'
      <4>1. CASE cancelled
        BY <3>1, <4>1 DEF NoAgentLeftRunning
      <4>2. CASE faults' = faults + 1
        BY <3>1, <3>5, <4>2, OneMoreLeft DEF AgentsRead
      <4> QED BY <3>3, <4>1, <4>2
    <3>7. faults > 0 => faults' > 0
      BY <1>0, <3>2
    <3>8. \A i \in Jobs : i # j => delivery'[i] = delivery[i]
      BY <2>5 DEF DirFails, ExecFails, TypeOK
    <3>9. JudgingRead' /\ ResultKept'
      BY <3>1, <3>4, <3>7, <3>8 DEF AgentsRead, JudgingRead, ResultKept
    <3>10. DownHasNoAgents' /\ NotYetRead'
      BY <3>1, <3>4, <3>8 DEF AgentsRead, DownHasNoAgents, NotYetRead, HasReader
    <3> QED BY <3>6, <3>9, <3>10 DEF AgentsRead
  <2>6. CASE ExecStarts(j)
    <3>1. LeftRunning' \subseteq LeftRunning
      BY <2>6 DEF ExecStarts, TypeOK, LeftRunning
    <3>2. NoAgentLeftRunning'
      BY <1>0, <2>6, <3>1, NoMoreLeft DEF ExecStarts, AgentsRead
    <3>3. NotYetRead' /\ JudgingRead' /\ ResultKept' /\ DownHasNoAgents'
      BY <2>6 DEF ExecStarts, TypeOK, AgentsRead, NotYetRead, HasReader, JudgingRead,
                  ResultKept, DownHasNoAgents
    <3> QED BY <3>2, <3>3 DEF AgentsRead
  <2>7. CASE OrchestratePanics(j)
    BY <1>0, <2>7, ProcessEndsAgents DEF OrchestratePanics
  <2>8. CASE ExecExits(j) \/ ExecTimesOut(j)
    <3>1. /\ UNCHANGED <<main, cancelled, channel, reader, published, faults>>
          /\ agent'[j] # "judging" /\ delivery[j] = "executing" /\ delivery'[j] = "acking"
          /\ agent'[j] = "result" => agent[j] = "result"
          /\ agent[j] = "none" => agent'[j] = "none"
          /\ \A i \in Jobs : i # j => agent'[i] = agent[i] /\ delivery'[i] = delivery[i]
      BY <2>8 DEF ExecExits, ExecTimesOut, TypeOK, streamVars
    <3>2. LeftRunning' \subseteq LeftRunning
      BY <3>1 DEF LeftRunning
    <3>3. NoAgentLeftRunning'
      BY <1>0, <3>1, <3>2, NoMoreLeft DEF AgentsRead
    <3>4. NotYetRead' /\ JudgingRead' /\ ResultKept' /\ DownHasNoAgents'
      BY <3>1 DEF AgentsRead, NotYetRead, HasReader, JudgingRead, ResultKept, DownHasNoAgents
    <3> QED BY <3>3, <3>4 DEF AgentsRead
  <2> QED BY <1>6, <2>1, <2>2, <2>3, <2>4, <2>5, <2>6, <2>7, <2>8 DEF WorkerStep
<1>7. ASSUME NEW j \in Jobs, AgentAnswers(j) \/ AgentDies(j) PROVE AgentsRead'
  <2>1. LeftRunning' \subseteq LeftRunning
    BY <1>7 DEF AgentAnswers, AgentDies, TypeOK, LeftRunning
  <2>2. NoAgentLeftRunning'
    BY <1>0, <1>7, <2>1, NoMoreLeft DEF AgentAnswers, AgentDies, AgentsRead
  <2>3. NotYetRead' /\ JudgingRead' /\ ResultKept' /\ DownHasNoAgents'
    BY <1>7 DEF AgentAnswers, AgentDies, TypeOK, AgentsRead, NotYetRead, JudgingRead,
       ResultKept, DownHasNoAgents
  <2> QED BY <2>2, <2>3 DEF AgentsRead
<1>8. ASSUME NEW j \in Jobs, Reader(j) PROVE AgentsRead'
  <2>1. LeftRunning' \subseteq LeftRunning
    BY <1>8 DEF Reader, ReaderForwards, ReaderEnds, LeftRunning
  <2>2. NoAgentLeftRunning'
    BY <1>0, <1>8, <2>1, NoMoreLeft DEF Reader, ReaderForwards, ReaderEnds, AgentsRead
  <2>3. NotYetRead' /\ JudgingRead' /\ ResultKept' /\ DownHasNoAgents'
    BY <1>8 DEF Reader, ReaderForwards, ReaderEnds, TypeOK, AgentsRead, NotYetRead,
       JudgingRead, ResultKept, DownHasNoAgents
  <2> QED BY <2>2, <2>3 DEF AgentsRead
<1>9. CASE MainReturns \/ Crash
  BY <1>0, <1>9, ProcessEndsAgents DEF MainReturns, Crash
<1>10. CASE Cancel \/ Disconnect
  <2>1. faults' >= faults
    BY <1>0, <1>10 DEF Cancel, Disconnect, Fault
  <2> QED BY <1>0, <1>10, <2>1, AgentsQuiet DEF Cancel, Disconnect, Close
<1>11. CASE Restart
  <2>1. \A j \in Jobs : agent'[j] = "none" /\ reader' = reader /\ delivery' = delivery
    BY <1>11 DEF Restart, AgentsRead, DownHasNoAgents, streamVars
  <2>2. LeftRunning' \subseteq LeftRunning
    BY <2>1 DEF LeftRunning
  <2>3. NoAgentLeftRunning'
    BY <1>0, <1>11, <2>2, NoMoreLeft DEF Restart, AgentsRead
  <2> QED BY <2>1, <2>3 DEF AgentsRead, NotYetRead, JudgingRead, ResultKept, DownHasNoAgents
<1>12. CASE UNCHANGED vars
  BY <1>0, <1>12, AgentsQuiet DEF vars
<1> QED BY <1>1, <1>2, <1>3, <1>4, <1>5, <1>6, <1>7, <1>8, <1>9, <1>10, <1>11, <1>12
        DEF Next, Main, Environment

-----------------------------------------------------------------------------
(* The contract of the queue *)

\* Closing a channel is JobDelivery giving back what was taken.
LEMMA CloseGivesBack ==
    ASSUME NEW how, Close(how) PROVE Queue!GiveBack
BY DEF Close, Requeued, Queue!GiveBack

\* Every step of the engine is a step of JobDelivery or leaves the queue alone.
LEMMA ContractStep ==
    ASSUME TypeOK, Ownership, [Next]_vars
    PROVE  [Queue!Next]_broker
<1> USE DEF brokerVars, procVars, warmVars, streamVars
<1>0. CASE UNCHANGED broker
  BY <1>0
<1>1. ASSUME NEW how, Close(how) PROVE Queue!Next
  BY <1>1, CloseGivesBack DEF Queue!Next
<1>2. ASSUME NEW j \in Jobs, Submit(j) \/ Deliver(j) PROVE Queue!Next
  BY <1>2 DEF Submit, Deliver, Queue!Next, Queue!Submit, Queue!Take
<1>3. ASSUME NEW j \in Jobs, WorkerStep(j) PROVE [Queue!Next]_broker
  <2>1. CASE ParseFails(j)
    <3>1. CASE broker' = [broker EXCEPT ![j] = "dropped"] /\ broker[j] = "unacked"
      BY <2>1, <3>1 DEF ParseFails, Queue!Next, Queue!Reject
    <3> QED BY <2>1, <3>1, <1>0, <1>1 DEF ParseFails, Settle
  <2>2. CASE NackAgain(j)
    <3>1. channel = "open" => broker[j] # "unacked"
      BY <2>2 DEF NackAgain, Ownership, NackedIsDropped
    <3> QED BY <2>2, <3>1, <1>0, <1>1 DEF NackAgain, Settle
  <2>3. CASE Ack(j)
    <3>1. CASE broker' = [broker EXCEPT ![j] = "acked"] /\ broker[j] = "unacked"
      BY <3>1 DEF Queue!Next, Queue!Finish
    <3> QED BY <2>3, <3>1, <1>0, <1>1 DEF Ack, Settle
  <2>4. CASE OrchestratePanics(j)
    BY <2>4, <1>1 DEF OrchestratePanics, ProcessEnds
  <2>5. CASE \/ WorkerTakes(j) \/ WorkerTimesOut(j) \/ WorkerCreates(j)
             \/ WorkerCreateFails(j) \/ ParseOk(j) \/ OrchestrateFails(j)
             \/ SendSpec(j) \/ DirFails(j) \/ ExecStarts(j) \/ ExecExits(j)
             \/ ExecTimesOut(j) \/ ExecFails(j)
    BY <2>5 DEF WorkerTakes, WorkerTimesOut, WorkerCreates, WorkerCreateFails, ParseOk,
          OrchestrateFails, SendSpec, DirFails, ExecStarts, ExecExits, ExecTimesOut, ExecFails
  <2> QED BY <1>3, <2>1, <2>2, <2>3, <2>4, <2>5 DEF WorkerStep
<1>4. CASE MainReturns \/ Crash \/ Disconnect
  BY <1>4, <1>1 DEF MainReturns, Crash, Disconnect, ProcessEnds
<1>5. CASE Pipe
  BY <1>5, <1>0, <1>1 DEF Pipe, PipeTake, PipeCancelled, PipeClosed
<1>6. CASE Producer \/ MainCancelled \/ Cancel \/ Restart
  BY <1>6 DEF Producer, ProducerStart, ProducerCreates, ProducerFails, ProducerSends,
              ProducerCancelled, MainCancelled, Cancel, Restart
<1>7. ASSUME NEW j \in Jobs, MainReceive(j) \/ AgentAnswers(j) \/ AgentDies(j) \/ Reader(j)
      PROVE UNCHANGED broker
  BY <1>7 DEF MainReceive, AgentAnswers, AgentDies, Reader, ReaderForwards, ReaderEnds
<1>8. CASE UNCHANGED vars
  BY <1>8 DEF vars
<1> QED BY <1>2, <1>3, <1>4, <1>5, <1>6, <1>7, <1>8 DEF Next, Main, Environment

-----------------------------------------------------------------------------
(* The theorems *)

\* IInv holds in every state the engine reaches (Init, crashes, restarts and
\* shutdowns of InitRunner included).
THEOREM Inductive == Spec => []IInv
<1>1. Init => IInv
  <2>1. Init => ContainerExclusive
    BY DEF Init, ContainerExclusive
  <2> QED BY <2>1, TypeInit, OwnershipInit DEF IInv
<1>2. IInv /\ [Next]_vars => IInv'
  BY TypeStep, OwnershipStep, ExclusiveStep DEF IInv
<1> QED BY <1>1, <1>2, PTL DEF Spec

\* Every variable of the engine keeps its range.
THEOREM TypeCorrect == Spec => []TypeOK
<1>1. IInv => TypeOK
  BY DEF IInv
<1> QED BY <1>1, Inductive, PTL

\* The broker and the runner agree on who owns a job while the channel is open.
THEOREM Owned == Spec => []DeliveryOwned
<1>1. IInv => DeliveryOwned
  BY DEF IInv, Ownership
<1> QED BY <1>1, Inductive, PTL

\* Only a malformed message makes the broker refuse the runner.
THEOREM Refused == Spec => []RefusedOnlyByMalformed
<1>1. IInv => RefusedOnlyByMalformed
  BY DEF IInv, Ownership
<1> QED BY <1>1, Inductive, PTL

\* A warm container never has two holders: submissions do not share containers.
THEOREM Exclusive == Spec => []ContainerExclusive
<1>1. IInv => ContainerExclusive
  BY DEF IInv
<1> QED BY <1>1, Inductive, PTL

\* The runner keeps the contract of the job queue: every step of it is a step
\* of JobDelivery or leaves the queue alone.
THEOREM Contract == Spec => QueueContract
<1>1. Init => Queue!Init
  BY DEF Init, Queue!Init
<1>2. IInv /\ [Next]_vars => [Queue!Next]_broker
  BY ContractStep DEF IInv
<1> QED BY <1>1, <1>2, Inductive, PTL DEF Spec, QueueContract, Queue!Spec

\* Agents have readers, or a failed call to account for, and finished deliveries
\* have left the queue, in every reachable state.
THEOREM Agents == Spec => [](AgentsRead /\ DoneIsAcked)
<1>1. Init => AgentsRead /\ DoneIsAcked
  <2>1. ASSUME Init PROVE NoAgentLeftRunning
    <3>1. LeftRunning = {}
      BY <2>1 DEF Init, LeftRunning
    <3> QED BY <2>1, <3>1, FS_EmptySet DEF Init, NoAgentLeftRunning
  <2> QED BY <2>1 DEF Init, AgentsRead, DownHasNoAgents, NotYetRead, JudgingRead, ResultKept,
          DoneIsAcked
<1>2. IInv /\ IInv' /\ (AgentsRead /\ DoneIsAcked) /\ [Next]_vars => (AgentsRead /\ DoneIsAcked)'
  BY AgentsStep, DoneStep DEF IInv
<1> QED BY <1>1, <1>2, Inductive, PTL DEF Spec

\* A RESULT line is read until it is published, whatever became of the worker
\* and of the delivery, unless OrchestrateSubm failed before ExecSubm.
THEOREM Kept == Spec => []ResultKept
<1>1. AgentsRead => ResultKept
  BY DEF AgentsRead
<1> QED BY <1>1, Agents, PTL

\* As many agents run on after their workers as calls failed, and no more,
\* unless ctx is cancelled.
THEOREM NoneLeftRunning == Spec => []NoAgentLeftRunning
<1>1. AgentsRead => NoAgentLeftRunning
  BY DEF AgentsRead
<1> QED BY <1>1, Agents, PTL

\* The broker never hands a job twice to one life of the process.
THEOREM Once == Spec => DeliveredOnce
<1>1. IInv /\ DoneIsAcked /\ [Next]_vars =>
          [\A j \in Jobs : delivery[j] # "none" /\ delivery'[j] = "buffered"
                               => delivery[j] = "buffered"]_vars
  BY DeliveryStep DEF IInv
<1> QED BY <1>1, Inductive, Agents, PTL DEF Spec, DeliveredOnce

\* Each job has one owner, who settles it once.
THEOREM Settled == Spec => []SettledByOwner
BY Owned, Refused, PTL DEF SettledByOwner

\* What OrchestrateSubm leaves behind is in order: a RESULT has its reader and no
\* agent runs on, but for the failed calls and a cancelled ctx.
THEOREM InOrder == Spec => []LeftInOrder
BY Kept, NoneLeftRunning, PTL DEF LeftInOrder
=============================================================================
