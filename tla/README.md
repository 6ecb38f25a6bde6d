# AlpineJudge in TLA+

A verification project for AlpineJudge: TLA+ modules translated from its Go
source, TLC runs that check them on small instances, and theorems that TLAPS
proves for every instance. Paths below are relative to `src/`.

    tlc -workers 2 -config MCRunnerEngine_faults.cfg MCRunnerEngine
    tlapm RunnerEngineProofs.tla

`PROJECT.json` is the index: components, runs, mutants, the map from definitions
to source lines, findings, hazards and theorems.

## The system

AlpineJudge judges programs. A client submits a program to the *dispatcher*
(HTTP), which publishes it to a RabbitMQ job queue. A *runner* consumes the queue,
pairs each job with a warm container, sends an execution specification to the
*agent* in the container over a Unix socket, and forwards the events that the
agent streams back (UESP) to a RabbitMQ exchange, from which the dispatcher
relays them to the client (SSE). Tests and logs live in S3.

| component | state | operations | what is hard |
|---|---|---|---|
| runner engine, `runner/pkg/engine.go` | unbuffered `localqueue`, buffered `containerQueue`, a goroutine per delivery, `wg`, `ctx` | consume, produce containers, pair, parse, orchestrate, settle, shut down | four kinds of goroutines, settling a message once, nil container after a failed creation, shutdown, crash and redelivery |
| RabbitMQ client, `shared/rmqmanager.go` | connection, publisher channel, a channel and a goroutine per subscription | dial, Subscribe, SubscribeToExchange, Publish, PublishToExchange | closed channels, lost connection, prefetch 0 |
| orchestration, `runner/pkg/orchestrator.go`, `runner/internal/preparation.go` | `/tmp/runner/testsets`, `/tmp/runner/submissions` | download, prepare, send the specification, ExecSubm | directory shared by all containers, partial downloads |
| execution, `runner/internal/exesubmission.go`, `router.go` | reader goroutine, timeout | scan, publish, upload, wait, kill | the reader outlives ExecSubm, over-long lines, kill in mid-line, uploads out of order |
| agent, `ajagent/internal/ajagent.go` | index, count, all-correct flag | read, compile, run tests, RESULT | one RESULT, last, and the right one |
| one test, `ajagent/internal/runtest.go`, `sighandler.go` | process, context, two writers | start, wait, decide | limit, deadline, kill and exit race in a select |
| limit writer, `ajagent/internal/limitwriter.go` | limit, written, buffer, flag | Write, LimitReached | boundaries |
| warm containers, `runner/internal/warmcontainer.go` | slot counter, containerd, slot sockets | create | several creators at a time, accept without a deadline, clean-up after a failed call, slots reused after a restart |
| dispatcher, `dispatcher/internal/*.go` | HTTP server, S3 | submit, presign, SSE | validation not atomic with publication, no confirms, subscription leaks |
| SDK, `sdk/src/alpinejudge/client.py` | HTTP client | upload a testset, submit, listen | a testset is uploaded file by file, events before the subscription are lost |

Correct means: a job that reaches the queue is settled, once, by somebody who
had it (engine); two submissions never share a container (engine), and a container
talks to its own agent (warm containers); a submission is judged by its own source
and a whole testset, whoever else uses the same directories (orchestration); an
accepted submission is judged (dispatcher and runner); the events a consumer sees
are those the agent sent, in order (execution); the RESULT
follows from the tests (agent); the verdict of a test is what happened (test);
the kept output is the beginning of the output (writer).

## Modules

| module | models |
|---|---|
| `JobDelivery` | abstract: what the job queue promises about each job |
| `RunnerEngine` | `InitRunner` with the goroutines it starts, `Subscribe`, the part of RabbitMQ they rely on, crashes and restarts; refines `JobDelivery` |
| `RunnerEngineProofs` | its theorems |
| `EventStream` | abstract: an event stream as UESP allows it |
| `AgentJudge` | `RunnerAgent`; refines `EventStream` |
| `AgentJudgeProofs` | its theorems |
| `ExecStream`, `ExecStreamProofs` | `ExecSubm`, its reader and uploads, composed with `AgentJudge`, and its theorems |
| `TestCase`, `TestCaseProofs` | `runTestCase` and `signalHandler`, with os/exec, and its theorems |
| `DispatcherSubmit` | `upload_testset` and `submit` of the SDK, `SubmissionReciever`, `ValidateSubmission`, the publication; its queue is `JobDelivery` |
| `Orchestration`, `OrchestrationProofs` | `OrchestrateSubm`, `PrepareExecrules` and the downloads over the directories all jobs share, composed with `DispatcherSubmit`, and its theorems |
| `WarmContainer`, `WarmContainerProofs` | `CreateWarmContainer` called by several goroutines, containerd, the agents that dial, crashes, and its theorems |
| `SSERelay`, `SSERelayProofs` | `submit_and_watch`, `SubmissionReciever`, `SSEHandler`, `SubscribeToExchange`, the direct exchange, and its theorems |
| `LimitWriter`, `LimitWriterProofs` | `LimitExceededWriter`, and its theorems |
| `MC*` | small instances for TLC |

Operators commented "a mistake" are plausible bugs of the definition that follows
them; the index names the property each of them breaks.

### RunnerEngine

`broker[j]` and `channel` are RabbitMQ's side: the state of message *j*, and
whether the consumer channel is open, closed by the runner, refused by the
broker (a protocol error), or lost with its connection. `delivery[j]` is where
*j* is inside the process: `buffered` in the amqp library, `held` by the goroutine
of `Subscribe` that is blocked in `localQueue <- d`, then the program points of
the worker goroutine. Within one life of the process a message is delivered at
most once: it becomes ready again only when the channel closes, and `Subscribe`
is called once per process. So the worker is named by its job; `DeliveredOnce`,
which is checked and proved, says that this is so.

`Settle` is `basic.ack`/`basic.nack`: on a closed channel the library returns an
error that every caller discards; a tag that is not outstanding any more makes
the broker close the channel. A malformed message shows it: `ParseFails` discards
it, `NackAgain` and `Ack` settle it again. `ProcessEnds` is what a crash, a panic
and the return of `Runner` have in common. `OrchestrateSubm` fails before the agent
has its specification (`OrchestrateFails`), panics on the nil container that
`WorkerCreateFails` left, or sends the specification (`SendSpec`). From then on the
agent judges, whatever becomes of the worker: at `preparing` the directory for
the logs may fail to be made (`DirFails`, `orchestrator.go:105-109`), which leaves
an agent that nobody reads and nobody kills, and its job acknowledged; or
`ExecStarts` starts the reader. `ExecSubm` is reduced to waiting for the exit or the
timeout, and the stream to "is the RESULT written, is it published"; `ExecStream`
has the detail. The exit status may be the error of a `Wait` that failed, and the
SIGKILL may fail: `ExecFails` leaves the agent running, with its reader.

A container's identity is one that nobody holds (`generateContainerID` draws
from 10^12); containers nobody refers to are left out, so their ids are reused.

### AgentJudge and EventStream

The program points of `RunnerAgent`, the index, `testCount`, `allCorrect`, and the
events written. Which verdict a test gets is open here: `TestCase` is about that.
`EventStream` says what a stream may be: INFO events until one stops the judging,
then one RESULT that is justified by what came before. `SpeaksUESP` is its
`Spec` with the agent's `sent` as the stream.

### ExecStream

`AgentJudge` from the moment the specification is on its socket, plus the reader,
the uploads and `ExecSubm`. A line is one of `sent`; `LongLimits` compares
the longest line (two streams of `logKB * 1000` bytes, up to six bytes of
JSON each) with the scanner's limit. `torn` is a kill in the middle of a write:
the scanner returns the half line, its JSON is not valid, the error is not looked
at and an empty event is published.
That the SIGKILL at TIMEOUT_SEC succeeds is assumed here, for `ReaderEnds`;
`RunnerEngine` has the kill that fails.

### TestCase and LimitWriter

`TestCase` follows the bytes of the two streams from the program (`out`) through
the copying goroutines of os/exec (`copied`) to the writers (`reached`), and the
four parties that may end the test: the program, the limit, the deadline, the
kill. The select is two steps: it takes any case that is ready when it is
reached, and the first that becomes ready when it waits. `lateKill` is a kill
between exit and wait, which makes `cmd.Wait` answer with the context's error.
The timer of the deadline runs from `runtest.go:24`, before the files are opened
and the program is started, so `Deadline` may happen at any point until the verdict:
a program then may not start at all (an internal error), or the select finds both cases
ready. `Maxrss` is of the waited process alone, so a kill by the kernel says nothing of
`peakKB`: the program may end with any of `PeaksKB`, however it ends. A byte is copied
at a time; how slices are cut is `LimitWriter`'s question.

### SSERelay

One submission, several clients. An event goes from the exchange to every queue
that is bound when it is published (`queue`, which stands for RabbitMQ's queue and
the buffer of the amqp library), to the goroutine of `SubscribeToExchange`
(`hand`), to `SSEHandler` (`current`) and to the response (`written`). `since` is
how many were published before the binding; nobody gets those. The goroutine
runs in the dispatcher's context, not the request's, and does not close
`execEventQueue`: `PipeEnds` and `ClientGone` know nothing of each other.
Disturbances are a client that leaves (the SDK's timeout included), a lost
connection, a shutdown of the dispatcher, and a subscription that fails although the
connection is up (`SubscribeFails`: no channel left, a declaration or a binding
refused). Validation and publication of the
submission are reduced to "accepted" or "refused".

### DispatcherSubmit and Orchestration

One testset id. The keys under it are the tests (test *k* stands for the pair of
files `k.in` and `k.out`, which are uploaded and downloaded one after the other),
`Other`, a file that is neither, and `Marker`, a folder marker. The two halves of the
system count them differently: `CheckS3Dir` takes any key for a testset, and
`DownloadDirFromS3` skips markers, counts the other keys, downloads those of tests,
and fails if it counted none. `upload_testset` asks for a presigned URL, which
changes nothing but what the client knows, and puts the file: `Upload`. So `objects`
grows while submissions are validated: `CheckId` and `CheckTestset` are the two looks
at S3 of `ValidateSubmission`, in its order, and `promised` remembers what was there
at the second. The client names a bucket in its submission. `Own` is the one that the
dispatcher looks into; `Elsewhere` gives the others, with the keys each has under the
same id, which nobody checks and the runner downloads. `Accept` is `Publish`, which
returns nil once the frames are on the socket: with a failure the message never
reaches the queue.

The queue between both halves is `JobDelivery`, whose refinement by `RunnerEngine`
is checked and proved: `Orchestration` uses its actions for the queue's state and
leaves the engine out. A worker is named by its job and walks through
`OrchestrateSubm`: write the source, look whether the directory of the testset is
empty, list and download file by file (`round` 1, skipped when it is not empty),
list and download again in `PrepareExecrules` (`round` 2), send the specification,
wait for the agent, acknowledge. The directory is keyed by the testset's id alone.
`disk[k]` is what a test's files in it hold: nothing, a part, the content of the one
bucket, or bytes of two. `writer[k]` is the job whose `os.Create` truncated them last.
When somebody else has truncated the file of a download meanwhile, `Overwrite` is a
write of its bytes into the other's file, and `Copied` all that the file may hold
when `io.Copy` returns. `Fails` is every return with an error before the
specification is sent; the acknowledgement follows all of them (`engine.go:146`).
The agent is a party of its own, reduced to what it reads: the source once, and the
tests from 1 to the first that is missing. It goes on without its worker when the
directory for the logs could not be made (second disjunct of `Send`) and when its exit
is reported wrongly or the kill fails (`WaitFails`). `failed` are the jobs one of whose
calls has failed. `Crash` is the end of the process and its start by systemd in one
step, because nothing of the runner's happens in between; the directories in
`/tmp/runner` stay, and the agents of the dead process are not followed: their
sockets are gone, and they write in no shared directory. The dispatcher has no crash:
it keeps no state between requests. `Store` is the upload of a log, which is what
makes an id known to the validator; it may come after the crash of the process that
started it. A listing is one page, and a file that is uploaded a second time with
other content is not modelled.

### WarmContainer

`CreateWarmContainer` call by call, in several goroutines (the producer, and the
workers whose wait for a container timed out). `slotCounter` gives each creation
of a process a number, and the number names the socket; `listener[s]` is whose
listener the socket file leads to. A container is named when it is made, and
`state` follows it, its task and its agent: made, tasked, booted, dialled, connected;
or deleted, refused (nobody listened when it dialled), died, over (its connection
was closed). `Backlog` are the agents that have dialled a listener; the first
that `Accept` takes is the container's, for all the code knows, and the others are
reset when the listener closes. `Crash` closes sockets and restarts the counter,
but containerd's containers go on: their agents may dial the socket that the next
process binds. The code ignores the errors of its clean-up calls, which go to the client
that has just failed: `TaskFails` leaves the container deleted, without its task, or as
it was; `ListenFails` does not clean up at all, and after `AcceptFails` containerd
refuses to delete a container with a running task. Left out are the snapshot that
`NewContainer` may have made before it failed, and the use of the container after it
was handed over.

### Cancellation in RunnerEngine

`Cancel` is the end of the context that `InitRunner` was given. `Runner` itself
cancels only after `InitRunner` has returned; whoever embeds
`InitRunner` may do so at any time, as its integration test does at its end
(`runner/tests/runner_integration_test.go:135`), and that is the case modelled.

## Runs

| run | instance | checks |
|---|---|---|
| `engine_faults` | 2 jobs, 1 malformed, queue of 1, 2 faults, connection may break | `TypeOK`, `SettledByOwner`, `ContainerExclusive`, `LeftInOrder`, `QueueContract`, `DeliveredOnce`, `EveryJobSettled`, `EveryDeliveryEnds`, `ShutdownEnds`, `ResultForwarded` |
| `agent_uesp` | every set of test numbers in 1..4, both halting modes | `TypeOK`, `AnswersEarned`, `SpeaksUESP`, `CompiledIsAnswered` |
| `stream_forward` | 2 tests, `MAX_LOG_CAP_KB` of `.env.example`, log limits with and without over-long lines, timeout, lost publishing | `STypeOK`, `PublishedIsSent`, `ConsumersReadUESP`, `ReaderEnds`, `ResultPublished` |
| `sse_relay` | 2 clients, 2 events, 2 disturbances | `TypeOK`, `EventsConserved`, `ClientsServed`, `BoundInTimeFinishes` |
| `limit_writer` | limits and outputs to the bounds in the cfg | `TypeOK`, `StreamLimited` |
| `test_verdict` | limit 2, up to 3 bytes per stream | `TypeOK`, `WholeOutputJudged`, `OutputLimitKept`, `FaultAttributed`, `TestEnds`, `StreamsAreLimited` |
| `submission_flow` | 2 submissions, testset of 2, 1 failed call or crash | `TypeOK`, `TestsetsWhole`, `JobsKept`, `OwnSourceUnlessShared`, `AcceptedIsJudged` |
| `warm_containers` | 2 creators, 2 slots, 4 containers, 2 faults | `TypeOK`, `OwnSocket`, `OrphansPaidFor`, `AcceptReturns` |

Some are conjunctions of two named parts, each proved as a theorem of its own and
named below where it needs a word:

| property | parts |
|---|---|
| `SettledByOwner` | `DeliveryOwned`, `RefusedOnlyByMalformed` |
| `LeftInOrder` | `ResultKept`, `NoAgentLeftRunning` |
| `AnswersEarned` | `AcceptedMeansTested`, `ReturnsAnswered` |
| `PublishedIsSent` | `PublishedIsPrefix`, `NothingDropped` |
| `ClientsServed` | `DoneSawAll`, `ListenersServed` |
| `StreamLimited` | `KeepsPrefix`, `ReachedAtLimit` |
| `TestsetsWhole` | `WholeTestset`, `OwnDownloadWhole` |
| `JobsKept` | `EmptyHasNoFile`, `NoJobIsLost` |
| `OwnSocket` | `OwnAgent`, `AcceptIsServed` |

What the less obvious ones say:

- `WholeTestset`: a judging that goes to its end has run every test that could be
  reached in the testset as it was validated, if it was validated in the bucket that
  the job names. Jobs of other buckets may replace what is in the files, but take none
  away. The second download that every job
  does is what makes this true: a directory that a crash or a failed download
  left half full is completed before the agent reads it, and no job deletes a file
  (its mutant skips the second download).
- `OwnDownloadWhole` is how far the files are those of the job's bucket: when the
  specification is sent, all that the job listed was downloaded whole, and a file is
  truncated again only by another job that is downloading it or has failed to. The
  code does let an agent read such a file; the property bounds it to that case, and
  to testset ids that are used in two buckets (`OtherBucketNamed`), where the code
  gives an agent the other bucket's files or a mixture.
- `EmptyHasNoFile`: the dispatcher and the runner count different keys in perhaps
  different buckets at different times, and yet a job is turned away for an empty
  testset only where the dispatcher did not look, or saw nothing but a folder marker.
- `OwnSourceUnlessShared`: nobody compiles another's source unless two submissions
  with one id were accepted. `flow_ids` shows that this can happen.
- `OwnAgent`: a connection leads to the container's own agent, except for an agent
  that an earlier process left behind with the same slot number.
- `DeliveredOnce`: what has reached a worker never comes back to the same process,
  although a channel that closes makes it ready again: the process has no second
  channel, and on the first a worker settles its message once.
- `ResultKept`, `NoAgentLeftRunning`: `ExecSubm` returns before its reader does; the
  RESULT still has a reader, and the agent is gone, or killed. The exceptions are the
  code's, and are counted: a call that fails once the agent has its specification
  (`MkdirAll`, `Wait`, `Kill`) leaves one agent running, the first of them without a
  reader, and a cancelled `ctx`, which `Wait` and `Kill` are given
  (`exesubmission.go:157`), may leave all. What holds is that nothing else does: no
  timeout, no acknowledgement, no closed channel, no other worker.
- `ConsumersReadUESP`: not the agent's stream but the one that consumers of the
  exchange read is one that `EventStream` allows; the half line of a killed agent,
  which is published as an empty event, is not part of it.
- `StreamsAreLimited`: each stream of `TestCase`, the rest left out, is a `LimitWriter`
  that is given a byte at a time, so what is shown of the writer holds of both.
- `NoJobIsLost`: where an accepted submission is, at any moment: in the queue, at one
  worker, or acknowledged after its agent's end, a testset without files, or a failed
  call of its own. Crashes do not matter; failed calls do, because the code acknowledges
  what it could not orchestrate, but those of other jobs do not.
- `ListenersServed`: what one client does never disturbs another one's subscription;
  with `EventsConserved` a listening client is stranded only when the connection or
  the dispatcher goes, and then it is (`PipeEnds` tells the handler nothing).
- `AcceptIsServed`: a creator that is blocked in `Accept` has something to wait for,
  unless its agent died: nobody else removes or binds its socket.
- `OrphansPaidFor`: containers of the running process that nobody has, neither a
  creator nor the pool. The code leaves some behind; the property says that it takes
  a fault for each, although a creation that fails may also have its clean-up fail,
  and one that succeeds may have accepted another container's agent.
- `FaultAttributed`: whom a verdict blames. A program that ended well is given "Runtime
  error" only when the deadline passed and the kill met it between its end and
  `cmd.Wait`; the kill of the output limit is neither a time nor a memory verdict;
  a kill by the kernel or by the program itself, if the select saw the exit, is not a
  runtime error; and an internal error is of a program that was never started.
  That the agent's kill at the deadline can count as a memory verdict is what the code
  does (see below), not what it should.

Bounds. Two jobs are enough for one worker to disturb another (a closed channel,
a crash, a shared container), and one place in `containerQueue` for it to be full
and empty. Four container ids are one per job, per place and for the producer's
hand, so no creation waits for an id (`EnoughNames`). A fault is a crash, a
cancelled context, a lost connection, a failed creation, or a call that fails while an
agent judges; two of them give a crash of a process that had one before, a failed
creation after a lost connection, and an agent left running in a process that crashes.
Four test numbers give gaps in every position and a WA before and after a stop.
A limit of 2 with 3 bytes has streams below, at and above it. Two events are one
that is RESULT and one that is not; two clients are the one that submits and one
that may listen before it, and two disturbances let one of them leave while the
connection goes. In `submission_flow` one submission is a C++ one in the
dispatcher's bucket, and the other any of four kinds: the same with another id,
`python` (which the dispatcher accepts and `PrepareExecrules` does not know) in a
bucket that has one test under the same testset id, the same id in a bucket that has
only a key that is no test, and a language that is refused. A folder marker is
there only beside the last kind, to keep the instance within minutes (954,435 states):
beside another job that is accepted it adds states but nothing the directories could
hold, because nobody but `CheckS3Dir` looks at it. Two tests are the smallest testset that can be half there,
and one fault is a failed call or a crash at any point, each of which leaves the
directories in the
worst state for the other job. In `warm_containers` two creators share the
sockets; two slots per process and two faults let a container of the first
process meet the creators of the second with either slot, and four identities
are one for every slot of two processes. Deadlock is not
checked: every model may stop (no more jobs; the agent and its streams ended).

Fairness. Goroutines that can run do run, and timers fire: `WF` on their steps.
`Restart` is fair because the unit file restarts the runner always
(`docs/FAILURES.md:66`). Nothing is assumed of submissions, of the program under
test, of an agent's answer (`TIMEOUT_SEC` ends the wait for it) or of faults. In
the engine, creation of a container is assumed to return at last: `Accept` has no
deadline in the code, so this is an assumption. `WarmContainer` says when it is
justified: `AcceptReturns` holds, if containerd answers and a booted agent dials
(`net.Dial` is the first thing it does), unless the agent dies before. In
`Orchestration` the runner takes what is queued and its workers go on: that is what
`EveryJobSettled` says of the engine as long as it is not cut off from its queue, and
neither a malformed message (the dispatcher sends none) nor a lost connection is
among the faults there. Nobody has to upload, to submit or to publish.

### What the documents say and the code does not do

Each of these runs finds its property violated.

| run | the property says | what happens |
|---|---|---|
| `engine_malformed` | bad JSON is discarded and the runner moves on (`validator.go:20`) | the second settlement closes the channel; the runner idles |
| `stream_logs` | stdout goes to S3 (`ADR-007`) | RESULT's empty stdout can overwrite it |
| `sse_watch` | who submits and watches gets RESULT (`client.py:119`) | it may subscribe after RESULT was published |
| `flow_ids` | submission ids are unique (`prepare.go:20`, `dispatcher.md:65`) | an id is known only after its first log was uploaded; two submissions with it are accepted |

More divergences are visible in the models without a run of their own:

- the connection to RabbitMQ is dialled only at start-up (`FAILURES.md:11` says
  the runner reconnects): `PipeClosed` ends the consumer for good;
- a testset with a missing number is judged up to the gap (`FAILURES.md:60` says it
  is rejected): `AcceptedMeansTested` says what holds;
- a job whose orchestration failed is acknowledged though no agent got it
  (`engine.go:146` says "only after sending it downstream"): `OrchestrateFails`
  goes to `acking`, and so does `DirFails`, which leaves the agent judging;
- one directory serves all buckets that have a testset with the same id
  (`orchestrator.go:43` has the id alone): `OtherBucketNamed`, `Overwrite`;
- a folder marker makes a testset for the validator (`prepare.go:36`) and none for
  the runner, which then turns the accepted job away: `EmptyHasNoFile`;
- a judging that TIMEOUT_SEC ends has no RESULT (`ajagent/internal/utils.go:76` says
  it is sent "no matter the verdict"): `TimesOut` publishes nothing;
- the event of an output-limit verdict can be longer than the line the scanner takes,
  which closes the connection (`exesubmission.go:52` says it does not break during
  OLE): `LongLimits` of `ExecStream` says for which limits;
- peak memory in bytes is compared with a threshold in megabytes (`sighandler.go:47`
  says 95 % of the allowed memory): every SIGKILL that the exit shows is a memory
  verdict, the kill at the deadline too if the exit is seen first: `KillVerdict`;
- the testset is downloaded for every job (`orchestrator.go:71` says only when it is
  not already there): `PrepareExecrules` does it again, `round` 2;
- `python` and `js` are accepted (`dispatcher/internal/prepare.go:12`), but
  `PrepareExecrules` has arguments for `py` and `node`: `Available` and `Runnable`;
- one object under the prefix makes a testset (`FAILURES.md:60` says a malformed one
  is rejected with its submission): `CheckTestset` accepts one that is still being
  uploaded;
- nothing deletes a container that was used (`FAILURES.md:82` says it is destroyed);
- a subscription outlives its client until the dispatcher stops
  (`endpoints.go:192` says leaving the loop triggers the close): `PipeEnds`.

## Proofs

TLAPS proves, with no assumption but the named ones on the constants:

- `RunnerEngineProofs`: `TypeCorrect`, `Owned`, `Exclusive`, `Refused`, `Contract`:
  the safety properties of `engine_faults` for any number of jobs, containers,
  places and faults. The inductive invariant `IInv` adds to them that the producer
  has a container in its hand when it sends (`SendingHolds`), that a process that
  is down holds nothing (`DownIsEmpty`), that a channel that is not open has
  nothing unacknowledged (`ClosedOwesNothing`) and that a message at `nacked` was
  discarded or its channel is gone (`NackedIsDropped`). Without the last, a
  malformed message's second Nack could be thought to hit an outstanding tag and
  requeue it. `Contract` is step simulation: each action of the engine is one
  action of `JobDelivery` or leaves `broker` alone; the invariant is needed for
  `Ack`, which must find the job unacknowledged or the channel not open, or close
  it. `Once` proves the action property `DeliveredOnce`; beyond `IInv` it needs that
  a finished delivery was acknowledged while its channel is open (`DoneIsAcked`).
  `Kept` rests on `AgentsRead`: an agent that judges has a reader, or `ExecSubm` was not
  reached or a call has failed; nobody reads before `ExecSubm`; and a process that is
  down has no agents. `NoneLeftRunning` counts: a step adds no agent to those left
  running, or one and a fault, unless ctx is cancelled.
- `LimitWriterProofs`: `TypeCorrect`, `PrefixKept` and `CancelledAtLimit`, for all limits and all
  ways to cut a stream. The inductive part ties `written`, `Len(buf)`, `total` and
  `limitReached` together.
- `AgentJudgeProofs`: `TypeCorrect`, `Accepted`, `Returns` and `Speaks`, for any number of
  tests and any specification. The invariant says, for each part of `RunnerAgent`,
  what the stream is there: empty before the tests, one INFO per test that did
  not stop the judging inside the loop (`Testing`), enough for the verdict before
  `sendResult` (`Concluded`), and no RESULT before the return (`ResultIsLast`).
  `Speaks` is step simulation of `EventStream`.
- `ExecStreamProofs`: `StreamTypeCorrect`, `PublishedInOrder`, `AllPublished`,
  `SpeaksInside` and `ConsumersRead`, whatever is killed,
  lost or uploaded meanwhile. The invariant adds that all that was read is published
  while the reader scans and publishing works (`ReadIsPublished`), that half lines
  come only from a killed agent (`TornMeansKilled`) and that each event published
  is a line that was read, in its place (`Forwarded`): a lost channel does not come
  back, so nothing is published after a gap. It rests on the agent's invariant and
  on the agent only adding to its stream (`AgentSends`, `SentGrows`). `AllPublished`
  is the safety half of `ResultPublished`: the reader ends, without an error, only
  after the last line. `SpeaksInside` carries `Speaks` over to the agent that is
  killed inside `ExecSubm`, and `ConsumersRead` is step simulation of `EventStream`
  once more, now with what is published: a line that is published follows from the
  lines before it, because every event of the agent does (`Grounded`, kept by each
  step of `EventStream`: `GroundedStep`) and what is published is a prefix of it.
- `TestCaseProofs`: `TypeCorrect`, `WholeJudged`, `LimitKept` and `Attributed`, for all
  limits, all output and a deadline at any moment. The invariant ties the
  writers to the bytes (`Copying`), the answer of `cmd.Wait` to the end of the
  program and of the copying (`Waiting`), kills to the context (`Killing`) and the
  select to what woke it (`Waking`). Without `Waking` a program could be judged
  by an exit that was not there when the select was left. `WritersRefined` is step
  simulation of `LimitWriter` by each stream: a `Copy` is a `Write` of a slice of one
  byte, every other step leaves the stream's writer alone.
- `OrchestrationProofs`: `TypeCorrect`, `WholeTestsets`, `OwnDownloads`,
  `EmptyTestsets`, `OwnSources` and `NoneLost`, for any submissions, buckets, testset and
  number of faults. The invariant has a part for each job, `Job`, and `Contents` for the
  directories. What was promised is in S3 and stays there, and what was accepted is in
  the queue unless it was lost (`Promise`); a busy worker has its job unacknowledged,
  which is why a crash gives every unfinished job back (`Worker`); what a job has
  listed and downloaded is as in its bucket, or in the hands of a named other job, or
  of another bucket, while what it has still to download may be anything
  (`Downloaded`, `Written`); the tests promised to an agent that runs are there, and
  it has run them when it concludes (`Reads`). `Written` needs the writer of a file:
  without it another job's truncation could not be told from a download of one's own
  that never ended. `Contents` says that only accepted submissions write: every file
  comes from the bucket of one, is mixed only if two of them name different buckets,
  and every source lies under the path of its own. The order in which keys are
  downloaded comes from the library's well-foundedness of `<`. A step of one job keeps the
  parts of the others (`OthersKeep`) if it leaves what they have written so (`Holds`).
- `WarmContainerProofs`: `TypeCorrect`, `OwnAgents`, `PaysForOrphans` and `Served`, for any number of
  creators, containers, slots and faults. The invariant says that no two creators of
  a process have one slot (`SlotsApart`), that a listener is bound to its creator's
  slot (`Listening`), what a creator holds from `NewContainer` on (`Held`), and
  that the containers of the running process have slots that nobody else has or
  will use (`ContainersApart`); so an agent in the backlog that is not the
  creator's own is of an earlier process. `Served` adds that from the making of the
  task to the end of `Accept` the socket of a creator's slot leads to its own
  listener (`Serving`). `PaysForOrphans` counts: a step makes no new orphan, or one and a
  fault (`NoOrphan`, `OneOrphan`); it needs that a container has one creator
  (`HeldApart`) and that every process but the first follows a crash (`Lives`).
- `SSERelayProofs`: `TypeCorrect`, `Conserved`, `DoneHasAll` and `Served`, for any number of clients, events
  and disturbances. `Followed` says where the events of a client are, part by part
  (`After`: numbers in a row from a given one), instead of what their concatenation
  is: a step moves one event between two parts and leaves the others as they are.
  The concatenation follows at the end, three times by `AfterConcat`. `Followed`
  ends with the handler; what a client has read does not, so `Reads` says of the
  response alone that it is a row up to RESULT, and `Routed` that a client that
  listens has a handler, and its handler a running goroutine with a bound queue.

The properties with two parts follow from the theorems of the parts: `Settled`,
`InOrder`, `Earned`, `PublishedWhole`, `AllServed`, `Limited`, `Testsets`, `Keeps` and
`OwnSockets`.

Each invariant was checked with TLC before it was proved. Every safety property of
a passing run is proved. Liveness (`EveryJobSettled`, `EveryDeliveryEnds`, `ShutdownEnds`,
`ResultForwarded`, `CompiledIsAnswered`, `ReaderEnds`, `ResultPublished`, `TestEnds`,
`BoundInTimeFinishes`, `AcceptedIsJudged`, `AcceptReturns`) is model-checked only: it needs
fairness and ENABLED, which the prover does not do. What can go wrong for good in most of
them is a safety property that is proved: `ResultKept` is to `ResultForwarded` what
`ReturnsAnswered` is to `CompiledIsAnswered`, `NothingDropped` to `ResultPublished`,
`ListenersServed` to `BoundInTimeFinishes`, `NoJobIsLost` to `AcceptedIsJudged` and
`AcceptIsServed` to `AcceptReturns`; what is left to TLC is that the steps that remain
are taken.

## Plan

Done: the engine and its contract, the agent and its protocol, the execution of a
submission, the test case, the writer, the relay to the clients, the way of a
submission from the SDK to its agent with the shared directories, and the creation
of warm containers.

Next, in order:

1. Several runners on one queue: prefetch 0 pushes every message to one of them.
2. A composition of the engine's worker with `ExecStream`, so that the
   acknowledgement and the publication of RESULT are in one model.
3. The creation of `RunnerEngine` as an abstraction of `WarmContainer`.

## Not modelled

The OCI options (a straight-line list of mounts and limits) and the arguments of
compilers and interpreters, beyond whether there are any; the RADS scheduler and
monitor (types only); the legacy log streaming, `UploadDirToS3` and
`PrepareSubmission` (no caller); the creation of buckets; the dial loops at start-up,
beyond that they end; the HTTP plumbing of the dispatcher, its root
endpoint and configuration look-ups that end the process at start-up; logging. See `components` in the index.
