---------------------------- MODULE Orchestration ----------------------------
(***************************************************************************)
(* What the runner does with a job between taking it and acknowledging it  *)
(* (orchestrator.go, preparation.go, the downloads of s3manager.go),       *)
(* composed with the dispatcher and the SDK (DispatcherSubmit): all jobs   *)
(* share the directories under /tmp/runner, one of testsets and one of     *)
(* sources, in which every worker writes and every container reads.        *)
(* The queue is JobDelivery, which RunnerEngine implements; a worker is    *)
(* named by its job.  The agent is reduced to what it reads.               *)
(***************************************************************************)
EXTENDS DispatcherSubmit

CONSTANT NoRequest    \* no request

ASSUME RunnerAssumption ==
    NoRequest \notin Requests /\ Buckets \cap {"absent", "part", "mixed"} = {}

VARIABLES
    \* /tmp/runner
    disk,        \* [Tests -> what the files of a test hold: "absent", "part", the
                 \* bucket they are from, or "mixed", bytes from several]
    writer,      \* [Tests -> the job whose os.Create truncated them last]
    source,      \* [Paths -> whose source submissions/<id>/main.<lang> is]
    \* the worker of each job, with its agent
    at,          \* where it is
    round,       \* 1: OrchestrateSubm downloads, 2: PrepareExecrules does
    listed,      \* tests that the last listing found
    todo,        \* those of them that are not downloaded yet
    next,        \* the number that the agent looks for next
    agent,       \* the agent: "none", what it is at, or how it ended
    compiled,    \* whose source the agent has compiled
    end          \* how the orchestration ended

diskVars == <<disk, writer, source>>
workerVars == <<at, round, listed, todo, next, agent, compiled, end>>
runnerVars == <<diskVars, workerVars>>
vars == <<dispatcherVars, runnerVars>>

Paths == {<<s.id, s.language>> : s \in Submissions}
\* a mistake: one directory for all submissions
SharedPath(r) == <<CHOOSE i \in Ids : TRUE, submission[r].language>>
Path(r) == <<submission[r].id, submission[r].language>>
Bucket(r) == submission[r].bucket

\* languages that PrepareExecrules finds CompileArgs for, and RunArgs
Compiled == {"c", "cpp", "cc", "go", "java"}
Runnable == Compiled \cup {"node", "py"}

\* Build_AgentExecSpec: are there CompileArgs, and RunArgs?
ExecSpec(r) ==
    [compile |-> submission[r].language \in Compiled,
     run |-> submission[r].language \in Runnable]

Init ==
    /\ DInit
    /\ disk = [k \in Tests |-> "absent"]
    /\ writer = [k \in Tests |-> NoRequest]
    /\ source = [p \in Paths |-> NoRequest]
    /\ at = [r \in Requests |-> "idle"]
    /\ round = [r \in Requests |-> 1]
    /\ listed = [r \in Requests |-> {}]
    /\ todo = [r \in Requests |-> {}]
    /\ next = [r \in Requests |-> 1]
    /\ agent = [r \in Requests |-> "none"]
    /\ compiled = [r \in Requests |-> NoRequest]
    /\ end = [r \in Requests |-> "none"]

\* the orchestration of r is over; the acknowledgement comes next
Over(r, how) ==
    /\ end' = [end EXCEPT ![r] = how]
    /\ at' = [at EXCEPT ![r] = "ack"]

-----------------------------------------------------------------------------
(* OrchestrateSubm *)

\* a mistake: the consumer is subscribed with autoAck
TakeAutoAck(r) ==
    /\ job[r] = "ready"
    /\ job' = [job EXCEPT ![r] = "acked"]
    /\ at' = [at EXCEPT ![r] = "prepare"]
    /\ UNCHANGED <<objects, stored, requestVars, faultVars, diskVars, round, listed,
                   todo, next, agent, compiled, end>>

Take(r) ==
    /\ Q!Take(r)
    /\ at' = [at EXCEPT ![r] = "prepare"]
    /\ UNCHANGED <<objects, stored, requestVars, faultVars, diskVars, round, listed,
                   todo, next, agent, compiled, end>>

\* isTestsetDirEmpty, which is true when there is a file
TestsetExists == \E k \in Tests : disk[k] # "absent"

\* a mistake: a directory that has files needs no download at all
PrepareOnce(r) ==
    /\ at[r] = "prepare"
    /\ \/ source' = [source EXCEPT ![Path(r)] = r] /\ UNCHANGED faultVars
       \/ Failing(r) /\ UNCHANGED source
    /\ at' = [at EXCEPT ![r] = IF TestsetExists THEN "send" ELSE "list"]
    /\ round' = [round EXCEPT ![r] = 2]
    /\ UNCHANGED <<objects, stored, requestVars, job, disk, writer, listed,
                   todo, next, agent, compiled, end>>

\* The source file is written, or the failure is logged.  Then OrchestrateSubm
\* looks whether it has to download the testset itself.
Prepare(r) ==
    /\ at[r] = "prepare"
    /\ \/ source' = [source EXCEPT ![Path(r)] = r] /\ UNCHANGED faultVars
       \/ Failing(r) /\ UNCHANGED source
    /\ at' = [at EXCEPT ![r] = "list"]
    /\ round' = [round EXCEPT ![r] = IF TestsetExists THEN 2 ELSE 1]
    /\ UNCHANGED <<objects, stored, requestVars, job, disk, writer, listed,
                   todo, next, agent, compiled, end>>

\* what the paginator yields for the job, in the bucket that the client named;
\* folder markers are skipped
Listing(r) == (IF Bucket(r) = Own THEN objects ELSE Elsewhere[Bucket(r)]) \ {Marker}

\* a mistake: rounds are counted on
CountRound(r) ==
    /\ at' = [at EXCEPT ![r] = IF round[r] = 1 THEN "list" ELSE "send"]
    /\ round' = [round EXCEPT ![r] = @ + 1]

\* the download is complete: PrepareExecrules does it again
EndRound(r) ==
    /\ at' = [at EXCEPT ![r] = IF round[r] = 1 THEN "list" ELSE "send"]
    /\ round' = [round EXCEPT ![r] = 2]

\* Every file counts, but only .in and .out files are downloaded; to count none
\* is an error.
List(r) ==
    /\ at[r] = "list"
    /\ listed' = [listed EXCEPT ![r] = Listing(r) \cap Tests]
    /\ todo' = [todo EXCEPT ![r] = Listing(r) \cap Tests]
    /\ \/ Listing(r) = {} /\ Over(r, "empty") /\ UNCHANGED round
       \/ Listing(r) = {Other} /\ EndRound(r) /\ UNCHANGED end
       \/ /\ Listing(r) \cap Tests # {}
          /\ at' = [at EXCEPT ![r] = "get"]
          /\ UNCHANGED <<round, end>>
    /\ UNCHANGED <<dispatcherVars, diskVars, next, agent, compiled>>

\* keys come in order
Current(r) == CHOOSE k \in todo[r] : \A other \in todo[r] : k <= other

\* GetObject answers; then os.Create truncates the file
Get(r) ==
    /\ at[r] = "get"
    /\ at' = [at EXCEPT ![r] = "copy"]
    /\ disk' = [disk EXCEPT ![Current(r)] = "part"]
    /\ writer' = [writer EXCEPT ![Current(r)] = r]
    /\ UNCHANGED <<dispatcherVars, source, round, listed, todo, next, agent, compiled, end>>

\* Bytes arrive after another job has truncated the file, and are written where
\* the file offset is; they matter when that job's come from another bucket.
Overwrite(r) ==
    /\ at[r] = "copy"
    /\ Bucket(writer[Current(r)]) # Bucket(r)
    /\ disk[Current(r)] # "mixed"
    /\ disk' = [disk EXCEPT ![Current(r)] = "mixed"]
    /\ UNCHANGED <<dispatcherVars, writer, source, workerVars>>

\* What the file may hold when io.Copy is done.  If another job has truncated it
\* meanwhile, what this one wrote before is gone; what others wrote after the
\* truncation is overwritten where this one wrote later.
Copied(r) ==
    LET k == Current(r)
        over == {Bucket(r)} \cup
                (IF disk[k] \in {"part", Bucket(r)} THEN {} ELSE {"mixed"})
    IN \E content \in IF writer[k] = r THEN over ELSE over \cup {disk[k]} :
           disk' = [disk EXCEPT ![k] = content]

NextFile(r) ==
    /\ todo' = [todo EXCEPT ![r] = @ \ {Current(r)}]
    /\ IF todo[r] = {Current(r)}
       THEN EndRound(r)
       ELSE at' = [at EXCEPT ![r] = "get"] /\ UNCHANGED round

\* a mistake: the error of io.Copy is dropped
CopyUnchecked(r) ==
    /\ at[r] = "copy"
    /\ \/ Copied(r) /\ UNCHANGED faultVars
       \/ Failing(r) /\ UNCHANGED disk
    /\ NextFile(r)
    /\ UNCHANGED <<objects, stored, requestVars, job, writer, source, listed, next,
                   agent, compiled, end>>

Copy(r) ==
    /\ at[r] = "copy"
    /\ Copied(r)
    /\ NextFile(r)
    /\ UNCHANGED <<dispatcherVars, writer, source, listed, next, agent, compiled, end>>

\* The specification goes to the agent, which begins.  Then ExecSubm waits, or
\* MkdirAll of /tmprunner/submissions fails and OrchestrateSubm returns: the agent
\* judges on.
Send(r) ==
    /\ at[r] = "send"
    /\ agent' = [agent EXCEPT ![r] = IF ExecSpec(r).compile THEN "compile" ELSE "test"]
    /\ \/ at' = [at EXCEPT ![r] = "wait"] /\ UNCHANGED <<faultVars, end>>
       \/ Failing(r) /\ Over(r, "failed")
    /\ UNCHANGED <<objects, stored, requestVars, job, diskVars, round, listed, todo, next,
                   compiled>>

\* A directory cannot be made, S3 does not answer, a download breaks off, the
\* agent is not there: OrchestrateSubm returns an error.
Fails(r) ==
    /\ at[r] \in {"prepare", "list", "get", "copy", "send"}
    /\ Failing(r)
    /\ Over(r, "failed")
    /\ UNCHANGED <<objects, stored, requestVars, job, diskVars, round, listed, todo,
                   next, agent, compiled>>

Running == {"compile", "test"}
Ended == {"stopped", "concluded", "killed"}

\* TIMEOUT_SEC is over, and the agent is killed, or its container has no memory
\* left
Kill(r) ==
    /\ at[r] = "wait"
    /\ agent' = [agent EXCEPT ![r] = "killed"]
    /\ Over(r, "returned")
    /\ UNCHANGED <<dispatcherVars, diskVars, round, listed, todo, next, compiled>>

\* ContStatus brings an error of Wait, or the kill fails: the agent judges on
WaitFails(r) ==
    /\ at[r] = "wait"
    /\ Failing(r)
    /\ Over(r, "returned")
    /\ UNCHANGED <<objects, stored, requestVars, job, diskVars, round, listed, todo,
                   next, agent, compiled>>

\* delivery.Ack, whatever OrchestrateSubm returned; the worker's locals are gone
Ack(r) ==
    /\ at[r] = "ack"
    /\ Q!Finish(r)
    /\ at' = [at EXCEPT ![r] = "idle"]
    /\ round' = [round EXCEPT ![r] = 1]
    /\ listed' = [listed EXCEPT ![r] = {}]
    /\ todo' = [todo EXCEPT ![r] = {}]
    /\ compiled' = [compiled EXCEPT ![r] = IF agent[r] \in Running THEN @ ELSE NoRequest]
    /\ UNCHANGED <<objects, stored, requestVars, faultVars, diskVars, next, agent, end>>

-----------------------------------------------------------------------------
(* The agent in its container, reading the shared directories *)

\* The agent exits, with a verdict; ExecSubm, if it waits, gets its status.
Stop(r, how) ==
    /\ agent' = [agent EXCEPT ![r] = how]
    /\ IF at[r] = "wait" THEN Over(r, "returned") ELSE UNCHANGED <<at, end>>

\* the compiler reads the source, and refuses it or not
Compile(r) ==
    /\ agent[r] = "compile"
    /\ compiled' = [compiled EXCEPT ![r] = source[Path(r)]]
    /\ \/ /\ source[Path(r)] # NoRequest
          /\ agent' = [agent EXCEPT ![r] = "test"]
          /\ UNCHANGED <<at, end>>
       \/ Stop(r, "stopped")
    /\ UNCHANGED <<dispatcherVars, diskVars, round, listed, todo, next>>

\* a test that is found is run, whatever its files hold, if there are
\* RunArgs; its verdict may stop the judging
Test(r) ==
    /\ agent[r] = "test"
    /\ next[r] \in Tests
    /\ disk[next[r]] # "absent"
    /\ \/ /\ ExecSpec(r).run
          /\ next' = [next EXCEPT ![r] = @ + 1]
          /\ UNCHANGED <<agent, at, end>>
       \/ Stop(r, "stopped") /\ UNCHANGED next
    /\ UNCHANGED <<dispatcherVars, diskVars, round, listed, todo, compiled>>

\* the number is missing: the verdict is about the tests before it
Conclude(r) ==
    /\ agent[r] = "test"
    /\ next[r] \in Tests => disk[next[r]] = "absent"
    /\ Stop(r, "concluded")
    /\ UNCHANGED <<dispatcherVars, diskVars, round, listed, todo, next, compiled>>

\* stdout.log of an event that ExecSubm reads goes to S3, under the submission's id
Store(r) ==
    /\ at[r] = "wait" \/ end[r] = "returned"
    /\ next[r] > 1 \/ agent[r] \in {"stopped", "concluded"}
    /\ submission[r].id \notin stored
    /\ stored' = stored \cup {submission[r].id}
    /\ UNCHANGED <<objects, requestVars, job, faultVars, runnerVars>>

-----------------------------------------------------------------------------
\* what f was for the jobs that no worker is busy with, and v for the others
Forget(f, v) == [r \in Requests |-> IF at[r] = "idle" THEN f[r] ELSE v]

\* The process dies and systemd starts it again; the directories stay.
Crash ==
    /\ Cardinality(failed) + crashes < MaxFaults
    /\ crashes' = crashes + 1
    /\ Q!GiveBack
    /\ at' = Forget(at, "idle")
    /\ round' = Forget(round, 1)
    /\ listed' = Forget(listed, {})
    /\ todo' = Forget(todo, {})
    /\ next' = Forget(next, 1)
    /\ agent' = Forget(agent, "none")
    /\ compiled' = Forget(compiled, NoRequest)
    /\ end' = Forget(end, "none")
    /\ UNCHANGED <<objects, stored, requestVars, failed, diskVars>>

Work(r) ==
    \/ Prepare(r) \/ List(r) \/ Get(r) \/ Copy(r) \/ Send(r) \/ Fails(r)
    \/ Kill(r) \/ WaitFails(r) \/ Ack(r)

Judge(r) == Compile(r) \/ Test(r) \/ Conclude(r)

Next ==
    \/ Dispatch /\ UNCHANGED runnerVars
    \/ \E r \in Requests : Take(r) \/ Work(r) \/ Overwrite(r) \/ Judge(r) \/ Store(r)
    \/ Crash

Spec == Init /\ [][Next]_vars

\* The runner takes what is in the queue and its workers run.  No agent has to
\* answer: TIMEOUT_SEC ends the wait.
Fairness == \A r \in Requests : WF_vars(Take(r)) /\ WF_vars(Work(r))

FairSpec == Spec /\ Fairness

-----------------------------------------------------------------------------
Points == {"idle", "prepare", "list", "get", "copy", "send", "wait", "ack"}

\* Every variable of the dispatcher and of the runner keeps its range.
TypeOK ==
    /\ objects \subseteq Keys
    /\ stored \subseteq Ids
    /\ submission \in [Requests -> Submissions]
    /\ request \in [Requests -> {"unsent", "testset", "publish",
                                 "accepted", "refused"}]
    /\ promised \in [Requests -> SUBSET Keys]
    /\ job \in [Requests -> Q!States]
    /\ failed \subseteq Requests
    /\ disk \in [Tests -> {"absent", "part", "mixed"} \cup Buckets]
    /\ writer \in [Tests -> Requests \cup {NoRequest}]
    /\ source \in [Paths -> Requests \cup {NoRequest}]
    /\ at \in [Requests -> Points]
    /\ round \in [Requests -> {1, 2}]
    /\ listed \in [Requests -> SUBSET Tests]
    /\ todo \in [Requests -> SUBSET Tests]
    /\ next \in [Requests -> 1..(MaxTest + 1)]
    /\ agent \in [Requests -> {"none"} \cup Running \cup Ended]
    /\ compiled \in [Requests -> Requests \cup {NoRequest}]
    /\ end \in [Requests -> {"none", "failed", "empty", "returned"}]
    /\ crashes \in 0..MaxFaults

\* The numbers that an agent gets to when S are the keys there are.
Reach(S) == {k \in Tests : 1..k \subseteq S}

\* A judging that goes to its end runs every test that can be reached in the
\* testset as it was when the submission was validated, if its bucket is the one
\* that was looked into: another job's download, from whichever bucket, a
\* download that broke off, and a crash take no test away.
WholeTestset ==
    \A r \in Requests :
        agent[r] = "concluded" /\ Bucket(r) = Own => \A k \in Reach(promised[r]) : k < next[r]

\* The directory is keyed by the testset's id alone.
OtherBucketNamed(r) ==
    \E q \in Requests : request[q] = "accepted" /\ Bucket(q) # Bucket(r)

\* When a job's specification is sent, and until ExecSubm returns, the tests it
\* listed are as in its bucket, unless another job opened one later and is still
\* downloading it, or has failed to: its own downloads were complete.  A job that
\* names another bucket can replace them all, or mix the two.
OwnDownloadWhole ==
    \A r \in Requests : at[r] \in {"send", "wait"} =>
        \A k \in listed[r] :
            \/ disk[k] = Bucket(r)
            \/ OtherBucketNamed(r)
            \/ LET w == writer[k]
               IN w \notin {r, NoRequest} /\ (at[w] = "copy" \/ end[w] = "failed")

\* The shared directory has what a job needs when its agent reads there.
TestsetsWhole == WholeTestset /\ OwnDownloadWhole

\* The runner turns a job away for an empty testset only where the dispatcher did
\* not look, or found nothing but a folder marker, which CheckS3Dir counts and
\* DownloadDirFromS3 does not.
EmptyHasNoFile ==
    \A r \in Requests : end[r] = "empty" => Bucket(r) # Own \/ promised[r] = {Marker}

\* What is compiled for a job is its own source, whatever fails or crashes,
\* unless another job was accepted with its id.
OwnSourceUnlessShared ==
    \A r \in Requests : compiled[r] \in {r, NoRequest} \/
        \E q \in Requests \ {r} :
            request[q] = "accepted" /\ submission[q].id = submission[r].id

\* the message was not published, though nobody noticed
Unpublished(r) == job[r] = "unsent" /\ r \in failed

\* acknowledged, after the agent's end, a testset without files, or a failed call
Answered(r) ==
    /\ job[r] = "acked" /\ at[r] = "idle"
    /\ \/ end[r] = "returned" /\ agent[r] \in Ended
       \/ end[r] = "empty"
       \/ end[r] \in {"failed", "returned"} /\ r \in failed

\* An accepted submission is in the queue, at a worker, or answered: a crash
\* between any two steps loses no job, leaves none taken with no worker busy with
\* it, and acknowledges none that was not judged; a call that fails costs its own
\* job only.
NoJobIsLost ==
    \A r \in Requests : request[r] = "accepted" =>
        \/ Unpublished(r)
        \/ job[r] = "ready" /\ at[r] = "idle"
        \/ job[r] = "unacked" /\ at[r] # "idle"
        \/ Answered(r)

\* No accepted submission is lost, or turned away for a testset that has files.
JobsKept == EmptyHasNoFile /\ NoJobIsLost

\* An accepted submission is answered in the end, through crashes and the failures
\* of other jobs, unless its message was not published.
AcceptedIsJudged ==
    \A r \in Requests : request[r] = "accepted" ~> Unpublished(r) \/ Answered(r)

-----------------------------------------------------------------------------
(* What a comment says, and the code does not do *)

\* prepare.go:20 "check submission_id uniqueness", dispatcher.md:65 "Job ID
\* uniqueness": no two submissions are accepted with one id.
AcceptedIdsUnique ==
    \A r, q \in Requests :
        r # q /\ request[r] = "accepted" /\ request[q] = "accepted"
            => submission[r].id # submission[q].id
=============================================================================
