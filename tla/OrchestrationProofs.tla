------------------------ MODULE OrchestrationProofs ------------------------
(***************************************************************************)
(* Theorems of Orchestration, for every set of submissions, testset,       *)
(* content of other buckets and number of faults: what a job's own listing *)
(* and downloads have put into the shared directory stays there for it,    *)
(* unless a job with another bucket or a download that goes on is in the   *)
(* way, and no job is lost.                                                *)
(***************************************************************************)
EXTENDS Orchestration, FiniteSetTheorems, WellFoundedInduction, TLAPS

\* A submission that was validated has objects in S3; only those that were
\* accepted are in the queue, and all of them unless the message was lost.
Promise(r) ==
    /\ promised[r] \subseteq objects
    /\ request[r] \in {"publish", "accepted"} => promised[r] # {}
    /\ job[r] # "unsent" => request[r] = "accepted"
    /\ request[r] = "accepted" => job[r] # "unsent" \/ r \in failed
    /\ job[r] # "dropped"

\* A worker is busy with what is taken; an orchestration that has ended is not
\* begun again unless it was not acknowledged; a failed one had a failed call.
Worker(r) ==
    /\ at[r] # "idle" <=> job[r] = "unacked"
    /\ end[r] # "none" <=> at[r] = "ack" \/ job[r] = "acked"
    /\ agent[r] # "none" => at[r] = "wait" \/ end[r] # "none"
    /\ end[r] = "failed" => r \in failed
    /\ end[r] = "returned" => agent[r] \in Ended \/ r \in failed
    /\ end[r] = "empty" => Bucket(r) # Own \/ promised[r] = {Marker}

Downloading == {"get", "copy"}
Judging == {"send", "wait"}

\* Test k is as in r's bucket, or another bucket is named, or somebody else
\* truncated it and is writing it, or failed to.
Written(r, k) ==
    \/ disk[k] = Bucket(r)
    \/ OtherBucketNamed(r)
    \/ /\ disk[k] = "part"
       /\ \E w \in Requests \ {r} :
              /\ writer[k] = w
              /\ (at[w] = "copy" /\ Current(w) = k) \/ end[w] = "failed"

\* A job that has listed the testset found what the dispatcher had found, if it
\* looked there, and all that it has downloaded since is written.
Downloaded(r) ==
    at[r] \in Downloading \cup Judging =>
        /\ Bucket(r) = Own => promised[r] \cap Tests \subseteq listed[r]
        /\ todo[r] \subseteq listed[r]
        /\ at[r] \in Downloading <=> todo[r] # {}
        /\ \A k \in listed[r] \ todo[r] : disk[k] # "absent" /\ Written(r, k)
        /\ \A k \in todo[r] : at[r] = "copy" /\ Current(r) = k =>
                               disk[k] # "absent" /\ (Written(r, k) \/ writer[k] = r)

\* The tests that were promised are there for the agent, and it has run those
\* that it can reach when it concludes.
Reads(r) ==
    /\ agent[r] \in Running /\ Bucket(r) = Own =>
           \A k \in promised[r] \cap Tests : disk[k] # "absent"
    /\ agent[r] = "concluded" /\ Bucket(r) = Own => \A k \in Reach(promised[r]) : k < next[r]

OwnSource(r) ==
    compiled[r] \in {r, NoRequest} \/
        \E q \in Requests \ {r} :
            request[q] = "accepted" /\ submission[q].id = submission[r].id

Job(r) == Promise(r) /\ Worker(r) /\ Downloaded(r) /\ Reads(r) /\ OwnSource(r)

\* What is in a file came from the bucket of an accepted submission, or those of
\* two, and an accepted one truncated it last.
Content(k) ==
    /\ disk[k] \in Buckets => \E q \in Requests : request[q] = "accepted" /\ Bucket(q) = disk[k]
    /\ disk[k] = "mixed" =>
           \E q, p \in Requests :
               /\ request[q] = "accepted" /\ request[p] = "accepted"
               /\ Bucket(q) # Bucket(p)
    /\ disk[k] # "absent" => writer[k] \in Requests /\ request[writer[k]] = "accepted"

\* A source file is that of an accepted submission with this path.
Sources ==
    \A p \in Paths : source[p] # NoRequest =>
        /\ Path(source[p]) = p
        /\ request[source[p]] = "accepted"

Contents == (\A k \in Tests : Content(k)) /\ Sources
IInv == TypeOK /\ Contents /\ \A r \in Requests : Job(r)

-----------------------------------------------------------------------------
\* A set of numbers that is not empty has a least one.
LEMMA Least == ASSUME NEW S \in SUBSET Nat, S # {} PROVE \E k \in S : \A m \in S : k <= m
<1>1. IsWellFoundedOn(OpToRel(<, Nat), Nat)
  BY NatLessThanWellFounded, Zenon
<1>2. PICK k \in S : \A m \in S : <<m, k>> \notin OpToRel(<, Nat)
  BY <1>1, WFMin, Zenon
<1>3. \A m \in S : ~(m < k)
  BY <1>2 DEF OpToRel
<1> QED BY <1>3

\* The next file to download is one that has to be.
LEMMA CurrentFacts ==
    ASSUME TypeOK, NEW r \in Requests, todo[r] # {}
    PROVE  Current(r) \in todo[r] /\ Current(r) \in Tests
<1>1. todo[r] \subseteq Tests /\ todo[r] \in SUBSET Nat
  BY SubmitAssumption DEF TypeOK, Tests
<1>2. \E k \in todo[r] : \A m \in todo[r] : k <= m
  BY <1>1, Least
<1> QED BY <1>1, <1>2 DEF Current

LEMMA CurrentSame ==
    ASSUME NEW r \in Requests, todo'[r] = todo[r] PROVE Current(r)' = Current(r)
BY DEF Current

\* A bucket is none of the other contents of a file.
LEMMA BucketFacts ==
    ASSUME TypeOK, NEW r \in Requests
    PROVE  Bucket(r) \in Buckets /\ Bucket(r) \notin {"absent", "part", "mixed"}
<1>1. submission[r] \in Submissions
  BY DEF TypeOK
<1> QED BY <1>1, SubmitAssumption, RunnerAssumption DEF Bucket

\* A download that is complete leaves the file as in the bucket, mixed with what
\* another bucket had there, or as a later writer left it.
LEMMA CopiedFacts ==
    ASSUME NEW r \in Requests, Copied(r)
    PROVE  \E content :
               /\ disk' = [disk EXCEPT ![Current(r)] = content]
               /\ \/ content = Bucket(r)
                  \/ content = "mixed" /\ disk[Current(r)] \notin {"part", Bucket(r)}
                  \/ content = disk[Current(r)] /\ writer[Current(r)] # r
BY DEF Copied

-----------------------------------------------------------------------------
(* Type correctness *)

LEMMA TypeInit == ASSUME Init PROVE TypeOK
<1>1. /\ submission \in [Requests -> Submissions] /\ MaxTest \in Nat /\ MaxFaults \in Nat
  BY SubmitAssumption DEF Init, DInit, Submissions
<1>2. 1 \in 1..(MaxTest + 1) /\ 0 \in 0..MaxFaults
  BY <1>1
<1>3. job = [r \in Requests |-> "unsent"]
  BY DEF Init, DInit, Q!Init
<1>4. /\ job \in [Requests -> Q!States]
      /\ request \in [Requests -> {"unsent", "testset", "publish", "accepted", "refused"}]
      /\ promised \in [Requests -> SUBSET Keys] /\ objects \subseteq Keys /\ stored \subseteq Ids
      /\ failed \subseteq Requests /\ crashes \in 0..MaxFaults
  BY <1>2, <1>3 DEF Init, DInit, Q!States, Keys
<1>5. /\ disk \in [Tests -> {"absent", "part", "mixed"} \cup Buckets]
      /\ writer \in [Tests -> Requests \cup {NoRequest}]
      /\ source \in [Paths -> Requests \cup {NoRequest}]
      /\ at \in [Requests -> Points] /\ round \in [Requests -> {1, 2}]
  BY DEF Init, Points
<1>6. /\ listed \in [Requests -> SUBSET Tests] /\ todo \in [Requests -> SUBSET Tests]
      /\ next \in [Requests -> 1..(MaxTest + 1)]
      /\ agent \in [Requests -> {"none"} \cup Running \cup Ended]
      /\ compiled \in [Requests -> Requests \cup {NoRequest}]
      /\ end \in [Requests -> {"none", "failed", "empty", "returned"}]
  BY <1>2 DEF Init
<1> QED BY <1>1, <1>4, <1>5, <1>6 DEF TypeOK

LEMMA DispatchType == ASSUME TypeOK, Dispatch, UNCHANGED runnerVars PROVE TypeOK'
<1> USE DEF TypeOK, requestVars, faultVars, runnerVars, diskVars, workerVars
<1>1. ASSUME NEW k \in Tests, Upload(k) PROVE TypeOK'
  BY <1>1 DEF Upload, Keys
<1>2. ASSUME NEW r \in Requests, CheckId(r) \/ CheckTestset(r) \/ PublishFails(r) PROVE TypeOK'
  BY <1>2 DEF CheckId, CheckTestset, PublishFails
<1>3. ASSUME NEW r \in Requests, Accept(r) PROVE TypeOK'
  <2>1. job' \in [Requests -> Q!States]
    BY <1>3 DEF Accept, Q!Submit, Q!States
  <2>2. failed' \subseteq Requests /\ crashes' = crashes
    BY <1>3 DEF Accept, Failing
  <2> QED BY <1>3, <2>1, <2>2 DEF Accept
<1> QED BY <1>1, <1>2, <1>3 DEF Dispatch, SubmissionReciever

LEMMA WorkerType ==
    ASSUME TypeOK, NEW r \in Requests,
           Take(r) \/ Work(r) \/ Overwrite(r) \/ Judge(r) \/ Store(r)
    PROVE  TypeOK'
<1> USE DEF TypeOK, dispatcherVars, requestVars, faultVars, runnerVars, diskVars,
            workerVars, Over, Points, Failing, Running, Ended
<1>1. CASE Take(r)
  BY <1>1 DEF Take, Q!Take, Q!States
<1>2. CASE Prepare(r)
  BY <1>2 DEF Prepare
<1>3. CASE List(r)
  BY <1>3 DEF List, EndRound
<1>4. CASE Get(r)
  BY <1>4 DEF Get
<1>5. CASE Overwrite(r)
  BY <1>5 DEF Overwrite
<1>6. CASE Copy(r)
  <2>1. PICK content :
            /\ disk' = [disk EXCEPT ![Current(r)] = content]
            /\ content \in {Bucket(r), "mixed", disk[Current(r)]}
    BY <1>6, CopiedFacts DEF Copy
  <2>2. disk' \in [Tests -> {"absent", "part", "mixed"} \cup Buckets]
    BY <2>1, BucketFacts
  <2> QED BY <1>6, <2>2 DEF Copy, NextFile, EndRound
<1>7. CASE Send(r)
  BY <1>7 DEF Send
<1>8. CASE Fails(r) \/ Kill(r) \/ WaitFails(r)
  BY <1>8 DEF Fails, Kill, WaitFails
<1>9. CASE Compile(r)
  <2>1. Path(r) \in Paths
    BY DEF Path, Paths
  <2> QED BY <1>9, <2>1 DEF Compile, Stop
<1>10. CASE Test(r)
  <2>1. next[r] + 1 \in 1..(MaxTest + 1)
    BY <1>10, SubmitAssumption DEF Test, Tests
  <2> QED BY <1>10, <2>1 DEF Test, Stop
<1>11. CASE Conclude(r)
  BY <1>11 DEF Conclude, Stop
<1>12. CASE Ack(r)
  BY <1>12 DEF Ack, Q!Finish, Q!States
<1>13. CASE Store(r)
  BY <1>13 DEF Store, Ids
<1> QED BY <1>1, <1>2, <1>3, <1>4, <1>5, <1>6, <1>7, <1>8, <1>9, <1>10, <1>11, <1>12, <1>13
        DEF Work, Judge

LEMMA CrashType == ASSUME TypeOK, Crash PROVE TypeOK'
<1>1. job' \in [Requests -> Q!States]
  BY DEF TypeOK, Crash, Q!GiveBack, Q!States
<1>2. crashes' \in 0..MaxFaults
  <2>1. Cardinality(failed) \in Nat
    BY SubmitAssumption, FS_Subset, FS_CardinalityType DEF TypeOK
  <2> QED BY <2>1, SubmitAssumption DEF TypeOK, Crash
<1>3. 1 \in 1..(MaxTest + 1)
  BY SubmitAssumption
<1>4. /\ at' \in [Requests -> Points] /\ round' \in [Requests -> {1, 2}]
      /\ listed' \in [Requests -> SUBSET Tests] /\ todo' \in [Requests -> SUBSET Tests]
      /\ next' \in [Requests -> 1..(MaxTest + 1)]
      /\ agent' \in [Requests -> {"none"} \cup Running \cup Ended]
      /\ compiled' \in [Requests -> Requests \cup {NoRequest}]
      /\ end' \in [Requests -> {"none", "failed", "empty", "returned"}]
  BY <1>3 DEF TypeOK, Crash, Forget, Points
<1> QED BY <1>1, <1>2, <1>4 DEF TypeOK, Crash, requestVars, diskVars

-----------------------------------------------------------------------------
(* What a step leaves as it was *)

LEMMA InitHolds == ASSUME Init PROVE IInv
<1>1. TypeOK
  BY TypeInit
<1>2. job = [r \in Requests |-> "unsent"]
  BY DEF Init, DInit, Q!Init
<1>3. \A r \in Requests : Job(r)
  BY <1>2
  DEF Init, DInit, Job, Promise, Worker, Downloaded, Reads, OwnSource, Downloading, Judging,
      Running
<1>4. Contents
  BY RunnerAssumption DEF Init, Contents, Content, Sources
<1> QED BY <1>1, <1>3, <1>4 DEF IInv

\* A submission that was accepted stays so; keys and failures are only added.
Monotone ==
    /\ submission' = submission /\ objects \subseteq objects' /\ failed \subseteq failed'
    /\ \A q \in Requests : request[q] = "accepted" => request'[q] = "accepted"

\* Nothing happens to q.
Same(q) ==
    /\ request'[q] = request[q] /\ promised'[q] = promised[q] /\ job'[q] = job[q]
    /\ at'[q] = at[q] /\ listed'[q] = listed[q] /\ todo'[q] = todo[q] /\ end'[q] = end[q]
    /\ next'[q] = next[q] /\ agent'[q] = agent[q] /\ compiled'[q] = compiled[q]

\* Files that were there are still, and those that q needs are as written for it.
Holds(q) ==
    \A k \in Tests :
        /\ disk[k] # "absent" => disk'[k] # "absent"
        /\ Written(q, k) => Written(q, k)'
        /\ disk[k] # "absent" /\ writer[k] = q => Written(q, k)' \/ writer'[k] = q

LEMMA OtherKept ==
    ASSUME Monotone, NEW r \in Requests PROVE OtherBucketNamed(r) => OtherBucketNamed(r)'
BY DEF Monotone, OtherBucketNamed, Bucket

LEMMA ContentKept ==
    ASSUME Monotone, NEW k \in Tests, UNCHANGED <<disk, writer>>, Content(k) PROVE Content(k)'
BY DEF Monotone, Content, Bucket

LEMMA SourcesKept == ASSUME TypeOK, Monotone, Sources, UNCHANGED source PROVE Sources'
<1>1. \A q : Path(q)' = Path(q)
  BY DEF Monotone, Path
<1> QED BY <1>1 DEF Monotone, Sources, TypeOK

\* What a step does not touch, and what it leaves written, is still in order.
LEMMA OthersKeep ==
    ASSUME IInv, Monotone, NEW q \in Requests, Same(q), Holds(q) PROVE Job(q)'
<1> USE DEF IInv, Monotone, Same
<1>1. Job(q) /\ Bucket(q)' = Bucket(q) /\ Current(q)' = Current(q)
  BY CurrentSame DEF Bucket
<1>2. Promise(q)' /\ Worker(q)'
  BY <1>1 DEF Job, Promise, Worker, Ended
<1>3. Downloaded(q)'
  <2>1. listed[q] \subseteq Tests /\ todo[q] \subseteq Tests
    BY DEF TypeOK
  <2> QED BY <1>1, <2>1 DEF Job, Downloaded, Holds
<1>4. Reads(q)'
  BY <1>1 DEF Job, Reads, Holds, Reach
<1>5. OwnSource(q)'
  BY <1>1 DEF Job, OwnSource
<1> QED BY <1>2, <1>3, <1>4, <1>5 DEF Job

\* Where the directory does not change and no download of r's is broken off
\* unnoticed, what is written stays so.
LEMMA StillWritten ==
    ASSUME Monotone, NEW r \in Requests, UNCHANGED <<disk, writer>>,
           \A q \in Requests \ {r} : at'[q] = at[q] /\ todo'[q] = todo[q] /\ end'[q] = end[q],
           at[r] = "copy" => end'[r] = "failed", end[r] = "failed" => end'[r] = "failed"
    PROVE  \A q \in Requests : Holds(q)
<1>1. \A q \in Requests \ {r} : Current(q)' = Current(q)
  BY CurrentSame
<1>2. ASSUME NEW q \in Requests, NEW k \in Tests, Written(q, k)
      PROVE  Written(q, k)'
  <2>1. Bucket(q)' = Bucket(q)
    BY DEF Bucket, Monotone
  <2> QED BY <1>1, <1>2, <2>1, OtherKept DEF Written
<1> QED BY <1>2 DEF Holds

\* A step of r's worker or agent that writes no test has to keep what holds for r.
LEMMA MoveStep ==
    ASSUME IInv, TypeOK', Sources', Monotone, NEW r \in Requests, UNCHANGED <<disk, writer>>,
           \A q \in Requests \ {r} : Same(q),
           at[r] = "copy" => end'[r] = "failed", end[r] = "failed" => end'[r] = "failed",
           Holds(r) => Job(r)'
    PROVE  IInv'
<1> USE DEF IInv
<1>1. \A q \in Requests : Holds(q)
  BY StillWritten DEF Same
<1>2. \A q \in Requests \ {r} : Job(q)'
  BY <1>1, OthersKeep
<1>3. \A k \in Tests : Content(k)'
  BY ContentKept DEF Contents
<1> QED BY <1>1, <1>2, <1>3 DEF Contents

-----------------------------------------------------------------------------
(* The dispatcher *)

LEMMA DispatchFrame ==
    ASSUME IInv, TypeOK', Monotone, UNCHANGED runnerVars,
           \A r \in Requests :
               /\ Promise(r)'
               /\ request[r] = "accepted" => promised'[r] = promised[r]
               /\ job'[r] = job[r] \/ (job[r] = "unsent" /\ job'[r] = "ready")
    PROVE  IInv'
<1> USE DEF IInv, runnerVars, diskVars, workerVars
<1>1. /\ \A q \in Requests : Current(q)' = Current(q)
      /\ \A q \in Requests : Bucket(q)' = Bucket(q)
  BY CurrentSame DEF Bucket, Monotone
<1>2. \A q \in Requests, k \in Tests : Written(q, k) => Written(q, k)'
  BY <1>1, OtherKept DEF Written
<1>3. Contents'
  BY ContentKept, SourcesKept DEF Contents
<1>4. ASSUME NEW r \in Requests
      PROVE  Job(r)'
  <2>1. Job(r)
    OBVIOUS
  <2>2. at[r] # "idle" \/ end[r] # "none" \/ agent[r] # "none" =>
            request[r] = "accepted" /\ promised'[r] = promised[r] /\ job'[r] = job[r]
    BY <2>1 DEF Job, Worker, Promise
  <2>3. Worker(r)'
    BY <1>1, <2>1, <2>2 DEF Job, Worker, Monotone, Ended
  <2>4. Downloaded(r)'
    <3>1. listed[r] \subseteq Tests /\ todo[r] \subseteq Tests
      BY DEF TypeOK
    <3> QED BY <1>1, <1>2, <2>1, <2>2, <3>1 DEF Job, Downloaded, Downloading, Judging
  <2>5. Reads(r)'
    BY <1>1, <2>1, <2>2 DEF Job, Reads, Reach, Running
  <2>6. OwnSource(r)'
    BY <2>1 DEF Job, OwnSource, Monotone
  <2> QED BY <2>3, <2>4, <2>5, <2>6 DEF Job
<1> QED BY <1>3, <1>4

\* The client uploads, the dispatcher accepts or refuses, an event is stored.
LEMMA DispatchStep ==
    ASSUME IInv, \/ Dispatch /\ UNCHANGED runnerVars
                 \/ \E r \in Requests : Store(r)
    PROVE  IInv'
<1> USE DEF IInv, requestVars, faultVars
<1>1. TypeOK'
  BY DispatchType, WorkerType
<1>2. \A r \in Requests : Promise(r)
  BY DEF Job
<1>3. CASE (\E k \in Tests : Upload(k)) /\ UNCHANGED runnerVars
  <2>1. Monotone /\ UNCHANGED <<request, promised, job, failed>>
    BY <1>3 DEF Upload, Monotone
  <2>2. \A r \in Requests : Promise(r)'
    BY <1>2, <2>1 DEF Promise, Monotone
  <2> QED BY <1>1, <1>3, <2>1, <2>2, DispatchFrame
<1>4. ASSUME NEW r \in Requests, SubmissionReciever(r), UNCHANGED runnerVars
      PROVE  IInv'
  <2>1. CASE CheckId(r) \/ PublishFails(r)
    <3>1. /\ \E point \in {"testset", "refused"} : request' = [request EXCEPT ![r] = point]
          /\ request[r] # "accepted"
          /\ UNCHANGED <<objects, promised, job, submission, failed>>
      BY <2>1 DEF CheckId, PublishFails
    <3>2. Monotone /\ \A q \in Requests : Promise(q)'
      BY <1>2, <3>1 DEF Promise, Monotone, TypeOK
    <3> QED BY <1>1, <1>4, <3>1, <3>2, DispatchFrame
  <2>2. CASE CheckTestset(r)
    <3>1. /\ request[r] = "testset" /\ UNCHANGED <<objects, job, submission, failed>>
          /\ \/ /\ request' = [request EXCEPT ![r] = "publish"] /\ objects # {}
                /\ promised' = [promised EXCEPT ![r] = objects]
             \/ request' = [request EXCEPT ![r] = "refused"] /\ promised' = promised
      BY <2>2 DEF CheckTestset, CheckS3Dir
    <3>2. Monotone /\ \A q \in Requests : Promise(q)'
      BY <1>2, <3>1 DEF Promise, Monotone, TypeOK
    <3>3. \A q \in Requests : request[q] = "accepted" => promised'[q] = promised[q]
      BY <3>1 DEF TypeOK
    <3> QED BY <1>1, <1>4, <3>1, <3>2, <3>3, DispatchFrame
  <2>3. CASE Accept(r)
    <3>1. /\ request[r] = "publish" /\ request' = [request EXCEPT ![r] = "accepted"]
          /\ \/ job[r] = "unsent" /\ job' = [job EXCEPT ![r] = "ready"] /\ failed' = failed
             \/ job' = job /\ failed' = failed \cup {r}
          /\ UNCHANGED <<objects, promised, submission>>
      BY <2>3 DEF Accept, Q!Submit, Failing
    <3>2. Monotone /\ \A q \in Requests : Promise(q)'
      BY <1>2, <3>1 DEF Promise, Monotone, TypeOK
    <3>3. \A q \in Requests : job'[q] = job[q] \/ (job[q] = "unsent" /\ job'[q] = "ready")
      BY <3>1 DEF TypeOK
    <3> QED BY <1>1, <1>4, <3>1, <3>2, <3>3, DispatchFrame
  <2> QED BY <1>4, <2>1, <2>2, <2>3 DEF SubmissionReciever
<1>5. ASSUME NEW r \in Requests, Store(r)
      PROVE  IInv'
  <2>1. UNCHANGED <<objects, submission, request, promised, job, failed, runnerVars>>
    BY <1>5 DEF Store
  <2>2. Monotone /\ \A q \in Requests : Promise(q)'
    BY <1>2, <2>1 DEF Promise, Monotone
  <2> QED BY <1>1, <2>1, <2>2, DispatchFrame
<1> QED BY <1>3, <1>4, <1>5 DEF Dispatch

-----------------------------------------------------------------------------
(* The worker *)

\* The source file is written.
LEMMA PrepareStep == ASSUME IInv, NEW r \in Requests, Prepare(r) PROVE IInv'
<1> USE DEF IInv
<1>1. TypeOK' /\ Job(r)
  BY WorkerType DEF Work
<1>2. /\ UNCHANGED <<objects, submission, request, promised, job, disk, writer, end, listed,
                     todo, next, agent, compiled>>
      /\ failed \subseteq failed'
  BY DEF Prepare, requestVars, faultVars, Failing
<1>3. at[r] = "prepare" /\ at' = [at EXCEPT ![r] = "list"]
  BY DEF Prepare
<1>4. Monotone /\ \A q \in Requests \ {r} : Same(q)
  BY <1>2, <1>3 DEF Monotone, Same, TypeOK
<1>5. request[r] = "accepted" /\ end[r] = "none"
  BY <1>1, <1>3 DEF Job, Promise, Worker
<1>6. Sources'
  <2>1. Path(r) \in Paths
    BY DEF Path, Paths, TypeOK
  <2>2. source' = source \/ source' = [source EXCEPT ![Path(r)] = r]
    BY DEF Prepare
  <2>3. \A q : Path(q)' = Path(q)
    BY <1>2 DEF Path
  <2> QED BY <1>2, <1>5, <2>1, <2>2, <2>3 DEF Contents, Sources, TypeOK
<1>7. Job(r)'
  BY <1>1, <1>2, <1>3, <1>5
  DEF Job, Promise, Worker, Downloaded, Reads, OwnSource, Reach, Bucket, Downloading, Judging,
      TypeOK
<1> QED BY <1>1, <1>2, <1>3, <1>4, <1>5, <1>6, <1>7, MoveStep

\* S3 has what it had for the dispatcher, in the dispatcher's bucket; a folder
\* marker is not listed.
LEMMA ListStep == ASSUME IInv, NEW r \in Requests, List(r) PROVE IInv'
<1> USE DEF IInv
<1>1. TypeOK' /\ Job(r)
  BY WorkerType DEF Work
<1>2. UNCHANGED <<objects, submission, request, promised, job, failed, disk, writer, source,
                  next, agent, compiled>>
  BY DEF List, dispatcherVars, requestVars, faultVars, diskVars
<1>3. /\ at[r] = "list"
      /\ listed' = [listed EXCEPT ![r] = Listing(r) \cap Tests]
      /\ todo' = [todo EXCEPT ![r] = Listing(r) \cap Tests]
      /\ \/ /\ Listing(r) = {} /\ at' = [at EXCEPT ![r] = "ack"]
            /\ end' = [end EXCEPT ![r] = "empty"]
         \/ /\ Listing(r) \cap Tests = {} /\ end' = end
            /\ at' = [at EXCEPT ![r] = "send"] \/ at' = [at EXCEPT ![r] = "list"]
         \/ Listing(r) \cap Tests # {} /\ at' = [at EXCEPT ![r] = "get"] /\ end' = end
  BY SubmitAssumption DEF List, EndRound, Over
<1>4. Monotone /\ Sources' /\ \A q \in Requests \ {r} : Same(q)
  <2>1. Monotone /\ \A q \in Requests \ {r} : Same(q)
    BY <1>2, <1>3 DEF Monotone, Same, TypeOK
  <2> QED BY <1>2, <2>1, SourcesKept DEF Contents
<1>5. /\ end[r] = "none" /\ promised[r] \subseteq objects /\ promised[r] # {}
      /\ agent[r] = "none" /\ job[r] = "unacked"
  BY <1>1, <1>3 DEF Job, Promise, Worker
<1>6. Bucket(r) = Own => Listing(r) = objects \ {Marker}
  BY DEF Listing
<1>7. Bucket(r)' = Bucket(r)
  BY <1>2 DEF Bucket
<1>8. Promise(r)' /\ Reads(r)' /\ OwnSource(r)'
  BY <1>1, <1>2, <1>5, <1>7 DEF Job, Promise, Reads, OwnSource, Running
<1>9. Worker(r)'
  BY <1>2, <1>3, <1>5, <1>6, <1>7 DEF Worker, TypeOK
<1>10. Downloaded(r)'
  <2>1. /\ listed'[r] = Listing(r) \cap Tests /\ todo'[r] = listed'[r]
        /\ at'[r] \in {"ack", "send", "list", "get"}
        /\ at'[r] = "send" => listed'[r] = {}
        /\ at'[r] = "get" => listed'[r] # {}
    BY <1>3 DEF TypeOK
  <2>2. Bucket(r)' = Own => promised'[r] \cap Tests \subseteq listed'[r]
    BY <1>2, <1>5, <1>6, <1>7, <2>1, SubmitAssumption
  <2> QED BY <2>1, <2>2 DEF Downloaded, Downloading, Judging
<1> QED BY <1>1, <1>2, <1>3, <1>4, <1>5, <1>8, <1>9, <1>10, MoveStep DEF Job

\* A file is truncated: for every other job it is being written by this one.
LEMMA GetStep == ASSUME IInv, NEW r \in Requests, Get(r) PROVE IInv'
<1> USE DEF IInv
<1>1. TypeOK' /\ Job(r)
  BY WorkerType DEF Work
<1>2. at[r] = "get" /\ todo[r] # {}
  BY <1>1 DEF Get, Job, Downloaded, Downloading
<1>3. PICK c \in Tests : c = Current(r) /\ c \in todo[r]
  BY <1>2, CurrentFacts
<1>4. request[r] = "accepted" /\ end[r] = "none" /\ agent[r] = "none" /\ job[r] = "unacked"
  BY <1>1, <1>2 DEF Job, Promise, Worker
<1>5. /\ at' = [at EXCEPT ![r] = "copy"]
      /\ disk' = [disk EXCEPT ![c] = "part"] /\ writer' = [writer EXCEPT ![c] = r]
      /\ UNCHANGED <<objects, submission, request, promised, job, failed, source, listed, todo,
                     next, agent, compiled, end>>
  BY <1>3 DEF Get, dispatcherVars, requestVars, faultVars
<1>6. Monotone /\ Sources' /\ \A q \in Requests \ {r} : Same(q)
  <2>1. Monotone /\ \A q \in Requests \ {r} : Same(q)
    BY <1>5 DEF Monotone, Same, TypeOK
  <2> QED BY <1>5, <2>1, SourcesKept DEF Contents
<1>7. \A q \in Requests : Current(q)' = Current(q) /\ Bucket(q)' = Bucket(q)
  BY <1>5, CurrentSame DEF Bucket
<1>8. disk'[c] = "part" /\ writer'[c] = r /\ at'[r] = "copy"
  BY <1>3, <1>5 DEF TypeOK
<1>9. \A q \in Requests \ {r} : Written(q, c)'
  BY <1>3, <1>7, <1>8 DEF Written
<1>10. ASSUME NEW q \in Requests, NEW k \in Tests \ {c}
       PROVE  /\ Written(q, k) => Written(q, k)'
              /\ disk'[k] = disk[k] /\ writer'[k] = writer[k]
  <2>1. disk'[k] = disk[k] /\ writer'[k] = writer[k]
    BY <1>5 DEF TypeOK
  <2>2. \A w \in Requests : at[w] = "copy" => at'[w] = "copy"
    BY <1>2, <1>5 DEF TypeOK
  <2> QED BY <1>5, <1>6, <1>7, <2>1, <2>2, OtherKept DEF Written
<1>11. \A q \in Requests \ {r} : Job(q)'
  <2>1. \A q \in Requests \ {r} : Holds(q)
    BY <1>8, <1>9, <1>10 DEF Holds
  <2> QED BY <1>6, <2>1, OthersKeep
<1>12. Job(r)'
  <2>1. Promise(r)' /\ Worker(r)' /\ Reads(r)' /\ OwnSource(r)'
    BY <1>1, <1>4, <1>5, <1>7, <1>8 DEF Job, Promise, Worker, Reads, OwnSource, Running
  <2>2. Downloaded(r)'
    <3>1. listed[r] \subseteq Tests /\ todo[r] \subseteq Tests
      BY DEF TypeOK
    <3> QED BY <1>1, <1>2, <1>3, <1>5, <1>7, <1>8, <1>10, <3>1
            DEF Job, Downloaded, Downloading
  <2> QED BY <2>1, <2>2 DEF Job
<1>13. \A k \in Tests : Content(k)'
  <2>1. Content(c)'
    BY <1>4, <1>5, <1>8, RunnerAssumption DEF Content
  <2>2. ASSUME NEW k \in Tests \ {c}
        PROVE  Content(k)'
    BY <1>5, <1>6, <1>10, <2>2 DEF Contents, Content, Bucket
  <2> QED BY <2>1, <2>2
<1> QED BY <1>1, <1>6, <1>11, <1>12, <1>13 DEF Contents

\* What a job that is downloading file c may write there: where that is not its
\* own bucket's content, two buckets are named.
LEMMA WriteFacts ==
    ASSUME IInv, NEW r \in Requests, at[r] = "copy"
    PROVE  LET c == Current(r)
           IN /\ c \in Tests /\ c \in todo[r] /\ disk[c] # "absent"
              /\ Written(r, c) \/ writer[c] = r
              /\ request[r] = "accepted" /\ end[r] = "none"
              /\ agent[r] = "none" /\ job[r] = "unacked"
              /\ writer[c] \in Requests /\ request[writer[c]] = "accepted"
              /\ disk[c] \in Buckets \cup {"part", "mixed"}
              /\ disk[c] \notin {"part", Bucket(r)} =>
                     \A q \in Requests : OtherBucketNamed(q)
<1> USE DEF IInv
<1>1. Job(r) /\ todo[r] # {}
  BY DEF Job, Downloaded, Downloading
<1>2. PICK c \in Tests : c = Current(r) /\ c \in todo[r]
  BY <1>1, CurrentFacts
<1>3. disk[c] # "absent" /\ (Written(r, c) \/ writer[c] = r)
  BY <1>1, <1>2 DEF Job, Downloaded, Downloading
<1>4. request[r] = "accepted" /\ end[r] = "none" /\ agent[r] = "none" /\ job[r] = "unacked"
  BY <1>1 DEF Job, Promise, Worker
<1>5. Content(c) /\ disk[c] \in Buckets \cup {"part", "mixed"}
  BY <1>3 DEF Contents, TypeOK
<1>6. disk[c] \notin {"part", Bucket(r)} => \A q \in Requests : OtherBucketNamed(q)
  BY <1>4, <1>5 DEF Content, OtherBucketNamed
<1> QED BY <1>2, <1>3, <1>4, <1>5, <1>6 DEF Content

\* Bytes of two buckets are mixed: both are named.
LEMMA OverwriteStep == ASSUME IInv, NEW r \in Requests, Overwrite(r) PROVE IInv'
<1> USE DEF IInv
<1>1. TypeOK'
  BY WorkerType
<1>2. at[r] = "copy"
  BY DEF Overwrite
<1>3. PICK c \in Tests : c = Current(r) /\ disk[c] # "absent"
  BY <1>2, WriteFacts
<1>4. /\ disk' = [disk EXCEPT ![c] = "mixed"] /\ Bucket(writer[c]) # Bucket(r)
      /\ UNCHANGED <<objects, submission, request, promised, job, failed, source, writer, at,
                     listed, todo, next, agent, compiled, end>>
  BY <1>3 DEF Overwrite, dispatcherVars, requestVars, faultVars, workerVars
<1>5. /\ writer[c] \in Requests /\ request[writer[c]] = "accepted" /\ request[r] = "accepted"
  BY <1>2, <1>3, WriteFacts
<1>6. Monotone /\ Sources' /\ \A q \in Requests : Same(q)
  <2>1. Monotone /\ \A q \in Requests : Same(q)
    BY <1>4 DEF Monotone, Same
  <2> QED BY <1>4, <2>1, SourcesKept DEF Contents
<1>7. \A q \in Requests, k \in Tests : Written(q, k)'
  <2>1. \A q \in Requests : OtherBucketNamed(q)
    BY <1>4, <1>5 DEF OtherBucketNamed
  <2> QED BY <1>6, <2>1, OtherKept DEF Written
<1>8. \A k \in Tests : disk'[k] = (IF k = c THEN "mixed" ELSE disk[k])
  BY <1>4 DEF TypeOK
<1>9. \A q \in Requests : Job(q)'
  <2>1. \A q \in Requests : Holds(q)
    BY <1>7, <1>8 DEF Holds
  <2> QED BY <1>6, <2>1, OthersKeep
<1>10. \A k \in Tests : Content(k)'
  <2>1. Content(c)'
    BY <1>4, <1>5, <1>8, RunnerAssumption DEF Content, Bucket
  <2>2. ASSUME NEW k \in Tests \ {c}
        PROVE  Content(k)'
    BY <1>4, <1>8, <2>2 DEF Contents, Content, Bucket
  <2> QED BY <2>1, <2>2
<1> QED BY <1>1, <1>6, <1>9, <1>10 DEF Contents

\* A download is complete: the file is as in the bucket, or somebody else's.
LEMMA CopyStep == ASSUME IInv, NEW r \in Requests, Copy(r) PROVE IInv'
<1> USE DEF IInv
<1>1. TypeOK' /\ Job(r)
  BY WorkerType DEF Work
<1>2. at[r] = "copy"
  BY DEF Copy
<1>3. PICK c \in Tests :
          /\ c = Current(r) /\ c \in todo[r] /\ disk[c] # "absent"
          /\ Written(r, c) \/ writer[c] = r
          /\ disk[c] \notin {"part", Bucket(r)} => \A q \in Requests : OtherBucketNamed(q)
  BY <1>2, WriteFacts
<1>4. /\ request[r] = "accepted" /\ end[r] = "none" /\ agent[r] = "none" /\ job[r] = "unacked"
  BY <1>2, WriteFacts
<1>5. PICK content :
          /\ disk' = [disk EXCEPT ![c] = content]
          /\ \/ content = Bucket(r)
             \/ content = "mixed" /\ disk[c] \notin {"part", Bucket(r)}
             \/ content = disk[c] /\ writer[c] # r
  BY <1>3, CopiedFacts DEF Copy
<1>6. /\ todo' = [todo EXCEPT ![r] = @ \ {c}]
      /\ IF todo[r] # {c}
         THEN at' = [at EXCEPT ![r] = "get"]
         ELSE at' = [at EXCEPT ![r] = "list"] \/ at' = [at EXCEPT ![r] = "send"]
      /\ UNCHANGED <<objects, submission, request, promised, job, failed, writer, source,
                     listed, next, agent, compiled, end>>
  BY <1>3 DEF Copy, NextFile, EndRound, dispatcherVars, requestVars, faultVars
<1>7. Monotone /\ Sources' /\ \A q \in Requests \ {r} : Same(q)
  <2>1. Monotone /\ \A q \in Requests \ {r} : Same(q)
    BY <1>6 DEF Monotone, Same, TypeOK
  <2> QED BY <1>6, <2>1, SourcesKept DEF Contents
<1>8. /\ \A q \in Requests \ {r} : Current(q)' = Current(q)
      /\ \A q \in Requests : Bucket(q)' = Bucket(q)
      /\ \A q \in Requests \ {r} : at'[q] = at[q]
      /\ \A k \in Tests : disk'[k] = (IF k = c THEN content ELSE disk[k])
  BY <1>5, <1>6, <1>7, CurrentSame DEF Bucket, Same, TypeOK
<1>9. content # "absent"
  BY <1>3, <1>5, BucketFacts
<1>10. ASSUME NEW q \in Requests, content # disk[c] \/ writer[c] = r
       PROVE  Written(q, c)'
  <2>1. CASE content = Bucket(r)
    BY <1>4, <1>6, <1>8, <2>1 DEF Written, OtherBucketNamed
  <2>2. CASE content # Bucket(r)
    BY <1>3, <1>5, <1>7, <1>10, <2>2, OtherKept DEF Written
  <2> QED BY <2>1, <2>2
<1>11. ASSUME NEW q \in Requests, NEW k \in Tests, Written(q, k)
       PROVE  Written(q, k)'
  <2>1. CASE k # c \/ (content = disk[c] /\ writer[c] # r)
    BY <1>3, <1>4, <1>6, <1>7, <1>8, <1>11, <2>1, OtherKept DEF Written
  <2> QED BY <1>10, <2>1
<1>12. \A q \in Requests \ {r} : Job(q)'
  <2>1. \A q \in Requests \ {r} : Holds(q)
    BY <1>6, <1>8, <1>9, <1>11 DEF Holds
  <2> QED BY <1>7, <2>1, OthersKeep
<1>13. Job(r)'
  <2>1. at'[r] \in {"get", "list", "send"} /\ todo'[r] = todo[r] \ {c}
    BY <1>6 DEF TypeOK
  <2>2. Promise(r)' /\ Worker(r)' /\ Reads(r)' /\ OwnSource(r)'
    BY <1>1, <1>4, <1>6, <1>8, <2>1 DEF Job, Promise, Worker, Reads, OwnSource, Running
  <2>3. Downloaded(r)'
    <3>1. listed[r] \subseteq Tests /\ Downloaded(r) /\ at[r] \in Downloading
      BY <1>1, <1>2 DEF TypeOK, Job, Downloading
    <3>2. \A k \in listed[r] \ todo'[r] : disk'[k] # "absent" /\ Written(r, k)'
      BY <1>3, <1>8, <1>9, <1>10, <1>11, <2>1, <3>1 DEF Downloaded
    <3>3. at'[r] \in Downloading <=> todo'[r] # {}
      BY <1>3, <1>6, <2>1 DEF Downloading, TypeOK
    <3> QED BY <1>6, <1>8, <2>1, <3>1, <3>2, <3>3 DEF Downloaded
  <2> QED BY <2>2, <2>3 DEF Job
<1>14. \A k \in Tests : Content(k)'
  <2>1. Content(c)'
    <3>1. Content(c)
      BY DEF Contents
    <3>2. writer'[c] = writer[c] /\ disk'[c] = content
      BY <1>6, <1>8
    <3>3. CASE content = Bucket(r)
      BY <1>3, <1>4, <1>6, <1>8, <3>1, <3>2, <3>3, BucketFacts DEF Content
    <3>4. CASE content = "mixed" /\ disk[c] \notin {"part", Bucket(r)}
      <4>1. \E q \in Requests : request[q] = "accepted" /\ Bucket(q) # Bucket(r)
        BY <1>3, <3>4 DEF OtherBucketNamed
      <4> QED BY <1>3, <1>4, <1>6, <1>8, <3>1, <3>2, <3>4, <4>1, RunnerAssumption DEF Content
    <3>5. CASE content = disk[c]
      BY <1>6, <1>8, <3>1, <3>2, <3>5 DEF Content
    <3> QED BY <1>5, <3>3, <3>4, <3>5
  <2>2. ASSUME NEW k \in Tests \ {c}
        PROVE  Content(k)'
    BY <1>6, <1>8, <2>2 DEF Contents, Content
  <2> QED BY <2>1, <2>2
<1> QED BY <1>1, <1>7, <1>12, <1>13, <1>14 DEF Contents

\* The specification is sent, a call fails, or the wait for the agent is over.
LEMMA SendStep ==
    ASSUME IInv, NEW r \in Requests, Send(r) \/ Fails(r) \/ Kill(r) \/ WaitFails(r) PROVE IInv'
<1> USE DEF IInv
<1>1. TypeOK' /\ Job(r)
  BY WorkerType DEF Work
<1>2. /\ UNCHANGED <<objects, submission, request, promised, job, disk, writer, source, listed,
                     todo, next, compiled>>
      /\ failed \subseteq failed'
  BY DEF Send, Fails, Kill, WaitFails, dispatcherVars, requestVars, faultVars, diskVars, Failing
<1>3. \/ /\ at[r] = "send" /\ agent'[r] \in Running
         /\ \/ at'[r] = "wait" /\ end'[r] = end[r]
            \/ at'[r] = "ack" /\ end'[r] = "failed" /\ r \in failed'
      \/ /\ at'[r] = "ack" /\ end'[r] = "failed" /\ r \in failed' /\ agent'[r] = agent[r]
         /\ at[r] \in {"prepare", "list", "get", "copy", "send"}
      \/ /\ at[r] = "wait" /\ at'[r] = "ack" /\ end'[r] = "returned"
         /\ agent'[r] = "killed" \/ (agent'[r] = agent[r] /\ r \in failed')
  BY DEF Send, Fails, Kill, WaitFails, Over, Failing, Running, TypeOK
<1>4. \A q \in Requests \ {r} : at'[q] = at[q] /\ end'[q] = end[q] /\ agent'[q] = agent[q]
  BY DEF Send, Fails, Kill, WaitFails, Over, TypeOK
<1>5. Monotone /\ Sources' /\ \A q \in Requests \ {r} : Same(q)
  <2>1. Monotone /\ \A q \in Requests \ {r} : Same(q)
    BY <1>2, <1>4 DEF Monotone, Same
  <2> QED BY <1>2, <2>1, SourcesKept DEF Contents
<1>6. end[r] = "none" /\ job[r] = "unacked"
  BY <1>1, <1>3 DEF Job, Worker
<1>7. ASSUME Holds(r) PROVE Job(r)'
  <2>1. Bucket(r)' = Bucket(r)
    BY <1>2 DEF Bucket
  <2>2. Promise(r)' /\ OwnSource(r)'
    BY <1>1, <1>2 DEF Job, Promise, OwnSource
  <2>3. Worker(r)'
    BY <1>1, <1>2, <1>3, <1>6, <2>1 DEF Job, Worker, Running, Ended
  <2>4. Downloaded(r)'
    <3>1. listed[r] \subseteq Tests
      BY DEF TypeOK
    <3>2. at'[r] = "ack" \/ (at[r] = "send" /\ at'[r] = "wait")
      BY <1>3
    <3> QED BY <1>1, <1>2, <1>7, <2>1, <3>1, <3>2
            DEF Job, Downloaded, Downloading, Judging, Holds
  <2>5. Reads(r)'
    <3>1. CASE at[r] = "send" /\ agent'[r] \in Running
      <4>1. /\ Bucket(r) = Own => promised[r] \cap Tests \subseteq listed[r]
            /\ todo[r] = {} /\ \A k \in listed[r] : disk[k] # "absent"
        BY <1>1, <3>1 DEF Job, Downloaded, Downloading, Judging
      <4> QED BY <1>2, <2>1, <3>1, <4>1 DEF Reads, Running
    <3>2. CASE agent'[r] = agent[r]
      BY <1>1, <1>2, <2>1, <3>2 DEF Job, Reads, Reach
    <3>3. CASE agent'[r] = "killed"
      BY <3>3 DEF Reads, Running
    <3> QED BY <1>3, <3>1, <3>2, <3>3
  <2> QED BY <2>2, <2>3, <2>4, <2>5 DEF Job
<1>8. at[r] = "copy" => end'[r] = "failed"
  BY <1>3
<1> QED BY <1>1, <1>2, <1>5, <1>6, <1>7, <1>8, MoveStep

\* A delivery is taken, or acknowledged.
LEMMA QueueStep == ASSUME IInv, NEW r \in Requests, Take(r) \/ Ack(r) PROVE IInv'
<1> USE DEF IInv
<1>1. TypeOK' /\ Job(r)
  BY WorkerType DEF Work
<1>2. UNCHANGED <<objects, submission, request, promised, failed, disk, writer, source, next,
                  agent, end>>
  BY DEF Take, Ack, requestVars, faultVars, diskVars
<1>3. \/ /\ job[r] = "ready" /\ job'[r] = "unacked" /\ at'[r] = "prepare"
         /\ compiled'[r] = compiled[r]
      \/ /\ job[r] = "unacked" /\ job'[r] = "acked" /\ at[r] = "ack" /\ at'[r] = "idle"
         /\ compiled'[r] \in {compiled[r], NoRequest}
  BY DEF Take, Ack, Q!Take, Q!Finish, TypeOK
<1>4. Monotone /\ Sources' /\ \A q \in Requests \ {r} : Same(q)
  <2>1. Monotone /\ \A q \in Requests \ {r} : Same(q)
    BY <1>2 DEF Monotone, Same, Take, Ack, Q!Take, Q!Finish, TypeOK
  <2> QED BY <1>2, <2>1, SourcesKept DEF Contents
<1>5. Bucket(r)' = Bucket(r)
  BY <1>2 DEF Bucket
<1>6. Job(r)'
  <2>1. Promise(r)' /\ Reads(r)' /\ OwnSource(r)'
    BY <1>1, <1>2, <1>3, <1>5 DEF Job, Promise, Reads, Reach, OwnSource
  <2>2. Worker(r)'
    BY <1>1, <1>2, <1>3, <1>5 DEF Job, Worker, Ended
  <2>3. Downloaded(r)'
    BY <1>3 DEF Downloaded, Downloading, Judging
  <2> QED BY <2>1, <2>2, <2>3 DEF Job
<1>7. at[r] # "copy"
  BY <1>1, <1>3 DEF Job, Worker
<1> QED BY <1>1, <1>2, <1>4, <1>6, <1>7, MoveStep

\* The compiler reads a source of r's path; the agent stops at a test of the
\* testset only when it has run it.
LEMMA JudgeStep == ASSUME IInv, NEW r \in Requests, Judge(r) PROVE IInv'
<1> USE DEF IInv
<1>1. TypeOK' /\ Job(r)
  BY WorkerType
<1>2. UNCHANGED <<objects, submission, request, promised, job, failed, disk, writer, source,
                  listed, todo>>
  BY DEF Judge, Compile, Test, Conclude, dispatcherVars, requestVars, faultVars, diskVars
<1>3. /\ agent[r] \in Running /\ agent'[r] \in Running \cup {"stopped", "concluded"}
      /\ \/ at'[r] = at[r] /\ end'[r] = end[r] /\ (agent'[r] \in Ended => at[r] # "wait")
         \/ /\ at[r] = "wait" /\ at'[r] = "ack" /\ end'[r] = "returned"
            /\ agent'[r] \in Ended
  BY DEF Judge, Compile, Test, Conclude, Stop, Over, Running, Ended, TypeOK
<1>4. Monotone /\ Sources' /\ \A q \in Requests \ {r} : Same(q)
  <2>1. \A q \in Requests \ {r} :
            /\ at'[q] = at[q] /\ end'[q] = end[q] /\ agent'[q] = agent[q]
            /\ next'[q] = next[q] /\ compiled'[q] = compiled[q]
    BY DEF Judge, Compile, Test, Conclude, Stop, Over, TypeOK
  <2>2. Monotone /\ \A q \in Requests \ {r} : Same(q)
    BY <1>2, <2>1 DEF Monotone, Same
  <2> QED BY <1>2, <2>2, SourcesKept DEF Contents
<1>5. Bucket(r)' = Bucket(r) /\ at[r] # "copy"
  BY <1>1, <1>2, <1>3 DEF Bucket, Job, Worker, Running
<1>6. OwnSource(r)'
  <2>1. CASE Compile(r)
    <3>1. Path(r) \in Paths /\ compiled'[r] = source[Path(r)]
      BY <2>1 DEF Compile, Path, Paths, TypeOK
    <3>2. ASSUME source[Path(r)] # NoRequest
          PROVE  /\ request[source[Path(r)]] = "accepted" /\ source[Path(r)] \in Requests
                 /\ Path(source[Path(r)]) = Path(r)
      BY <3>1, <3>2 DEF Contents, Sources, TypeOK
    <3>3. \A q \in Requests : Path(q) = Path(r) => submission[q].id = submission[r].id
      BY DEF Path
    <3> QED BY <1>2, <3>1, <3>2, <3>3 DEF OwnSource
  <2>2. CASE Test(r) \/ Conclude(r)
    BY <1>1, <1>2, <2>2 DEF Test, Conclude, Job, OwnSource
  <2> QED BY <2>1, <2>2 DEF Judge
<1>7. Reads(r)'
  <2>1. ASSUME Conclude(r), Bucket(r) = Own, NEW k \in Reach(promised[r])
        PROVE  k < next[r]
    <3>1. next[r] \notin promised[r] \cap Tests
      BY <1>1, <1>3, <2>1 DEF Conclude, Job, Reads
    <3>2. 1..k \subseteq promised[r] /\ k \in Tests
      BY <2>1 DEF Reach
    <3>3. 1..k \subseteq Tests /\ k \in Nat /\ next[r] \in Nat \ {0}
      BY <3>2, SubmitAssumption DEF TypeOK, Tests
    <3> QED BY <3>1, <3>2, <3>3
  <2>2. CASE Conclude(r)
    <3>1. next'[r] = next[r] /\ agent'[r] = "concluded"
      BY <2>2 DEF Conclude, Stop, TypeOK
    <3> QED BY <1>2, <1>5, <2>1, <2>2, <3>1 DEF Reads, Reach, Running
  <2>3. CASE Compile(r) \/ Test(r)
    <3>1. agent'[r] \in Running \cup {"stopped"}
      BY <2>3 DEF Compile, Test, Stop, Running, TypeOK
    <3> QED BY <1>1, <1>2, <1>3, <1>5, <3>1 DEF Job, Reads, Running
  <2> QED BY <2>2, <2>3 DEF Judge
<1>8. ASSUME Holds(r) PROVE Job(r)'
  <2>1. Promise(r)'
    BY <1>1, <1>2 DEF Job, Promise
  <2>2. Worker(r)'
    BY <1>1, <1>2, <1>3, <1>5 DEF Job, Worker, Running, Ended
  <2>3. Downloaded(r)'
    <3>1. listed[r] \subseteq Tests
      BY DEF TypeOK
    <3> QED BY <1>1, <1>2, <1>3, <1>5, <1>8, <3>1
            DEF Job, Downloaded, Downloading, Judging, Holds
  <2> QED BY <1>6, <1>7, <2>1, <2>2, <2>3 DEF Job
<1>9. end[r] = "failed" => end'[r] = "failed"
  BY <1>1, <1>3 DEF Job, Worker
<1> QED BY <1>1, <1>2, <1>4, <1>5, <1>8, <1>9, MoveStep

\* Nobody is at work after a crash; what was taken is in the queue again.
LEMMA CrashStep == ASSUME IInv, Crash PROVE IInv'
<1> USE DEF IInv
<1>1. TypeOK'
  BY CrashType
<1>2. /\ UNCHANGED <<objects, submission, request, promised, failed, disk, writer, source>>
      /\ \A r \in Requests :
             /\ at'[r] = "idle"
             /\ job'[r] = IF job[r] = "unacked" THEN "ready" ELSE job[r]
             /\ end'[r] = IF at[r] = "idle" THEN end[r] ELSE "none"
             /\ next'[r] = IF at[r] = "idle" THEN next[r] ELSE 1
             /\ agent'[r] = IF at[r] = "idle" THEN agent[r] ELSE "none"
             /\ compiled'[r] = IF at[r] = "idle" THEN compiled[r] ELSE NoRequest
  BY DEF Crash, Forget, Q!GiveBack, requestVars, diskVars, TypeOK
<1>3. Monotone
  BY <1>2 DEF Monotone
<1>4. Contents'
  BY <1>2, <1>3, ContentKept, SourcesKept DEF Contents
<1>5. ASSUME NEW r \in Requests
      PROVE  Job(r)'
  <2>1. Job(r) /\ Bucket(r)' = Bucket(r)
    BY <1>2 DEF Bucket
  <2>2. Promise(r)' /\ Downloaded(r)' /\ OwnSource(r)'
    BY <1>2, <2>1 DEF Job, Promise, Downloaded, OwnSource, Downloading, Judging
  <2>3. Worker(r)'
    BY <1>2, <2>1 DEF Job, Worker, Ended
  <2>4. Reads(r)'
    BY <1>2, <2>1 DEF Job, Reads, Reach, Running
  <2> QED BY <2>2, <2>3, <2>4 DEF Job
<1> QED BY <1>1, <1>4, <1>5

LEMMA NextStep == ASSUME IInv, [Next]_vars PROVE IInv'
<1>1. CASE Dispatch /\ UNCHANGED runnerVars
  BY <1>1, DispatchStep
<1>2. ASSUME NEW r \in Requests, Take(r) \/ Work(r) \/ Overwrite(r) \/ Judge(r) \/ Store(r)
      PROVE  IInv'
  BY <1>2, QueueStep, PrepareStep, ListStep, GetStep, CopyStep, OverwriteStep, SendStep,
     JudgeStep, DispatchStep
  DEF Work
<1>3. CASE Crash
  BY <1>3, CrashStep
<1>4. CASE UNCHANGED vars
  <2> USE DEF vars, dispatcherVars, requestVars, faultVars, IInv
  <2>1. TypeOK'
    BY <1>4 DEF TypeOK, runnerVars, diskVars, workerVars
  <2>2. Monotone /\ \A r \in Requests : Promise(r)'
    BY <1>4 DEF Monotone, Job, Promise
  <2> QED BY <1>4, <2>1, <2>2, DispatchFrame
<1> QED BY <1>1, <1>2, <1>3, <1>4 DEF Next

-----------------------------------------------------------------------------
\* The directories and the workers of the runner are in order for every job, in
\* every state.
THEOREM Inductive == Spec => []IInv
<1>1. Init => IInv
  BY InitHolds
<1>2. IInv /\ [Next]_vars => IInv'
  BY NextStep
<1> QED BY <1>1, <1>2, PTL DEF Spec

\* Every variable keeps its range.
THEOREM TypeCorrect == Spec => []TypeOK
<1>1. IInv => TypeOK
  BY DEF IInv
<1> QED BY <1>1, Inductive, PTL

\* Whoever else downloads, from whichever bucket, fails or crashes, a judging that
\* goes to its end has run all tests there were when the submission was validated.
THEOREM WholeTestsets == Spec => []WholeTestset
<1>1. IInv => WholeTestset
  BY DEF IInv, Job, Reads, WholeTestset
<1> QED BY <1>1, Inductive, PTL

\* While ExecSubm waits for an agent, a test that its job listed is as in its
\* bucket, unless a job that names another one was accepted, or another is just
\* downloading the test or has failed to.
THEOREM OwnDownloads == Spec => []OwnDownloadWhole
<1>1. IInv => OwnDownloadWhole
  <2>1. SUFFICES ASSUME IInv, NEW r \in Requests, at[r] \in Judging, NEW k \in listed[r],
                        disk[k] # Bucket(r), ~OtherBucketNamed(r)
                 PROVE  /\ writer[k] \notin {r, NoRequest}
                        /\ at[writer[k]] = "copy" \/ end[writer[k]] = "failed"
    BY DEF OwnDownloadWhole, Judging
  <2>2. Written(r, k)
    BY <2>1 DEF IInv, Job, Downloaded, Downloading, Judging
  <2> QED BY <2>1, <2>2, RunnerAssumption DEF Written
<1> QED BY <1>1, Inductive, PTL

\* A job is turned away for an empty testset only where the dispatcher did not
\* look, or found a folder marker.
THEOREM EmptyTestsets == Spec => []EmptyHasNoFile
<1>1. IInv => EmptyHasNoFile
  BY DEF IInv, Job, Worker, EmptyHasNoFile
<1> QED BY <1>1, Inductive, PTL

\* Only a submission that was accepted with the same id can be compiled instead.
THEOREM OwnSources == Spec => []OwnSourceUnlessShared
<1>1. IInv => OwnSourceUnlessShared
  BY DEF IInv, Job, OwnSource, OwnSourceUnlessShared
<1> QED BY <1>1, Inductive, PTL

\* However often the runner crashes and whatever calls fail, an accepted
\* submission is in the queue, at a worker, or answered: with a failure only when
\* one of its own calls failed.
THEOREM NoneLost == Spec => []NoJobIsLost
<1>1. IInv => NoJobIsLost
  <2>1. SUFFICES ASSUME IInv, NEW r \in Requests, request[r] = "accepted", ~Unpublished(r)
                 PROVE  \/ job[r] = "ready" /\ at[r] = "idle"
                        \/ job[r] = "unacked" /\ at[r] # "idle"
                        \/ Answered(r)
    BY DEF NoJobIsLost
  <2>2. Promise(r) /\ Worker(r)
    BY <2>1 DEF IInv, Job
  <2>3. job[r] \in {"ready", "unacked", "acked"}
    BY <2>1, <2>2 DEF IInv, TypeOK, Q!States, Promise, Unpublished
  <2>4. end[r] \in {"none", "failed", "empty", "returned"}
    BY <2>1 DEF IInv, TypeOK
  <2> QED BY <2>2, <2>3, <2>4 DEF Worker, Answered
<1> QED BY <1>1, Inductive, PTL

\* No accepted submission is lost, or turned away for a testset that has files.
THEOREM Keeps == Spec => []JobsKept
BY EmptyTestsets, NoneLost, PTL DEF JobsKept

\* The shared directory has for each agent what was validated for its job, whole
\* as far as no other job is in the way.
THEOREM Testsets == Spec => []TestsetsWhole
BY WholeTestsets, OwnDownloads, PTL DEF TestsetsWhole
=============================================================================
