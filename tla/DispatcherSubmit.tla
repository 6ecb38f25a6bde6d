-------------------------- MODULE DispatcherSubmit --------------------------
(***************************************************************************)
(* What happens before a job is in the queue: the SDK uploads the files of *)
(* a testset one by one with presigned URLs (client.py), the dispatcher    *)
(* validates submissions against S3 (prepare.go) and publishes them        *)
(* (endpoints.go).  One testset; its test number k stands for the two      *)
(* files k.in and k.out.  The queue is the one that JobDelivery describes. *)
(***************************************************************************)
EXTENDS Naturals, FiniteSets

CONSTANTS
    Requests,    \* POSTs to /submit
    Sends,       \* [Requests -> SubmissionSpecs that may be in it: an id, which
                 \* clients may repeat, a language, and a bucket]
    MaxTest,     \* the testset on the client's disk is 1..MaxTest
    Other,       \* a key there that ends in neither .in nor .out
    Marker,      \* a folder marker, a key that ends in "/"
    Own,         \* the bucket that the dispatcher looks into
    Elsewhere,   \* [other buckets -> keys they have under the testset's id]
    MaxFaults    \* bound on jobs with a call that fails after the submission was
                 \* accepted, and crashes of the runner

Tests == 1..MaxTest
Keys == Tests \cup {Other, Marker}
Buckets == DOMAIN Elsewhere \cup {Own}

Submissions == UNION {Sends[r] : r \in Requests}
Ids == {s.id : s \in Submissions}

\* availableLanguages
Available == {"c", "cpp", "java", "python", "go", "js"}

ASSUME SubmitAssumption ==
    /\ IsFiniteSet(Requests) /\ MaxTest \in Nat \ {0} /\ MaxFaults \in Nat
    /\ Other \notin Tests /\ Marker \notin Tests /\ Other # Marker
    /\ Own \notin DOMAIN Elsewhere /\ \A b \in DOMAIN Elsewhere : Elsewhere[b] \subseteq Keys
    /\ \A s \in Submissions :
          /\ s = [id |-> s.id, language |-> s.language, bucket |-> s.bucket]
          /\ s.bucket \in Buckets

VARIABLES
    objects,     \* keys under the testset's id in the dispatcher's bucket
    stored,      \* ids under whose prefix S3 has an object
    submission,  \* [Requests -> its SubmissionSpec]
    request,     \* [Requests -> where SubmissionReciever is with it]
    promised,    \* [Requests -> the keys in S3 when it was validated] (history)
    job,         \* [Requests -> state of its message in the job queue]
    failed,      \* jobs one of whose calls has failed, after they were accepted
    crashes      \* crashes of the runner so far

requestVars == <<submission, request, promised>>
faultVars == <<failed, crashes>>
dispatcherVars == <<objects, stored, requestVars, job, faultVars>>

\* the job queue
Q == INSTANCE JobDelivery WITH Jobs <- Requests, Malformed <- {}, status <- job

DInit ==
    /\ objects \in SUBSET {Marker}
    /\ stored = {}
    /\ submission \in {f \in [Requests -> Submissions] : \A r \in Requests : f[r] \in Sends[r]}
    /\ request = [r \in Requests |-> "unsent"]
    /\ promised = [r \in Requests |-> {}]
    /\ Q!Init
    /\ failed = {}
    /\ crashes = 0

\* a call for r fails
Failing(r) ==
    /\ Cardinality(failed \cup {r}) + crashes <= MaxFaults
    /\ failed' = failed \cup {r}
    /\ UNCHANGED crashes

-----------------------------------------------------------------------------
(* upload_testset; it stops where one of its two requests fails *)

\* The next file that os.walk yields: POST /presignedkey, which changes nothing
\* but what the client knows, and PUT to the URL it gives.
Upload(k) ==
    /\ k \notin objects
    /\ objects' = objects \cup {k}
    /\ UNCHANGED <<stored, requestVars, job, faultVars>>

-----------------------------------------------------------------------------
(* SubmissionReciever *)

\* KeyCount > 0: is there an object under the prefix, one of these keys?  Any
\* counts, a folder marker too.
CheckS3Dir(keys) == keys # {}

\* The body decodes, CheckS3Dir finds no object under the id's prefix, and the
\* language is known.  Or the body does not decode, the call fails, or the
\* client has left and the request's context with it: status 400.
CheckId(r) ==
    /\ request[r] = "unsent"
    /\ \/ /\ ~CheckS3Dir(stored \cap {submission[r].id})
          /\ submission[r].language \in Available
          /\ request' = [request EXCEPT ![r] = "testset"]
       \/ request' = [request EXCEPT ![r] = "refused"]
    /\ UNCHANGED <<objects, stored, submission, promised, job, faultVars>>

\* a mistake: only the error of the call is looked at, not its answer
CheckTestsetError(r) ==
    /\ request[r] = "testset"
    /\ \/ /\ request' = [request EXCEPT ![r] = "publish"]
          /\ promised' = [promised EXCEPT ![r] = objects]
       \/ request' = [request EXCEPT ![r] = "refused"] /\ UNCHANGED promised
    /\ UNCHANGED <<objects, stored, submission, job, faultVars>>

\* one object is enough, in the dispatcher's bucket
CheckTestset(r) ==
    /\ request[r] = "testset"
    /\ \/ /\ CheckS3Dir(objects)
          /\ request' = [request EXCEPT ![r] = "publish"]
          /\ promised' = [promised EXCEPT ![r] = objects]
       \/ request' = [request EXCEPT ![r] = "refused"] /\ UNCHANGED promised
    /\ UNCHANGED <<objects, stored, submission, job, faultVars>>

\* Publish returns nil once the frames are written to the socket: nothing
\* confirms that the broker got them
Accept(r) ==
    /\ request[r] = "publish"
    /\ request' = [request EXCEPT ![r] = "accepted"]
    /\ \/ Q!Submit(r) /\ UNCHANGED faultVars
       \/ Failing(r) /\ UNCHANGED job
    /\ UNCHANGED <<objects, stored, submission, promised>>

\* status 500
PublishFails(r) ==
    /\ request[r] = "publish"
    /\ request' = [request EXCEPT ![r] = "refused"]
    /\ UNCHANGED <<objects, stored, submission, promised, job, faultVars>>

SubmissionReciever(r) ==
    CheckId(r) \/ CheckTestset(r) \/ Accept(r) \/ PublishFails(r)

Dispatch ==
    \/ \E k \in Tests : Upload(k)
    \/ \E r \in Requests : SubmissionReciever(r)
=============================================================================
