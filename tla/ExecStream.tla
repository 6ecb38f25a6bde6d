----------------------------- MODULE ExecStream -----------------------------
(***************************************************************************)
(* ExecSubm (runner/internal/exesubmission.go): one agent judging, the     *)
(* goroutine that reads its lines from the Unix socket and publishes each  *)
(* one to RabbitMQ, the uploads to S3 it starts for each line, and the     *)
(* goroutine of ExecSubm itself, which waits for the container to exit or  *)
(* for TIMEOUT_SEC and returns without waiting for the reader.             *)
(***************************************************************************)
EXTENDS AgentJudge

CONSTANTS
    MaxLogCapKB,   \* MAX_LOG_CAP_KB, limit of a line in the reader's scanner
    MayLoseRmq     \* may publishing start to fail?

ASSUME StreamAssumption == MaxLogCapKB \in Nat /\ MayLoseRmq \in BOOLEAN

VARIABLES
    reader,      \* "scanning" or "closed" (with its end of the socket)
    read,        \* lines read so far
    torn,        \* the agent was killed in the middle of a write
    published,   \* events accepted by the exchange, in order
    rmq,         \* is the publishing channel alive?
    exec,        \* ExecSubm: "waiting" or "returned"
    uploads,     \* lines whose stdout.log upload is under way
    stored       \* the line whose stdout is in S3 now; 0 when there is none

streamVars == <<reader, read, torn, published, rmq, exec, uploads, stored>>
vars == <<agentVars, streamVars>>

\* ExecSubm starts when the specification has been written to the socket whole.
SInit ==
    /\ Start("read")
    /\ reader = "scanning"
    /\ read = 0
    /\ torn = FALSE
    /\ published = <<>>
    /\ rmq = TRUE
    /\ exec = "waiting"
    /\ uploads = {}
    /\ stored = 0

\* A byte of output takes up to six in the JSON of the line, and the line holds
\* stdout and stderr, each cut at kb * 1000 bytes, and a little more: limits with
\* which a line may be longer than the scanner takes.
LongLimits == {kb \in LogLimits : 2 * 6 * kb * 1000 + 1024 > MaxLogCapKB * 1024}

\* Only these carry what a program or a compiler wrote.
CarriesOutput(e) == e.type \in {"INFO", "ERROR"}

\* json.Unmarshal of half a line fails, the error is not looked at, and the
\* zero Event is published
Blank == E!Event("", "")

AgentStep == (ReadSpec \/ Compiles \/ CompileFails \/ Judge) /\ UNCHANGED streamVars

Die(half) == torn' = half /\ Killed

\* the memory limit of the container
OutOfMemory ==
    /\ \E half \in BOOLEAN : Die(half)
    /\ UNCHANGED <<reader, read, published, rmq, exec, uploads, stored>>

-----------------------------------------------------------------------------
(* The reader goroutine *)

\* routeToRMQ: when publishing fails the error is logged and the event is gone
Publish(e) == published' = IF rmq THEN Append(published, e) ELSE published

\* mistakes: the line is published by a goroutine that sees the scanner's buffer
\* after the next Scan; the upload is named for the line before
ForwardStale ==
    /\ reader = "scanning"
    /\ read < Len(sent)
    /\ \E k \in (read + 1)..Len(sent) : Publish(sent[k])
    /\ read' = read + 1
    /\ uploads' = uploads \cup {read + 1}
    /\ UNCHANGED <<agentVars, reader, torn, rmq, exec, stored>>

ForwardOffByOne ==
    /\ reader = "scanning"
    /\ read < Len(sent)
    /\ Publish(sent[read + 1])
    /\ read' = read + 1
    /\ uploads' = uploads \cup {read}
    /\ UNCHANGED <<agentVars, reader, torn, rmq, exec, stored>>

Forward ==
    /\ reader = "scanning"
    /\ read < Len(sent)
    /\ Publish(sent[read + 1])
    /\ read' = read + 1
    /\ uploads' = uploads \cup {read + 1}
    /\ UNCHANGED <<agentVars, reader, torn, rmq, exec, stored>>

\* bufio.ErrTooLong: the goroutine returns and its deferred Close runs
LineTooLong ==
    /\ reader = "scanning"
    /\ read < Len(sent)
    /\ spec.logKB \in LongLimits
    /\ CarriesOutput(sent[read + 1])
    /\ reader' = "closed"
    /\ UNCHANGED <<agentVars, read, torn, published, rmq, exec, uploads, stored>>

\* the agent's end is closed; what is left without a newline is one more token
EndOfStream ==
    /\ reader = "scanning"
    /\ read = Len(sent)
    /\ Finished
    /\ reader' = "closed"
    /\ IF torn THEN Publish(Blank) ELSE UNCHANGED published
    /\ UNCHANGED <<agentVars, read, torn, rmq, exec, uploads, stored>>

\* s3m.UploadFileToS3 in a goroutine per line, all to the same key
UploadEnds(k) ==
    /\ k \in uploads
    /\ uploads' = uploads \ {k}
    /\ stored' \in {k, stored}          \* the upload may fail
    /\ UNCHANGED <<agentVars, reader, read, torn, published, rmq, exec>>

-----------------------------------------------------------------------------
(* ExecSubm *)

\* a mistake: close the socket when the container has exited
ExitsAndCloses ==
    /\ exec = "waiting"
    /\ Finished
    /\ exec' = "returned"
    /\ reader' = "closed"
    /\ UNCHANGED <<agentVars, read, torn, published, rmq, uploads, stored>>

Exits ==
    /\ exec = "waiting"
    /\ Finished
    /\ exec' = "returned"
    /\ UNCHANGED <<agentVars, reader, read, torn, published, rmq, uploads, stored>>

\* a mistake: return on the timeout without the kill
TimesOutNoKill ==
    /\ exec = "waiting"
    /\ exec' = "returned"
    /\ UNCHANGED <<agentVars, torn, reader, read, published, rmq, uploads, stored>>

\* ctxTimeout is done, at any moment; SIGKILL finds the agent alive or not
TimesOut ==
    /\ exec = "waiting"
    /\ exec' = "returned"
    /\ IF Finished THEN UNCHANGED <<agentVars, torn>> ELSE \E half \in BOOLEAN : Die(half)
    /\ UNCHANGED <<reader, read, published, rmq, uploads, stored>>

LoseRmq ==
    /\ MayLoseRmq
    /\ rmq
    /\ rmq' = FALSE
    /\ UNCHANGED <<agentVars, reader, read, torn, published, exec, uploads, stored>>

Reader == Forward \/ LineTooLong \/ EndOfStream

SNext ==
    \/ AgentStep
    \/ Reader
    \/ \E k \in uploads : UploadEnds(k)
    \/ Exits \/ TimesOut
    \/ OutOfMemory \/ LoseRmq

SSpec == SInit /\ [][SNext]_vars

\* The agent's own steps take bounded time; reading a specification that was
\* written and the compilation are ended by TIMEOUT_SEC if by nothing else.
SFairness ==
    /\ WF_vars(Judge /\ UNCHANGED streamVars)
    /\ WF_vars(Reader)
    /\ WF_vars(\E k \in uploads : UploadEnds(k))
    /\ WF_vars(Exits \/ TimesOut)

SFairSpec == SSpec /\ SFairness

-----------------------------------------------------------------------------
\* Every variable of ExecSubm and of its goroutines keeps its range.
STypeOK ==
    /\ TypeOK
    /\ reader \in {"scanning", "closed"}
    /\ read \in 0..Len(sent)
    /\ torn \in BOOLEAN
    /\ published \in Seq(E!Events \cup {Blank})
    /\ rmq \in BOOLEAN
    /\ exec \in {"waiting", "returned"}
    /\ uploads \subseteq 1..read
    /\ stored \in 0..read

IsBlank(k) == published[k] = Blank

\* What consumers of the exchange see is what the agent sent: a prefix of it,
\* in order and without gaps, whatever is lost, killed, or uploaded meanwhile;
\* a half line of a killed agent can only come last.
PublishedIsPrefix ==
    \A k \in DOMAIN published :
        \/ k <= Len(sent) /\ published[k] = sent[k]
        \/ IsBlank(k) /\ k = Len(published) /\ torn /\ pc = "killed"

\* Nothing the agent sent is dropped: when the reader has ended with publishing
\* alive and no line too long, all of it is published, up to the last line.
NothingDropped ==
    reader = "closed" /\ rmq /\ spec.logKB \notin LongLimits =>
        /\ Finished
        /\ published = IF torn THEN Append(sent, Blank) ELSE sent

\* What is published is what was sent: in its order, and in the end all of it.
PublishedIsSent == PublishedIsPrefix /\ NothingDropped

\* The published events, without the half line.
Whole ==
    IF published # <<>> /\ IsBlank(Len(published))
        THEN SubSeq(published, 1, Len(published) - 1) ELSE published

Consumed == INSTANCE EventStream WITH stream <- Whole

\* A consumer of the exchange reads UESP as the agent speaks it: at most one
\* RESULT, the last event, whose verdict follows from the events that the
\* consumer itself has read, whatever was lost or killed meanwhile.
ConsumersReadUESP == Consumed!Spec

\* ExecSubm returns before the stream is drained, but the stream is drained: a
\* RESULT the agent sent is published, if publishing works and no line is
\* longer than the scanner takes.
ResultPublished ==
    pc = "exited" /\ E!EndsWithResult(sent) /\ spec.logKB \notin LongLimits
        ~> published = sent \/ ~rmq

\* When ExecSubm has returned, its reader ends and closes the socket: no
\* goroutine and no connection is left behind, timeout or not.
ReaderEnds == exec = "returned" ~> reader = "closed"

-----------------------------------------------------------------------------
(* What a document says, and the code does not do *)

\* ADR-007 "Stdout -> S3": when all is over, stdout.log is the output of a test,
\* if there was one and uploads do not fail.
StdoutInS3 ==
    (Finished /\ reader = "closed" /\ uploads = {} /\ stored # 0)
        => (sent[stored].type = "RESULT" => ~\E k \in 1..read : sent[k].type = "INFO")
=============================================================================
