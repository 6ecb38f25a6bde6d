------------------------------ MODULE SSERelay ------------------------------
(***************************************************************************)
(* The way of one submission's events to its clients: submit_and_watch and *)
(* listen_events of the SDK, SubmissionReciever and SSEHandler of the      *)
(* dispatcher, SubscribeToExchange with its goroutine, and the queues that *)
(* RabbitMQ binds to the exchange for them.  Event number Events is RESULT.*)
(***************************************************************************)
EXTENDS Naturals, Sequences

CONSTANTS
    Clients,
    Submitter,       \* the client that submits
    Events,          \* how many events the judging publishes
    Disturbances     \* bound on lost connections, refused subscriptions, shutdowns
                     \* and clients leaving

ASSUME RelayAssumption ==
    Submitter \in Clients /\ Events \in Nat \ {0} /\ Disturbances \in Nat

VARIABLES
    emitted,      \* events that the runner has published
    client,       \* [Clients -> "idle", "accepted" or "refused" (its submission),
                  \*  "listening", "done" (it saw RESULT), "cut" (the response
                  \*  ended without), "left", "failed" (status 500)]
    handler,      \* [Clients -> SSEHandler: "none", "binding", "consuming" (in
                  \*  SubscribeToExchange), "relaying", "ended"]
    pipe,         \* [Clients -> the goroutine of SubscribeToExchange]
    bound,        \* [Clients -> is its queue bound to the exchange?]
    since,        \* [Clients -> events published before the binding]
    queue,        \* [Clients -> events in its queue and in the amqp library]
    hand,         \* [Clients -> the event that pipe sends to execEventQueue]
    current,      \* [Clients -> the event that SSEHandler writes]
    written,      \* [Clients -> events written to the response]
    conn,         \* is the dispatcher's connection to RabbitMQ alive?
    dispatcher,   \* "up", "stopping" (env.ctx is done), "down"
    disturbed     \* disturbances so far

requests == <<handler, pipe, bound, since, queue, hand, current, written>>
world == <<conn, dispatcher, disturbed>>
vars == <<emitted, client, requests, world>>

Init ==
    /\ emitted = 0
    /\ client = [c \in Clients |-> "idle"]
    /\ handler = [c \in Clients |-> "none"]
    /\ pipe = [c \in Clients |-> "none"]
    /\ bound = [c \in Clients |-> FALSE]
    /\ since = [c \in Clients |-> 0]
    /\ queue = [c \in Clients |-> <<>>]
    /\ hand = [c \in Clients |-> <<>>]
    /\ current = [c \in Clients |-> <<>>]
    /\ written = [c \in Clients |-> <<>>]
    /\ conn = TRUE
    /\ dispatcher = "up"
    /\ disturbed = 0

Becomes(c, state) == client' = [client EXCEPT ![c] = state]
HandlerAt(c, point) == handler' = [handler EXCEPT ![c] = point]

\* The response of a client that is there no more ends unnoticed.
EndsFor(c, state) ==
    IF client[c] = "listening" THEN Becomes(c, state) ELSE UNCHANGED client

\* consumerCh.Close: the queue is exclusive and deleted with its channel, and
\* deliveries that the library has buffered are dropped
CloseChannel(c) ==
    /\ bound' = [bound EXCEPT ![c] = FALSE]
    /\ queue' = [queue EXCEPT ![c] = <<>>]

Disturb == disturbed < Disturbances /\ disturbed' = disturbed + 1

-----------------------------------------------------------------------------
(* The submission and its events *)

\* ValidateSubmission and Publish pass, or the client gets an error and raises
Submit ==
    /\ client[Submitter] = "idle"
    /\ dispatcher = "up"
    /\ \/ conn /\ Becomes(Submitter, "accepted")
       \/ Becomes(Submitter, "refused")
    /\ UNCHANGED <<emitted, requests, world>>

\* A direct exchange: to every queue that is bound now, and to no other.
Emit ==
    /\ client[Submitter] \notin {"idle", "refused"}
    /\ emitted < Events
    /\ emitted' = emitted + 1
    /\ queue' = [c \in Clients |->
                    IF bound[c] THEN Append(queue[c], emitted + 1) ELSE queue[c]]
    /\ UNCHANGED <<client, handler, pipe, bound, since, hand, current, written, world>>

-----------------------------------------------------------------------------
(* SSEHandler and SubscribeToExchange *)

\* GET /submissions/{submission_id}/events: the submitter does it after it has
\* submitted, another client at any time
Open(c) ==
    /\ client[c] = IF c = Submitter THEN "accepted" ELSE "idle"
    /\ dispatcher = "up"
    /\ Becomes(c, "listening")
    /\ HandlerAt(c, "binding")
    /\ UNCHANGED <<emitted, pipe, bound, since, queue, hand, current, written, world>>

Bind(c) ==
    /\ handler[c] = "binding"
    /\ conn
    /\ HandlerAt(c, "consuming")
    /\ bound' = [bound EXCEPT ![c] = TRUE]
    /\ since' = [since EXCEPT ![c] = emitted]
    /\ UNCHANGED <<emitted, client, pipe, queue, hand, current, written, world>>

Consume(c) ==
    /\ handler[c] = "consuming"
    /\ conn
    /\ HandlerAt(c, "relaying")
    /\ pipe' = [pipe EXCEPT ![c] = "running"]
    /\ UNCHANGED <<emitted, client, bound, since, queue, hand, current, written, world>>

\* A call of SubscribeToExchange fails, without the connection or with it (no
\* channel is left, RabbitMQ refuses one of the calls): the channel is closed,
\* status 500.
SubscribeFails(c) ==
    /\ handler[c] \in {"binding", "consuming"}
    /\ IF conn THEN Disturb ELSE UNCHANGED disturbed
    /\ HandlerAt(c, "ended")
    /\ CloseChannel(c)
    /\ EndsFor(c, "failed")
    /\ UNCHANGED <<emitted, pipe, since, hand, current, written, conn, dispatcher>>

\* a mistake: an event is dropped when the handler is busy
PipeDropsWhenBusy(c) ==
    /\ pipe[c] = "running"
    /\ hand[c] = <<>>
    /\ queue[c] # <<>>
    /\ hand' = [hand EXCEPT ![c] = IF current[c] = <<>> THEN <<Head(queue[c])>> ELSE <<>>]
    /\ queue' = [queue EXCEPT ![c] = Tail(@)]
    /\ UNCHANGED <<emitted, client, handler, pipe, bound, since, current, written, world>>

\* a mistake: an event that waits for the handler gives way to a newer one
PipeReplaces(c) ==
    /\ pipe[c] = "running"
    /\ queue[c] # <<>>
    /\ hand' = [hand EXCEPT ![c] = <<Head(queue[c])>>]
    /\ queue' = [queue EXCEPT ![c] = Tail(@)]
    /\ UNCHANGED <<emitted, client, handler, pipe, bound, since, current, written, world>>

\* case d := <-msgs, then localQueue <- d
PipeTakes(c) ==
    /\ pipe[c] = "running"
    /\ hand[c] = <<>>
    /\ queue[c] # <<>>
    /\ hand' = [hand EXCEPT ![c] = <<Head(queue[c])>>]
    /\ queue' = [queue EXCEPT ![c] = Tail(@)]
    /\ UNCHANGED <<emitted, client, handler, pipe, bound, since, current, written, world>>

\* a mistake: a closed msgs is not noticed and its zero Delivery passed on
PipeSendsZero(c) ==
    /\ pipe[c] = "running"
    /\ hand[c] = <<>>
    /\ dispatcher # "up" \/ ~conn
    /\ IF conn THEN pipe' = [pipe EXCEPT ![c] = "ended"] /\ CloseChannel(c) /\ UNCHANGED hand
               ELSE hand' = [hand EXCEPT ![c] = <<0>>] /\ UNCHANGED <<pipe, bound, queue>>
    /\ UNCHANGED <<emitted, client, handler, since, current, written, world>>

\* case <-ctx.Done(), the context of the dispatcher, or msgs closed: return.
\* Nobody closes execEventQueue, so the handler does not learn of it.
PipeEnds(c) ==
    /\ pipe[c] = "running"
    /\ hand[c] = <<>>
    /\ dispatcher # "up" \/ ~conn
    /\ pipe' = [pipe EXCEPT ![c] = "ended"]
    /\ CloseChannel(c)
    /\ UNCHANGED <<emitted, client, handler, since, hand, current, written, world>>

\* case msg := <-execEventQueue
HandOver(c) ==
    /\ handler[c] = "relaying"
    /\ current[c] = <<>>
    /\ hand[c] # <<>>
    /\ current' = [current EXCEPT ![c] = hand[c]]
    /\ hand' = [hand EXCEPT ![c] = <<>>]
    /\ UNCHANGED <<emitted, client, handler, pipe, bound, since, queue, written, world>>

\* a mistake: no Flush, the client reads nothing until the handler returns
WriteNoFlush(c) ==
    /\ current[c] # <<>>
    /\ current' = [current EXCEPT ![c] = <<>>]
    /\ written' = [written EXCEPT ![c] = @ \o current[c]]
    /\ UNCHANGED <<emitted, client, handler, pipe, bound, since, queue, hand, world>>

\* Fprintf, Flush and Ack; a listening client stops at RESULT
Write(c) ==
    /\ current[c] # <<>>
    /\ current' = [current EXCEPT ![c] = <<>>]
    /\ written' = [written EXCEPT ![c] = @ \o current[c]]
    /\ IF current[c] = <<Events>> THEN EndsFor(c, "done") ELSE UNCHANGED client
    /\ UNCHANGED <<emitted, handler, pipe, bound, since, queue, hand, world>>

\* Nack and return
WriteFails(c) ==
    /\ current[c] # <<>>
    /\ client[c] # "listening"
    /\ current' = [current EXCEPT ![c] = <<>>]
    /\ HandlerAt(c, "ended")
    /\ UNCHANGED <<emitted, client, pipe, bound, since, queue, hand, written, world>>

\* a mistake: the channel that the handler closes is the one of all requests
ClientGoneClosesShared(c) ==
    /\ handler[c] = "relaying"
    /\ current[c] = <<>>
    /\ client[c] # "listening"
    /\ HandlerAt(c, "ended")
    /\ bound' = [d \in Clients |-> FALSE]
    /\ queue' = [d \in Clients |-> <<>>]
    /\ UNCHANGED <<emitted, client, pipe, since, hand, current, written, world>>

\* case <-r.Context().Done()
ClientGone(c) ==
    /\ handler[c] = "relaying"
    /\ current[c] = <<>>
    /\ client[c] # "listening"
    /\ HandlerAt(c, "ended")
    /\ UNCHANGED <<emitted, client, pipe, bound, since, queue, hand, current, written, world>>

-----------------------------------------------------------------------------
(* Disturbances *)

\* the client closes the connection, or the SDK's timeout does
Leaves(c) ==
    /\ Disturb
    /\ client[c] = "listening"
    /\ Becomes(c, "left")
    /\ UNCHANGED <<emitted, requests, conn, dispatcher>>

LoseConnection ==
    /\ Disturb
    /\ conn
    /\ conn' = FALSE
    /\ bound' = [c \in Clients |-> FALSE]
    /\ queue' = [c \in Clients |-> <<>>]
    /\ UNCHANGED <<emitted, client, handler, pipe, since, hand, current, written, dispatcher>>

\* SIGTERM: env.ctx is done and server.Shutdown closes the listener
Stop ==
    /\ Disturb
    /\ dispatcher = "up"
    /\ dispatcher' = "stopping"
    /\ UNCHANGED <<emitted, client, requests, conn>>

\* server.Shutdown has returned, after five seconds at most, and main returns
Exit ==
    /\ dispatcher = "stopping"
    /\ dispatcher' = "down"
    /\ handler' = [c \in Clients |-> IF handler[c] = "none" THEN "none" ELSE "ended"]
    /\ pipe' = [c \in Clients |-> IF pipe[c] = "none" THEN "none" ELSE "ended"]
    /\ bound' = [c \in Clients |-> FALSE]
    /\ queue' = [c \in Clients |-> <<>>]
    /\ hand' = [c \in Clients |-> <<>>]
    /\ current' = [c \in Clients |-> <<>>]
    /\ client' = [c \in Clients |-> IF client[c] = "listening" THEN "cut" ELSE client[c]]
    /\ UNCHANGED <<emitted, since, written, conn, disturbed>>

Handler(c) ==
    \/ Bind(c) \/ Consume(c) \/ SubscribeFails(c)
    \/ HandOver(c) \/ Write(c) \/ WriteFails(c) \/ ClientGone(c)

Pipe(c) == PipeTakes(c) \/ PipeEnds(c)

Next ==
    \/ Submit \/ Emit
    \/ \E c \in Clients : Open(c) \/ Handler(c) \/ Pipe(c) \/ Leaves(c)
    \/ LoseConnection \/ Stop \/ Exit

Spec == Init /\ [][Next]_vars

\* Goroutines run, the judging goes on, and submit_and_watch listens once its
\* submission is accepted.  Nobody has to submit, to leave or to fail.
FairSpec ==
    /\ Spec
    /\ \A c \in Clients : WF_vars(Handler(c)) /\ WF_vars(Pipe(c))
    /\ WF_vars(Emit) /\ WF_vars(Exit) /\ WF_vars(Open(Submitter))

-----------------------------------------------------------------------------
\* Every variable keeps its range.
TypeOK ==
    /\ emitted \in 0..Events
    /\ client \in [Clients -> {"idle", "accepted", "refused", "listening", "done",
                           "cut", "left", "failed"}]
    /\ handler \in [Clients -> {"none", "binding", "consuming", "relaying", "ended"}]
    /\ pipe \in [Clients -> {"none", "running", "ended"}]
    /\ bound \in [Clients -> BOOLEAN]
    /\ since \in [Clients -> 0..Events]
    /\ {queue, hand, current, written} \subseteq [Clients -> Seq(1..Events)]
    /\ conn \in BOOLEAN
    /\ dispatcher \in {"up", "stopping", "down"}
    /\ disturbed \in 0..Disturbances

\* Wherever the events of a client are, in the queue, in the goroutine's hand, in
\* the handler's or in the response, they are those published since its queue was
\* bound, each once and in order; and as long as the queue is bound and the
\* handler at work, none of them is missing, whoever else listens or leaves.
EventsConserved ==
    \A c \in Clients : handler[c] # "ended" =>
        LET all == written[c] \o current[c] \o hand[c] \o queue[c]
        IN /\ \A k \in DOMAIN all : all[k] = since[c] + k
           /\ bound[c] => since[c] + Len(all) = emitted

\* A client is done when it has read every event since its queue was bound, the
\* last of them RESULT, and never goes on listening after it has read RESULT.
DoneSawAll ==
    \A c \in Clients :
        /\ client[c] = "done" => since[c] + Len(written[c]) = Events
        /\ client[c] = "listening" => \A k \in DOMAIN written[c] : written[c][k] # Events
        /\ \A k \in DOMAIN written[c] : written[c][k] = since[c] + k

\* No client listens to a handler that has returned, and while the dispatcher
\* and its connection are up, whatever other clients do, what was published and
\* not yet written to a listening client is still on its way to it.
ListenersServed ==
    \A c \in Clients : client[c] = "listening" =>
        /\ handler[c] \in {"binding", "consuming", "relaying"}
        /\ handler[c] = "relaying" /\ conn /\ dispatcher = "up" =>
               /\ pipe[c] = "running" /\ bound[c]
               /\ since[c] + Len(written[c] \o current[c] \o hand[c] \o queue[c]) = emitted

\* A client is served until it has RESULT, and has everything when it has RESULT.
ClientsServed == DoneSawAll /\ ListenersServed

\* A client whose queue was bound before the first event sees RESULT, once that
\* is published, unless it leaves or the dispatcher or its connection goes.
BoundInTimeFinishes ==
    \A c \in Clients :
        handler[c] = "relaying" /\ since[c] = 0 /\ emitted = Events
            ~> client[c] \in {"done", "left"} \/ ~conn \/ dispatcher # "up"

-----------------------------------------------------------------------------
(* What comments say, and the code does not do *)

\* client.py:161 "Convenience method: Submits and immediately streams results." and
\* client.py:119 "Terminates automatically on Type == "RESULT"".
WatcherGetsResult ==
    client[Submitter] = "accepted" ~> client[Submitter] = "done"
=============================================================================
