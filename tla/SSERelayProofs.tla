--------------------------- MODULE SSERelayProofs ---------------------------
(***************************************************************************)
(* Theorems of SSERelay, for every number of clients, events and           *)
(* disturbances: what the dispatcher relays to a client is what was        *)
(* published since its queue was bound, nothing lost, twice or late.       *)
(***************************************************************************)
EXTENDS SSERelay, SequenceTheorems, TLAPS

EventSeqs == Seq(1..Events)

\* s are the events after number n, in order.
After(s, n) == \A k \in DOMAIN s : s[k] = n + k

\* Where the events of c are, from the oldest on, and where they end.
Follow(c) ==
    LET n1 == since[c] + Len(written[c])
        n2 == n1 + Len(current[c])
        n3 == n2 + Len(hand[c])
    IN /\ After(written[c], since[c])
       /\ After(current[c], n1)
       /\ After(hand[c], n2)
       /\ After(queue[c], n3)
       /\ bound[c] => n3 + Len(queue[c]) = emitted

\* Before its queue is bound nothing is there for c.
Nothing(c) ==
    /\ written[c] = <<>> /\ current[c] = <<>> /\ hand[c] = <<>> /\ queue[c] = <<>>
    /\ ~bound[c]

Followed ==
    \A c \in Clients :
        /\ handler[c] # "ended" => Follow(c)
        /\ handler[c] \in {"none", "binding"} => Nothing(c)
        /\ client[c] \in {"idle", "accepted", "refused"} => handler[c] = "none"

IInv == TypeOK /\ Followed

-----------------------------------------------------------------------------
(* Sequences of events *)

LEMMA SeqFunctions ==
    TypeOK => /\ queue \in [Clients -> EventSeqs] /\ hand \in [Clients -> EventSeqs]
              /\ current \in [Clients -> EventSeqs] /\ written \in [Clients -> EventSeqs]
BY DEF TypeOK, EventSeqs

LEMMA SeqTypes ==
    ASSUME TypeOK, NEW c \in Clients
    PROVE  /\ queue[c] \in EventSeqs /\ hand[c] \in EventSeqs
           /\ current[c] \in EventSeqs /\ written[c] \in EventSeqs
           /\ Len(queue[c]) \in Nat /\ Len(hand[c]) \in Nat
           /\ Len(current[c]) \in Nat /\ Len(written[c]) \in Nat
           /\ since[c] \in Nat /\ emitted \in Nat
BY RelayAssumption DEF TypeOK, EventSeqs

\* Events that follow on each other are events in a row.
LEMMA AfterConcat ==
    ASSUME NEW s \in EventSeqs, NEW t \in EventSeqs, NEW n \in Nat,
           After(s, n), After(t, n + Len(s))
    PROVE  /\ s \o t \in EventSeqs /\ Len(s \o t) = Len(s) + Len(t)
           /\ After(s \o t, n)
<1>1. /\ s \o t \in EventSeqs /\ Len(s \o t) = Len(s) + Len(t)
      /\ \A k \in 1..(Len(s) + Len(t)) :
             (s \o t)[k] = IF k <= Len(s) THEN s[k] ELSE t[k - Len(s)]
  BY ConcatProperties DEF EventSeqs
<1>2. DOMAIN (s \o t) = 1..(Len(s) + Len(t)) /\ DOMAIN s = 1..Len(s) /\ DOMAIN t = 1..Len(t)
  BY <1>1 DEF EventSeqs
<1>3. Len(s) \in Nat /\ Len(t) \in Nat
  BY DEF EventSeqs
<1>4. ASSUME NEW k \in 1..(Len(s) + Len(t))
      PROVE  (s \o t)[k] = n + k
  <2>1. CASE k <= Len(s)
    BY <1>1, <1>2, <1>3, <2>1 DEF After
  <2>2. CASE k > Len(s)
    <3>1. k - Len(s) \in 1..Len(t)
      BY <1>3, <2>2
    <3>2. t[k - Len(s)] = n + Len(s) + (k - Len(s))
      BY <1>2, <3>1 DEF After
    <3> QED BY <1>1, <1>3, <2>2, <3>2
  <2> QED BY <1>3, <2>1, <2>2
<1> QED BY <1>1, <1>2, <1>4 DEF After

\* The next event may be appended.
LEMMA AfterAppend ==
    ASSUME NEW s \in EventSeqs, NEW n \in Nat, After(s, n), NEW e \in 1..Events,
           e = n + Len(s) + 1
    PROVE  /\ Append(s, e) \in EventSeqs /\ Len(Append(s, e)) = Len(s) + 1
           /\ After(Append(s, e), n)
<1>1. Append(s, e) \in EventSeqs /\ Len(Append(s, e)) = Len(s) + 1
  BY AppendProperties DEF EventSeqs
<1>2. /\ \A k \in 1..Len(s) : Append(s, e)[k] = s[k]
      /\ Append(s, e)[Len(s) + 1] = e
  BY AppendProperties DEF EventSeqs
<1>3. /\ DOMAIN s = 1..Len(s) /\ DOMAIN Append(s, e) = 1..(Len(s) + 1)
      /\ Len(s) \in Nat
  BY <1>1 DEF EventSeqs
<1> QED BY <1>1, <1>2, <1>3 DEF After

LEMMA TailTypes ==
    ASSUME NEW s \in EventSeqs, s # <<>>
    PROVE  /\ Len(s) \in Nat \ {0} /\ Head(s) = s[1]
           /\ <<Head(s)>> \in EventSeqs /\ Len(<<Head(s)>>) = 1
           /\ Tail(s) \in EventSeqs /\ Len(Tail(s)) = Len(s) - 1
           /\ \A k \in 1..(Len(s) - 1) : Tail(s)[k] = s[k + 1]
<1>1. /\ Len(s) \in Nat \ {0} /\ s[1] \in 1..Events /\ Head(s) = s[1]
      /\ Tail(s) \in EventSeqs /\ Len(Tail(s)) = Len(s) - 1
      /\ \A k \in 1..(Len(s) - 1) : Tail(s)[k] = s[k + 1]
  <2>1. Len(s) \in Nat \ {0} /\ Head(s) = s[1]
    <3>1. Len(s) \in Nat \ {0}
      BY EmptySeq DEF EventSeqs
    <3>2. Head(s) = s[1]
      BY <3>1 DEF EventSeqs
    <3> QED BY <3>1, <3>2
  <2>2. s[1] \in 1..Events
    <3>1. 1 \in 1..Len(s)
      BY <2>1
    <3>2. s \in [1..Len(s) -> 1..Events]
      BY LenProperties DEF EventSeqs
    <3> QED BY <3>1, <3>2
  <2>3. /\ Tail(s) \in EventSeqs /\ Len(Tail(s)) = Len(s) - 1
        /\ \A k \in 1..Len(Tail(s)) : Tail(s)[k] = s[k + 1]
    BY HeadTailProperties DEF EventSeqs
  <2> QED BY <2>1, <2>2, <2>3
<1> QED BY <1>1 DEF EventSeqs

\* The first event may be taken away.
LEMMA AfterTail ==
    ASSUME NEW s \in EventSeqs, s # <<>>, NEW n \in Nat, After(s, n)
    PROVE  After(<<Head(s)>>, n) /\ After(Tail(s), n + 1)
<1>1. DOMAIN s = 1..Len(s) /\ DOMAIN Tail(s) = 1..(Len(s) - 1)
  BY TailTypes DEF EventSeqs
<1>2. DOMAIN <<Head(s)>> = 1..1 /\ <<Head(s)>>[1] = s[1]
  BY TailTypes
<1>3. After(<<Head(s)>>, n)
  BY <1>1, <1>2, TailTypes DEF After
<1>4. After(Tail(s), n + 1)
  BY <1>1, TailTypes DEF After
<1> QED BY <1>3, <1>4

\* Taking one event from the queue, or counting one sum in two ways.
LEMMA OneTaken ==
    ASSUME NEW n \in Nat, NEW l \in Nat, NEW m, m = l - 1
    PROVE  n + 1 + m = n + l
OBVIOUS

LEMMA Regrouped ==
    ASSUME NEW n \in Nat, NEW l \in Nat, NEW m \in Nat, NEW k, k = l + m
    PROVE  n + k = n + l + m /\ n + k + 0 = n + l + m
OBVIOUS

-----------------------------------------------------------------------------
(* The steps *)

LEMMA InitHolds == ASSUME Init PROVE IInv
<1>1. TypeOK
  <2>1. <<>> \in Seq(1..Events)
    BY EmptySeq
  <2>2. 0 \in 0..Events /\ 0 \in 0..Disturbances
    BY RelayAssumption
  <2> QED BY <2>1, <2>2 DEF Init, TypeOK
<1>2. Followed
  <2>1. \A n : After(<<>>, n)
    BY DEF After
  <2> QED BY <2>1 DEF Init, Followed, Follow, Nothing
<1> QED BY <1>1, <1>2 DEF IInv

\* What clients and handlers do without touching an event.
LEMMA QuietStep ==
    ASSUME IInv, NEW c \in Clients,
           \/ Submit \/ Open(c) \/ Consume(c) \/ ClientGone(c) \/ Leaves(c)
           \/ Stop \/ UNCHANGED vars
    PROVE  IInv'
<1> USE DEF IInv, requests, world
<1>1. UNCHANGED <<emitted, bound, since, queue, hand, current, written>>
  BY DEF Submit, Open, Consume, ClientGone, Leaves, Stop, vars
<1>2. TypeOK'
  <2>1. disturbed' \in 0..Disturbances
    BY RelayAssumption
    DEF TypeOK, Submit, Open, Consume, ClientGone, Leaves, Stop, Disturb, vars
  <2>2. /\ client' \in [Clients -> {"idle", "accepted", "refused", "listening", "done", "cut",
                                    "left", "failed"}]
        /\ handler' \in [Clients -> {"none", "binding", "consuming", "relaying", "ended"}]
        /\ pipe' \in [Clients -> {"none", "running", "ended"}]
        /\ conn' = conn /\ dispatcher' \in {"up", "stopping", "down"}
    BY DEF TypeOK, Submit, Open, Consume, ClientGone, Leaves, Stop, vars, Becomes, HandlerAt
  <2> QED BY <1>1, <2>1, <2>2 DEF TypeOK
<1>3. \A d \in Clients :
          /\ handler'[d] # "ended" => handler[d] # "ended"
          /\ handler'[d] \in {"none", "binding"} => handler[d] \in {"none", "binding"}
  BY DEF Submit, Open, Consume, ClientGone, Leaves, Stop, vars, HandlerAt, TypeOK, Followed
<1>4. \A d \in Clients : (Follow(d)' <=> Follow(d)) /\ (Nothing(d)' <=> Nothing(d))
  BY <1>1 DEF Follow, Nothing, After
<1>5. \A d \in Clients : client'[d] \in {"idle", "accepted", "refused"} => handler'[d] = "none"
  BY DEF Submit, Open, Consume, ClientGone, Leaves, Stop, vars, Becomes, HandlerAt, TypeOK,
         Followed
<1>6. Followed'
  BY <1>3, <1>4, <1>5 DEF Followed
<1> QED BY <1>2, <1>6

\* An event goes to every queue that is bound, as the next one there.
LEMMA EmitStep == ASSUME IInv, Emit PROVE IInv'
<1> USE DEF IInv
<1>1. /\ emitted < Events /\ emitted' = emitted + 1 /\ emitted' \in 1..Events
      /\ queue' = [c \in Clients |->
                      IF bound[c] THEN Append(queue[c], emitted + 1) ELSE queue[c]]
      /\ UNCHANGED <<client, handler, pipe, bound, since, hand, current, written, world>>
  BY RelayAssumption DEF Emit, TypeOK
<1>2. ASSUME NEW c \in Clients
      PROVE  queue'[c] \in EventSeqs
  <2>1. queue[c] \in EventSeqs
    BY SeqTypes
  <2> QED BY <1>1, <2>1, AppendProperties DEF EventSeqs
<1>3. TypeOK'
  BY <1>1, <1>2 DEF TypeOK, EventSeqs, world
<1>4. ASSUME NEW c \in Clients, handler[c] # "ended"
      PROVE  Follow(c)'
  <2>1. Follow(c)
    BY <1>4 DEF Followed
  <2>2. CASE ~bound[c]
    BY <1>1, <2>1, <2>2 DEF Follow, After
  <2>3. CASE bound[c]
    <3> DEFINE n == since[c] + Len(written[c]) + Len(current[c]) + Len(hand[c])
    <3>1. /\ queue[c] \in EventSeqs /\ n \in Nat /\ After(queue[c], n)
          /\ n + Len(queue[c]) = emitted
      <4>1. /\ queue[c] \in EventSeqs /\ since[c] \in Nat /\ Len(written[c]) \in Nat
            /\ Len(current[c]) \in Nat /\ Len(hand[c]) \in Nat
        BY SeqTypes, LenProperties DEF EventSeqs
      <4> QED BY <2>1, <2>3, <4>1 DEF Follow
    <3>2. queue'[c] = Append(queue[c], emitted + 1)
      BY <1>1, <2>3
    <3>3. After(queue'[c], n) /\ Len(queue'[c]) = Len(queue[c]) + 1
      <4>1. emitted + 1 \in 1..Events /\ emitted + 1 = n + Len(queue[c]) + 1
        BY <1>1, <3>1, <3>2
      <4> HIDE DEF n
      <4> QED BY <3>1, <3>2, <4>1, AfterAppend
    <3>4. Len(queue[c]) \in Nat /\ emitted \in Nat
      BY <3>1, SeqTypes, LenProperties DEF EventSeqs
    <3>5. n + Len(queue'[c]) = emitted'
      <4> HIDE DEF n
      <4> QED BY <1>1, <3>1, <3>3, <3>4
    <3> QED BY <1>1, <2>1, <3>3, <3>5 DEF Follow, After
  <2> QED BY <2>2, <2>3
<1>5. Followed'
  BY <1>1, <1>4 DEF Followed, Nothing
<1> QED BY <1>3, <1>5

\* An empty sequence follows on anything.
LEMMA NothingAfter == <<>> \in EventSeqs /\ Len(<<>>) = 0 /\ \A n : After(<<>>, n)
BY EmptySeq DEF EventSeqs, After

\* What a step does to one client's events when it leaves the others' alone.
LEMMA OneClient ==
    ASSUME IInv, NEW c \in Clients, UNCHANGED emitted,
           \A d \in Clients \ {c} :
               /\ handler'[d] = handler[d] /\ client'[d] = client[d]
               /\ bound'[d] = bound[d] /\ since'[d] = since[d]
               /\ written'[d] = written[d] /\ current'[d] = current[d]
               /\ hand'[d] = hand[d] /\ queue'[d] = queue[d],
           handler'[c] \notin {"none", "binding"},
           client'[c] \notin {"idle", "accepted", "refused"},
           handler'[c] # "ended" => Follow(c)'
    PROVE  Followed'
<1> USE DEF IInv
<1>1. \A d \in Clients \ {c} : (Follow(d)' <=> Follow(d)) /\ (Nothing(d)' <=> Nothing(d))
  BY DEF Follow, Nothing, After
<1> QED BY <1>1 DEF Followed

\* The queue is bound: what is published from now on is for c.
LEMMA BindStep == ASSUME IInv, NEW c \in Clients, Bind(c) PROVE IInv'
<1> USE DEF IInv
<1>1. /\ handler[c] = "binding" /\ handler' = [handler EXCEPT ![c] = "consuming"]
      /\ bound' = [bound EXCEPT ![c] = TRUE] /\ since' = [since EXCEPT ![c] = emitted]
      /\ UNCHANGED <<emitted, client, pipe, queue, hand, current, written, conn, dispatcher,
                     disturbed>>
  BY DEF Bind, HandlerAt, world
<1>2. TypeOK'
  BY <1>1 DEF TypeOK
<1>3. /\ written[c] = <<>> /\ current[c] = <<>> /\ hand[c] = <<>> /\ queue[c] = <<>>
      /\ client[c] \notin {"idle", "accepted", "refused"}
  BY <1>1 DEF Followed, Nothing
<1>4. emitted \in Nat /\ since'[c] = emitted /\ handler'[c] = "consuming"
  BY <1>1, SeqTypes DEF TypeOK
<1>5. Follow(c)'
  BY <1>1, <1>3, <1>4, NothingAfter DEF Follow
<1>6. Followed'
  BY <1>1, <1>3, <1>4, <1>5, OneClient DEF TypeOK
<1> QED BY <1>2, <1>6

\* The handler gives up: it relays no more.
LEMMA HandlerEndsStep ==
    ASSUME IInv, NEW c \in Clients, SubscribeFails(c) \/ WriteFails(c) PROVE IInv'
<1> USE DEF IInv
<1>1. /\ handler[c] \notin {"none", "ended"} \/ current[c] # <<>>
      /\ handler' = [handler EXCEPT ![c] = "ended"]
      /\ bound' \in {bound, [bound EXCEPT ![c] = FALSE]}
      /\ queue' \in {queue, [queue EXCEPT ![c] = <<>>]}
      /\ current' \in {current, [current EXCEPT ![c] = <<>>]}
      /\ client' = client \/ (client[c] = "listening" /\ client' = [client EXCEPT ![c] = "failed"])
      /\ UNCHANGED <<emitted, pipe, since, hand, written, conn, dispatcher>>
  BY DEF SubscribeFails, WriteFails, HandlerAt, CloseChannel, EndsFor, Becomes, world
<1>2. TypeOK'
  <2>1. queue' \in [Clients -> EventSeqs] /\ current' \in [Clients -> EventSeqs]
    BY <1>1, NothingAfter, SeqFunctions
  <2>2. hand' \in [Clients -> EventSeqs] /\ written' \in [Clients -> EventSeqs]
    BY <1>1, SeqFunctions
  <2>3. disturbed' \in 0..Disturbances
    BY RelayAssumption DEF SubscribeFails, WriteFails, Disturb, world, TypeOK
  <2> QED BY <1>1, <2>1, <2>2, <2>3 DEF TypeOK, EventSeqs
<1>3. handler[c] \notin {"none", "binding"} \/ handler[c] = "binding"
  BY <1>1 DEF Followed, Nothing
<1>4. client'[c] \notin {"idle", "accepted", "refused"}
  BY <1>1, <1>3 DEF Followed, TypeOK, Nothing
<1>5. \A d \in Clients \ {c} :
          /\ handler'[d] = handler[d] /\ client'[d] = client[d]
          /\ bound'[d] = bound[d] /\ queue'[d] = queue[d] /\ current'[d] = current[d]
  BY <1>1 DEF TypeOK
<1>6. handler'[c] = "ended"
  BY <1>1 DEF TypeOK
<1>7. \A d \in Clients \ {c} : (Follow(d)' <=> Follow(d)) /\ (Nothing(d)' <=> Nothing(d))
  BY <1>1, <1>5 DEF Follow, Nothing, After
<1>8. Followed'
  BY <1>4, <1>5, <1>6, <1>7 DEF Followed
<1> QED BY <1>2, <1>8

\* An event moves on, towards the response.
LEMMA RelayStep ==
    ASSUME IInv, NEW c \in Clients, PipeTakes(c) \/ HandOver(c) \/ Write(c) PROVE IInv'
<1> USE DEF IInv
<1>1. /\ UNCHANGED <<emitted, handler, pipe, bound, since, conn, dispatcher, disturbed>>
      /\ client' = client \/ (client[c] = "listening" /\ client' = [client EXCEPT ![c] = "done"])
  BY DEF PipeTakes, HandOver, Write, EndsFor, Becomes, world
<1>2. client'[c] \notin {"idle", "accepted", "refused"} /\ handler[c] \notin {"none", "binding"}
  <2>1. ~Nothing(c)
    BY DEF Nothing, PipeTakes, HandOver, Write
  <2> QED BY <1>1, <2>1 DEF Followed, TypeOK
<1>3. \A d \in Clients \ {c} : client'[d] = client[d]
  BY <1>1 DEF TypeOK
<1>4. CASE PipeTakes(c)
  <2>1. /\ hand[c] = <<>> /\ queue[c] # <<>>
        /\ hand' = [hand EXCEPT ![c] = <<Head(queue[c])>>]
        /\ queue' = [queue EXCEPT ![c] = Tail(queue[c])]
        /\ UNCHANGED <<client, current, written>>
    BY <1>4 DEF PipeTakes
  <2>2. /\ Tail(queue[c]) \in EventSeqs /\ <<Head(queue[c])>> \in EventSeqs
        /\ Len(Tail(queue[c])) = Len(queue[c]) - 1 /\ Len(<<Head(queue[c])>>) = 1
    BY <2>1, SeqTypes, TailTypes
  <2>3. TypeOK'
    BY <1>1, <2>1, <2>2 DEF TypeOK, EventSeqs
  <2>4. hand'[c] = <<Head(queue[c])>> /\ queue'[c] = Tail(queue[c])
    BY <2>1 DEF TypeOK
  <2>5. ASSUME Follow(c) PROVE Follow(c)'
    <3> DEFINE n == since[c] + Len(written[c]) + Len(current[c])
    <3>1. n \in Nat /\ After(queue[c], n) /\ (bound[c] => n + Len(queue[c]) = emitted)
      BY <2>1, <2>5, SeqTypes, NothingAfter DEF Follow
    <3>2. After(hand'[c], n) /\ After(queue'[c], n + 1)
      <4> HIDE DEF n
      <4> QED BY <2>1, <2>4, <3>1, SeqTypes, AfterTail
    <3>3. Len(hand'[c]) = 1 /\ Len(queue'[c]) = Len(queue[c]) - 1 /\ Len(queue[c]) \in Nat
      BY <2>2, <2>4, SeqTypes
    <3>4. bound[c] => n + 1 + Len(queue'[c]) = emitted
      <4>1. n + 1 + Len(queue'[c]) = n + Len(queue[c])
        <5> HIDE DEF n
        <5> QED BY <3>1, <3>3, OneTaken
      <4> QED BY <3>1, <4>1
    <3> QED BY <1>1, <2>1, <2>5, <3>2, <3>3, <3>4 DEF Follow, After
  <2>6. Followed'
    BY <1>1, <1>2, <1>3, <2>1, <2>5, OneClient DEF Followed, TypeOK
  <2> QED BY <2>3, <2>6
<1>5. CASE HandOver(c)
  <2>1. /\ current[c] = <<>> /\ current' = [current EXCEPT ![c] = hand[c]]
        /\ hand' = [hand EXCEPT ![c] = <<>>] /\ UNCHANGED <<client, queue, written>>
    BY <1>5 DEF HandOver
  <2>2. TypeOK'
    BY <1>1, <2>1, SeqTypes, NothingAfter DEF TypeOK, EventSeqs
  <2>3. current'[c] = hand[c] /\ hand'[c] = <<>>
    BY <2>1 DEF TypeOK
  <2>4. ASSUME Follow(c) PROVE Follow(c)'
    BY <1>1, <2>1, <2>3, <2>4, SeqTypes, NothingAfter DEF Follow
  <2>5. Followed'
    BY <1>1, <1>2, <1>3, <2>1, <2>4, OneClient DEF Followed, TypeOK
  <2> QED BY <2>2, <2>5
<1>6. CASE Write(c)
  <2>1. /\ current' = [current EXCEPT ![c] = <<>>]
        /\ written' = [written EXCEPT ![c] = written[c] \o current[c]]
        /\ UNCHANGED <<queue, hand>>
    BY <1>6 DEF Write
  <2>2. written[c] \o current[c] \in EventSeqs
    BY SeqTypes, ConcatProperties DEF EventSeqs
  <2>3. TypeOK'
    BY <1>1, <2>1, <2>2, NothingAfter DEF TypeOK, EventSeqs
  <2>4. current'[c] = <<>> /\ written'[c] = written[c] \o current[c]
    BY <2>1 DEF TypeOK
  <2>5. ASSUME Follow(c) PROVE Follow(c)'
    <3>1. /\ Len(written'[c]) = Len(written[c]) + Len(current[c])
          /\ After(written'[c], since[c])
      <4>1. After(written[c], since[c]) /\ After(current[c], since[c] + Len(written[c]))
        BY <2>5 DEF Follow
      <4>2. written[c] \in EventSeqs /\ current[c] \in EventSeqs /\ since[c] \in Nat
        BY SeqTypes
      <4> QED BY <2>4, <4>1, <4>2, AfterConcat
    <3>2. /\ since[c] + Len(written'[c]) = since[c] + Len(written[c]) + Len(current[c])
          /\ since[c] + Len(written'[c]) + Len(current'[c])
                = since[c] + Len(written[c]) + Len(current[c])
      <4> DEFINE n == since[c]
                 l == Len(written[c])
                 m == Len(current[c])
                 k == Len(written'[c])
      <4>1. n \in Nat /\ l \in Nat /\ m \in Nat
        BY SeqTypes
      <4>2. k = l + m /\ Len(current'[c]) = 0
        BY <2>4, <3>1, NothingAfter
      <4> HIDE DEF n, l, m, k
      <4>3. n + k = n + l + m /\ n + k + 0 = n + l + m
        BY ONLY <4>1, <4>2, Regrouped
      <4> QED BY <4>2, <4>3 DEF n, l, m, k
    <3>4. After(current'[c], since[c] + Len(written'[c]))
      BY <2>4, NothingAfter
    <3> QED BY <1>1, <2>1, <2>5, <3>1, <3>2, <3>4 DEF Follow, After
  <2>6. Followed'
    BY <1>1, <1>2, <1>3, <2>1, <2>5, OneClient DEF Followed, TypeOK
  <2> QED BY <2>3, <2>6
<1> QED BY <1>4, <1>5, <1>6

\* The goroutine ends, the connection or the process does: no queue is bound
\* any more, and what was in it is gone.
LEMMA EndStep ==
    ASSUME IInv, (\E c \in Clients : PipeEnds(c)) \/ LoseConnection \/ Exit PROVE IInv'
<1> USE DEF IInv
<1>1. TypeOK'
  <2>1. /\ queue' \in [Clients -> EventSeqs] /\ hand' \in [Clients -> EventSeqs]
        /\ current' \in [Clients -> EventSeqs] /\ written' \in [Clients -> EventSeqs]
    BY NothingAfter, SeqFunctions DEF PipeEnds, CloseChannel, LoseConnection, Exit
  <2>2. disturbed' \in 0..Disturbances
    BY RelayAssumption DEF TypeOK, PipeEnds, LoseConnection, Disturb, Exit, world
  <2> QED BY <2>1, <2>2 DEF PipeEnds, CloseChannel, LoseConnection, Exit, TypeOK, EventSeqs, world
<1>2. /\ UNCHANGED <<emitted, since, written>>
      /\ \A d \in Clients :
             /\ bound'[d] = bound[d] \/ ~bound'[d]
             /\ queue'[d] = queue[d] \/ (queue'[d] = <<>> /\ ~bound'[d])
             /\ handler'[d] = handler[d] \/ (handler'[d] = "ended" /\ handler[d] # "none")
             /\ handler'[d] # "ended" => hand'[d] = hand[d] /\ current'[d] = current[d]
             /\ handler'[d] \in {"none", "binding"} /\ Nothing(d) => Nothing(d)'
             /\ client'[d] = client[d] \/ client'[d] = "cut"
  <2>1. CASE \E c \in Clients : PipeEnds(c)
    BY <2>1 DEF PipeEnds, CloseChannel, TypeOK, Nothing, world
  <2>2. CASE LoseConnection
    BY <2>2 DEF LoseConnection, TypeOK, Nothing
  <2>3. CASE Exit
    BY <2>3 DEF Exit, TypeOK, Nothing, Followed
  <2> QED BY <2>1, <2>2, <2>3
<1>3. ASSUME NEW d \in Clients, handler'[d] # "ended"
      PROVE  Follow(d)'
  <2>1. handler[d] # "ended" /\ Follow(d)
    BY <1>2, <1>3 DEF Followed
  <2>2. hand'[d] = hand[d] /\ current'[d] = current[d]
    BY <1>2, <1>3
  <2>3. CASE queue'[d] = queue[d]
    BY <1>2, <2>1, <2>2, <2>3 DEF Follow, After
  <2>4. CASE queue'[d] = <<>> /\ ~bound'[d]
    BY <1>2, <2>1, <2>2, <2>4, NothingAfter DEF Follow, After
  <2> QED BY <1>2, <2>3, <2>4
<1>4. Followed'
  BY <1>2, <1>3 DEF Followed
<1> QED BY <1>1, <1>4

\* Every step keeps the events of every client in a row.
LEMMA NextStep == ASSUME IInv, [Next]_vars PROVE IInv'
<1>1. CASE \E c \in Clients : Open(c) \/ Consume(c) \/ ClientGone(c) \/ Leaves(c)
  BY <1>1, QuietStep
<1>2. CASE Submit \/ Stop \/ UNCHANGED vars
  BY <1>2, QuietStep, RelayAssumption
<1>3. CASE Emit
  BY <1>3, EmitStep
<1>4. CASE \E c \in Clients : Bind(c)
  BY <1>4, BindStep
<1>5. CASE \E c \in Clients : SubscribeFails(c) \/ WriteFails(c)
  BY <1>5, HandlerEndsStep
<1>6. CASE \E c \in Clients : PipeTakes(c) \/ HandOver(c) \/ Write(c)
  BY <1>6, RelayStep
<1>7. CASE (\E c \in Clients : PipeEnds(c)) \/ LoseConnection \/ Exit
  BY <1>7, EndStep
<1> QED BY <1>1, <1>2, <1>3, <1>4, <1>5, <1>6, <1>7 DEF Next, Handler, Pipe

-----------------------------------------------------------------------------
(* Clients and their handlers *)

\* Who listens has a handler, the handler that relays a running goroutine and
\* a bound queue, and only a handler that relays has an event to write.
Routed ==
    \A c \in Clients :
        /\ client[c] = "listening" => handler[c] \in {"binding", "consuming", "relaying"}
        /\ handler[c] = "consuming" /\ conn => bound[c]
        /\ handler[c] = "relaying" /\ conn /\ dispatcher = "up" =>
               pipe[c] = "running" /\ bound[c]
        /\ current[c] # <<>> => handler[c] = "relaying"
        /\ client[c] = "done" => handler[c] \notin {"none", "binding"}
        /\ pipe[c] # "none" => handler[c] \in {"relaying", "ended"}

\* Events move one at a time, and the response is a row of them that a client
\* reads up to RESULT, also when its handler has returned.
Reads ==
    \A c \in Clients :
        /\ hand[c] = <<>> \/ Len(hand[c]) = 1
        /\ current[c] = <<>> \/ Len(current[c]) = 1
        /\ After(written[c], since[c])
        /\ client[c] = "done" => since[c] + Len(written[c]) = Events
        /\ client[c] = "listening" => \A k \in DOMAIN written[c] : written[c][k] # Events

\* Every step leaves who listens with a handler at work.
LEMMA RoutedStep == ASSUME IInv, Routed, [Next]_vars PROVE Routed'
<1> USE DEF IInv, requests, world
<1>1. CASE Submit \/ Emit \/ Stop \/ UNCHANGED vars
  BY <1>1, RelayAssumption
     DEF Routed, TypeOK, Submit, Emit, Stop, Becomes, vars
<1>2. ASSUME NEW c \in Clients, Open(c) \/ Leaves(c) PROVE Routed'
  <2>1. CASE Open(c)
    <3>1. handler[c] = "none" /\ current[c] = <<>>
      BY <2>1 DEF Open, Followed, Nothing
    <3> QED BY <2>1, <3>1 DEF Routed, TypeOK, Open, Becomes, HandlerAt
  <2>2. CASE Leaves(c)
    BY <2>2 DEF Routed, TypeOK, Leaves, Becomes
  <2> QED BY <1>2, <2>1, <2>2
<1>3. ASSUME NEW c \in Clients, Bind(c) \/ Consume(c) \/ ClientGone(c) PROVE Routed'
  <2>1. CASE Bind(c)
    BY <2>1 DEF Routed, TypeOK, Bind, HandlerAt, Followed, Nothing
  <2>2. CASE Consume(c)
    BY <2>2 DEF Routed, TypeOK, Consume, HandlerAt
  <2>3. CASE ClientGone(c)
    BY <2>3 DEF Routed, TypeOK, ClientGone, HandlerAt
  <2> QED BY <1>3, <2>1, <2>2, <2>3
<1>4. ASSUME NEW c \in Clients, SubscribeFails(c) PROVE Routed'
  BY <1>4 DEF Routed, TypeOK, SubscribeFails, HandlerAt, CloseChannel, EndsFor, Becomes
<1>5. ASSUME NEW c \in Clients, WriteFails(c) PROVE Routed'
  BY <1>5 DEF Routed, TypeOK, WriteFails, HandlerAt
<1>6. ASSUME NEW c \in Clients, PipeTakes(c) \/ HandOver(c) \/ Write(c) PROVE Routed'
  <2>1. CASE PipeTakes(c)
    BY <2>1 DEF Routed, PipeTakes
  <2>2. CASE HandOver(c)
    BY <2>2, SeqFunctions DEF Routed, HandOver
  <2>3. CASE Write(c)
    <3>1. \A d \in Clients : client'[d] = "listening" => client[d] = "listening"
      BY <2>3 DEF Write, EndsFor, Becomes, TypeOK
    <3>2. \A d \in Clients : current'[d] # <<>> => current[d] # <<>>
      BY <2>3, SeqFunctions DEF Write
    <3>3. UNCHANGED <<handler, pipe, bound, conn, dispatcher>>
      BY <2>3 DEF Write
    <3>4. \A d \in Clients : client'[d] = "done" => client[d] = "done" \/ handler[d] = "relaying"
      BY <2>3 DEF Write, EndsFor, Becomes, TypeOK, Routed
    <3> QED BY <3>1, <3>2, <3>3, <3>4 DEF Routed
  <2> QED BY <1>6, <2>1, <2>2, <2>3
<1>7. ASSUME NEW c \in Clients, PipeEnds(c) PROVE Routed'
  BY <1>7 DEF Routed, TypeOK, PipeEnds, CloseChannel
<1>8. CASE LoseConnection
  BY <1>8 DEF Routed, LoseConnection
<1>9. CASE Exit
  <2>1. \A c \in Clients : current'[c] = <<>> /\ client'[c] # "listening"
    BY <1>9 DEF Exit, TypeOK
  <2>2. \A c \in Clients : handler'[c] = IF handler[c] = "none" THEN "none" ELSE "ended"
    BY <1>9 DEF Exit
  <2>3. \A c \in Clients : /\ client'[c] = "done" => client[c] = "done"
                           /\ pipe'[c] # "none" => pipe[c] # "none"
    BY <1>9 DEF Exit
  <2> QED BY <2>1, <2>2, <2>3 DEF Routed
<1> QED BY <1>1, <1>2, <1>3, <1>4, <1>5, <1>6, <1>7, <1>8, <1>9 DEF Next, Handler, Pipe

\* The response grows by the one event that the handler has.
LEMMA WriteReads ==
    ASSUME IInv, Routed, Reads, NEW c \in Clients, Write(c)
    PROVE  Reads'
<1> USE DEF IInv, requests, world
<1> DEFINE w == written[c]
           u == current[c]
           n == since[c]
<1>1. /\ current' = [current EXCEPT ![c] = <<>>]
      /\ written' = [written EXCEPT ![c] = w \o u]
      /\ UNCHANGED <<hand, since>> /\ u # <<>> /\ Len(u) = 1
  BY DEF Write, Reads
<1>2. /\ current'[c] = <<>> /\ written'[c] = w \o u
      /\ \A d \in Clients \ {c} : current'[d] = current[d] /\ written'[d] = written[d]
  BY <1>1, SeqFunctions
<1>3. /\ w \in EventSeqs /\ u \in EventSeqs /\ n \in Nat /\ Len(w) \in Nat
  BY SeqTypes
<1>4. After(w, n) /\ After(u, n + Len(w))
  BY <1>1 DEF Routed, Followed, Follow
<1>5. Len(w \o u) = Len(w) + 1 /\ After(w \o u, n) /\ DOMAIN (w \o u) = 1..(Len(w) + 1)
  <2> HIDE DEF w, u, n
  <2>1. Len(w \o u) = Len(w) + 1 /\ After(w \o u, n) /\ w \o u \in EventSeqs
    BY <1>1, <1>3, <1>4, AfterConcat
  <2> QED BY <2>1 DEF EventSeqs
<1>6. /\ u = <<u[1]>> /\ u[1] = n + Len(w) + 1 /\ u[1] \in 1..Events
  <2> HIDE DEF w, n
  <2>1. DOMAIN u = 1..1 /\ u \in [1..1 -> 1..Events]
    BY <1>1, <1>3, LenProperties DEF EventSeqs
  <2>2. u[1] = n + Len(w) + 1 /\ u[1] \in 1..Events
    BY <2>1, <1>4 DEF After
  <2>3. u = <<u[1]>>
    BY <1>1, <1>3, <2>1 DEF EventSeqs
  <2> QED BY <2>2, <2>3
<1>7. \A d \in Clients \ {c} : client'[d] = client[d]
  BY DEF Write, EndsFor, Becomes, TypeOK
<1> DEFINE Read(d) ==
               /\ hand'[d] = <<>> \/ Len(hand'[d]) = 1
               /\ current'[d] = <<>> \/ Len(current'[d]) = 1
               /\ After(written'[d], since'[d])
               /\ client'[d] = "done" => since'[d] + Len(written'[d]) = Events
               /\ client'[d] = "listening" => \A k \in DOMAIN written'[d] : written'[d][k] # Events
<1>8. \A d \in Clients \ {c} : Read(d)
  BY <1>1, <1>2, <1>7 DEF Reads
<1>9. CASE u[1] = Events
  <2>1. u = <<Events>>
    BY <1>6, <1>9
  <2>2. client'[c] # "listening"
    BY <2>1 DEF Write, EndsFor, Becomes, TypeOK
  <2>3. n + Len(w \o u) = Events
    <3> HIDE DEF w, u, n
    <3> QED BY <1>3, <1>5, <1>6, <1>9
  <2>4. Read(c)
    BY <1>1, <1>2, <1>5, <2>2, <2>3 DEF Reads
  <2> QED BY <1>8, <2>4 DEF Reads, After
<1>10. CASE u[1] # Events
  <2>1. client' = client
    <3>1. u # <<Events>>
      BY <1>10
    <3> QED BY <3>1 DEF Write
  <2>2. n + Len(w) # Events /\ n + Len(w) + 1 \in 1..Events
    <3> HIDE DEF w, u, n
    <3> QED BY <1>3, <1>6, RelayAssumption
  <2>3. client[c] # "done"
    BY <2>2 DEF Reads
  <2>4. ASSUME client[c] = "listening", NEW k \in DOMAIN (w \o u) PROVE (w \o u)[k] # Events
    <3>1. (w \o u)[k] = n + k /\ k \in 1..(Len(w) + 1)
      BY <1>5, <2>4 DEF After
    <3>2. n + Len(w) + 1 < Events
      <4> HIDE DEF w, u, n
      <4> QED BY <1>3, <1>6, <1>10, RelayAssumption
    <3> HIDE DEF w, u, n
    <3> QED BY <3>1, <3>2, <1>3, RelayAssumption
  <2>5. Read(c)
    BY <1>1, <1>2, <1>5, <2>1, <2>3, <2>4 DEF Reads
  <2> QED BY <1>8, <2>5 DEF Reads, After
<1> QED BY <1>9, <1>10

\* What moves no event and writes none leaves what clients have read alone.
LEMMA ReadsKept ==
    ASSUME IInv, Reads, UNCHANGED <<since, written>>,
           \A c \in Clients : /\ hand'[c] \in {hand[c], <<>>}
                              /\ current'[c] \in {current[c], <<>>}
                              /\ client'[c] \in {"listening", "done"} => client'[c] = client[c]
    PROVE  Reads'
BY DEF Reads, After

\* Every step keeps what the clients have read in a row up to RESULT.
LEMMA ReadsStep == ASSUME IInv, Routed, Reads, [Next]_vars PROVE Reads'
<1> USE DEF IInv, requests, world
<1>1. CASE Submit \/ Emit \/ Stop \/ UNCHANGED vars
  BY <1>1, RelayAssumption, ReadsKept DEF TypeOK, Submit, Emit, Stop, Becomes, vars
<1>2. ASSUME NEW c \in Clients, Open(c) PROVE Reads'
  <2>1. written[c] = <<>>
    BY <1>2 DEF Open, Followed, Nothing
  <2> QED BY <1>2, <2>1 DEF Reads, After, TypeOK, Open, Becomes
<1>3. ASSUME NEW c \in Clients, Bind(c) PROVE Reads'
  <2>1. written[c] = <<>> /\ handler[c] = "binding"
    BY <1>3 DEF Bind, Followed, Nothing
  <2>2. client[c] # "done"
    BY <2>1 DEF Routed
  <2> QED BY <1>3, <2>1, <2>2 DEF Reads, After, TypeOK, Bind
<1>4. ASSUME NEW c \in Clients,
             Consume(c) \/ SubscribeFails(c) \/ ClientGone(c) \/ Leaves(c) \/ PipeEnds(c)
      PROVE  Reads'
  BY <1>4, ReadsKept DEF TypeOK, Consume, SubscribeFails, ClientGone, Leaves, PipeEnds,
                         EndsFor, Becomes
<1>5. ASSUME NEW c \in Clients, PipeTakes(c) PROVE Reads'
  <2>1. /\ hand' = [hand EXCEPT ![c] = <<Head(queue[c])>>] /\ queue[c] # <<>>
        /\ UNCHANGED <<client, current, since, written>>
    BY <1>5 DEF PipeTakes
  <2>2. Len(<<Head(queue[c])>>) = 1
    BY <2>1, SeqTypes, TailTypes
  <2>3. /\ hand'[c] = <<Head(queue[c])>>
        /\ \A d \in Clients \ {c} : hand'[d] = hand[d]
    BY <2>1, SeqFunctions
  <2> QED BY <2>1, <2>2, <2>3 DEF Reads, After
<1>6. ASSUME NEW c \in Clients, HandOver(c) PROVE Reads'
  <2>1. /\ current'[c] = hand[c] /\ hand'[c] = <<>>
        /\ \A d \in Clients \ {c} : current'[d] = current[d] /\ hand'[d] = hand[d]
        /\ UNCHANGED <<client, since, written>>
    BY <1>6, SeqFunctions DEF HandOver
  <2> QED BY <2>1 DEF Reads, After
<1>7. ASSUME NEW c \in Clients, Write(c) PROVE Reads'
  BY <1>7, WriteReads
<1>8. ASSUME NEW c \in Clients, WriteFails(c) PROVE Reads'
  <2>1. /\ UNCHANGED <<client, hand, since, written>>
        /\ \A d \in Clients : current'[d] \in {current[d], <<>>}
    BY <1>8, SeqFunctions DEF WriteFails
  <2> QED BY <2>1, ReadsKept
<1>9. CASE LoseConnection
  BY <1>9, ReadsKept DEF LoseConnection
<1>10. CASE Exit
  <2>1. /\ \A c \in Clients : hand'[c] = <<>> /\ current'[c] = <<>>
        /\ UNCHANGED <<since, written>>
        /\ \A c \in Clients : client'[c] \in {"listening", "done"} => client'[c] = client[c]
    BY <1>10 DEF Exit
  <2> QED BY <2>1, ReadsKept
<1> QED BY <1>1, <1>2, <1>3, <1>4, <1>5, <1>6, <1>7, <1>8, <1>9, <1>10
        DEF Next, Handler, Pipe

\* The parts that Follow describes, put together.
LEMMA Conserving == ASSUME IInv PROVE EventsConserved
<1> USE DEF IInv
<1> SUFFICES ASSUME NEW c \in Clients, handler[c] # "ended"
             PROVE  LET all == written[c] \o current[c] \o hand[c] \o queue[c]
                    IN /\ \A k \in DOMAIN all : all[k] = since[c] + k
                       /\ bound[c] => since[c] + Len(all) = emitted
  BY DEF EventsConserved
<1> DEFINE w == written[c]
           u == current[c]
           h == hand[c]
           q == queue[c]
           n == since[c]
<1>1. /\ w \in EventSeqs /\ u \in EventSeqs /\ h \in EventSeqs /\ q \in EventSeqs
      /\ Len(w) \in Nat /\ Len(u) \in Nat /\ Len(h) \in Nat /\ Len(q) \in Nat
      /\ n \in Nat
  BY SeqTypes
<1>2. /\ After(w, n) /\ After(u, n + Len(w)) /\ After(h, n + Len(w) + Len(u))
      /\ After(q, n + Len(w) + Len(u) + Len(h))
      /\ bound[c] => n + Len(w) + Len(u) + Len(h) + Len(q) = emitted
  BY DEF Followed, Follow
<1> HIDE DEF w, u, h, q, n
<1>3. w \o u \in EventSeqs /\ Len(w \o u) = Len(w) + Len(u) /\ After(w \o u, n)
  BY <1>1, <1>2, AfterConcat
<1>4. n + Len(w \o u) = n + Len(w) + Len(u)
  BY <1>1, <1>3, Regrouped
<1>5. /\ w \o u \o h \in EventSeqs /\ Len(w \o u \o h) = Len(w \o u) + Len(h)
      /\ After(w \o u \o h, n)
  BY <1>1, <1>2, <1>3, <1>4, AfterConcat
<1>6. n + Len(w \o u \o h) = n + Len(w) + Len(u) + Len(h)
  BY <1>1, <1>3, <1>4, <1>5, Regrouped
<1>7. /\ Len(w \o u \o h \o q) = Len(w \o u \o h) + Len(q)
      /\ After(w \o u \o h \o q, n)
  BY <1>1, <1>2, <1>5, <1>6, AfterConcat
<1>8. n + Len(w \o u \o h \o q) = n + Len(w) + Len(u) + Len(h) + Len(q)
  BY <1>1, <1>3, <1>5, <1>6, <1>7, Regrouped
<1> QED BY <1>2, <1>7, <1>8 DEF After, w, u, h, q, n

-----------------------------------------------------------------------------
(* The theorems *)

\* The invariant holds in every reachable state of the relay.
THEOREM Inductive == Spec => []IInv
<1>1. Init => IInv
  BY InitHolds
<1>2. IInv /\ [Next]_vars => IInv'
  BY NextStep
<1> QED BY <1>1, <1>2, PTL DEF Spec

\* Every variable of the relay keeps its range.
THEOREM TypeCorrect == Spec => []TypeOK
<1>1. IInv => TypeOK
  BY DEF IInv
<1> QED BY <1>1, Inductive, PTL

\* Nothing that was published since the queue of a client was bound is lost,
\* doubled or out of order on its way to the response.
THEOREM Conserved == Spec => []EventsConserved
<1>1. IInv => EventsConserved
  BY Conserving
<1> QED BY <1>1, Inductive, PTL

\* What clients listen to and what they have read, in every reachable state.
THEOREM Reading == Spec => [](IInv /\ Routed /\ Reads)
<1>1. Init => IInv /\ Routed /\ Reads
  <2>1. Init => Routed /\ Reads
    BY NothingAfter DEF Init, Routed, Reads
  <2> QED BY <2>1, InitHolds
<1>2. IInv /\ Routed /\ Reads /\ [Next]_vars => (IInv /\ Routed /\ Reads)'
  BY NextStep, RoutedStep, ReadsStep
<1> QED BY <1>1, <1>2, PTL DEF Spec

\* A client that is done has read every event since its queue was bound, RESULT
\* the last of them, and no client listens on after RESULT.
THEOREM DoneHasAll == Spec => []DoneSawAll
<1>1. Reads => DoneSawAll
  BY DEF Reads, DoneSawAll, After
<1> QED BY <1>1, Reading, PTL

\* A client that listens is served: its handler is at work, and while dispatcher
\* and connection are up, what it has not read yet is on its way.
THEOREM Served == Spec => []ListenersServed
<1>1. ASSUME IInv, Routed PROVE ListenersServed
  <2> SUFFICES ASSUME NEW c \in Clients, client[c] = "listening",
                      handler[c] = "relaying", conn, dispatcher = "up"
               PROVE  since[c] + Len(written[c] \o current[c] \o hand[c] \o queue[c]) = emitted
    BY <1>1 DEF ListenersServed, Routed
  <2>1. bound[c] /\ handler[c] # "ended"
    BY <1>1 DEF Routed
  <2> QED BY <1>1, <2>1, Conserving DEF EventsConserved
<1> QED BY <1>1, Reading, PTL

\* Clients are served until they have RESULT, and then have all the events.
THEOREM AllServed == Spec => []ClientsServed
BY DoneHasAll, Served, PTL DEF ClientsServed
=============================================================================
