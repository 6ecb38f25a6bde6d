---------------------------- MODULE WarmContainer ----------------------------
(***************************************************************************)
(* CreateWarmContainer (runner/internal/warmcontainer.go) as the producer  *)
(* and the workers of the engine call it at the same time: slot numbers,   *)
(* the socket of each slot, containerd's containers and tasks, the agent   *)
(* that dials its slot's socket once, and crashes of the runner, which     *)
(* containers survive.  RunnerEngine has all this as one step.             *)
(***************************************************************************)
EXTENDS Naturals, FiniteSets

CONSTANTS
    Creators,      \* goroutines that create warm containers
    Containers,    \* identities that generateContainerID may return
    None,          \* no creator, no container
    MaxSlots,      \* bound on the creations of one process
    MaxFaults      \* bound on failed calls, agents that die, and crashes

ASSUME WarmAssumption ==
    /\ None \notin Creators \cup Containers /\ IsFiniteSet(Containers)
    /\ MaxSlots \in Nat /\ MaxFaults \in Nat

Slots == 1..MaxSlots

VARIABLES
    \* the runner process
    life,        \* which process it is since the first
    slotCounter,
    pc,          \* [Creators -> where CreateWarmContainer is]
    slotID,      \* [Creators -> its slot; 0 before the first]
    container,   \* [Creators -> the container it is creating]
    warm,        \* warm containers handed over by this process: the container and
                 \* the container whose agent is at the other end of Conn
    \* the host
    image,       \* is the image in containerd's store?
    listener,    \* [Slots -> the creator whose listener is bound to <slot>.sock]
    \* containers
    state,       \* [Containers -> how far it is, with its task and its agent]
    slotOf,      \* [Containers -> the slot in STREAM_SOCKET_PATH]
    lifeOf,      \* [Containers -> the process that created it]
    faults       \* faults so far

processVars == <<life, slotCounter>>
creatorVars == <<pc, slotID, container>>
containerVars == <<state, slotOf, lifeOf>>
vars == <<processVars, creatorVars, warm, image, listener, containerVars, faults>>

Init ==
    /\ life = 0
    /\ slotCounter = 0
    /\ pc = [p \in Creators |-> "idle"]
    /\ slotID = [p \in Creators |-> 0]
    /\ container = [p \in Creators |-> None]
    /\ warm = {}
    /\ image \in BOOLEAN
    /\ listener = [s \in Slots |-> None]
    /\ state = [c \in Containers |-> "unused"]
    /\ slotOf = [c \in Containers |-> 0]
    /\ lifeOf = [c \in Containers |-> 0]
    /\ faults = 0

Becomes(c, how) == state' = [state EXCEPT ![c] = how]

Fault == faults < MaxFaults /\ faults' = faults + 1

\* the call returns; its deferred listener.Close() unlinks the socket
Return(p) ==
    /\ pc' = [pc EXCEPT ![p] = "idle"]
    /\ container' = [container EXCEPT ![p] = None]
    /\ listener' = [s \in Slots |-> IF listener[s] = p THEN None ELSE listener[s]]
    /\ UNCHANGED slotID

-----------------------------------------------------------------------------
(* CreateWarmContainer *)

\* a mistake: the counter is read and written without atomicity, so that two
\* goroutines get one slot
AddLate(p) ==
    /\ pc[p] = "idle"
    /\ slotCounter < MaxSlots
    /\ slotID' = [slotID EXCEPT ![p] = slotCounter + 1]
    /\ slotCounter' \in {slotCounter, slotCounter + 1}
    /\ pc' = [pc EXCEPT ![p] = "image"]
    /\ UNCHANGED <<life, container, warm, image, listener, containerVars, faults>>

\* slotCounter.Add(1), then the call
Add(p) ==
    /\ pc[p] = "idle"
    /\ slotCounter < MaxSlots
    /\ slotCounter' = slotCounter + 1
    /\ slotID' = [slotID EXCEPT ![p] = slotCounter + 1]
    /\ pc' = [pc EXCEPT ![p] = "image"]
    /\ UNCHANGED <<life, container, warm, image, listener, containerVars, faults>>

\* GetImage, and Pull if it is not found
GetImage(p) ==
    /\ \/ /\ pc[p] = "image"
          /\ pc' = [pc EXCEPT ![p] = IF image THEN "create" ELSE "pull"]
          /\ UNCHANGED image
       \/ /\ pc[p] = "pull"
          /\ pc' = [pc EXCEPT ![p] = "create"]
          /\ image' = TRUE
    /\ UNCHANGED <<processVars, slotID, container, warm, listener, containerVars, faults>>

Fresh == {c \in Containers : state[c] = "unused"}

\* a mistake: the specification names the socket of the next slot
NewContainerNextSlot(p) ==
    /\ pc[p] = "create"
    /\ Fresh # {}
    /\ LET c == CHOOSE c \in Containers : c \in Fresh
       IN /\ container' = [container EXCEPT ![p] = c]
          /\ Becomes(c, "created")
          /\ slotOf' = [slotOf EXCEPT ![c] = slotID[p] + 1]
          /\ lifeOf' = [lifeOf EXCEPT ![c] = life]
    /\ pc' = [pc EXCEPT ![p] = "listen"]
    /\ UNCHANGED <<processVars, slotID, warm, image, listener, faults>>

NewContainer(p) ==
    /\ pc[p] = "create"
    /\ Fresh # {}
    /\ LET c == CHOOSE c \in Containers : c \in Fresh
       IN /\ container' = [container EXCEPT ![p] = c]
          /\ Becomes(c, "created")
          /\ slotOf' = [slotOf EXCEPT ![c] = slotID[p]]
          /\ lifeOf' = [lifeOf EXCEPT ![c] = life]
    /\ pc' = [pc EXCEPT ![p] = "listen"]
    /\ UNCHANGED <<processVars, slotID, warm, image, listener, faults>>

\* nothing is cleaned up: a snapshot that NewContainer made before it failed
\* would stay, and is not followed here
FailsEarly(p) ==
    /\ pc[p] \in {"image", "pull", "create"}
    /\ Fault
    /\ Return(p)
    /\ UNCHANGED <<processVars, warm, image, containerVars>>

\* a mistake: the socket file is removed after the bind, not before
ListenRemove(p) ==
    /\ pc[p] = "listen"
    /\ listener' = [listener EXCEPT ![slotID[p]] = None]
    /\ pc' = [pc EXCEPT ![p] = "task"]
    /\ UNCHANGED <<processVars, slotID, container, warm, image, containerVars, faults>>

\* os.Remove of a stale socket, MkdirAll, net.Listen
Listen(p) ==
    /\ pc[p] = "listen"
    /\ listener' = [listener EXCEPT ![slotID[p]] = p]
    /\ pc' = [pc EXCEPT ![p] = "task"]
    /\ UNCHANGED <<processVars, slotID, container, warm, image, containerVars, faults>>

\* these two returns leave the container behind
ListenFails(p) ==
    /\ pc[p] = "listen"
    /\ Fault
    /\ Return(p)
    /\ UNCHANGED <<processVars, warm, image, containerVars>>

\* NewTask, and task.Wait for the channel of its exit status
NewTask(p) ==
    /\ pc[p] = "task"
    /\ Becomes(container[p], "tasked")
    /\ pc' = [pc EXCEPT ![p] = "start"]
    /\ UNCHANGED <<processVars, slotID, container, warm, image, listener, slotOf, lifeOf,
                   faults>>

\* connections that wait in the backlog of p's listener
Backlog(p) == {c \in Containers : state[c] = "dialled" /\ listener[slotOf[c]] = p}

\* c becomes how, and the listener closes, which resets the rest of its backlog
Closing(p, c, how) ==
    state' = [d \in Containers |->
                 IF d = c THEN how ELSE IF d \in Backlog(p) THEN "over" ELSE state[d]]

\* task.Delete if there is one, container.Delete with its snapshot, on the
\* client that has just failed: their errors are ignored, so the container may
\* be left without its task, or with it.
TaskFails(p) ==
    /\ pc[p] \in {"task", "start"}
    /\ Fault
    /\ \E how \in {"deleted", "created", state[container[p]]} : Closing(p, container[p], how)
    /\ Return(p)
    /\ UNCHANGED <<processVars, warm, image, slotOf, lifeOf>>

Start(p) ==
    /\ pc[p] = "start"
    /\ Becomes(container[p], "booted")
    /\ pc' = [pc EXCEPT ![p] = "accept"]
    /\ UNCHANGED <<processVars, slotID, container, warm, image, listener, slotOf, lifeOf,
                   faults>>

\* a mistake: the warm container is that of the agent which dialled
AcceptDialler(p) ==
    /\ pc[p] = "accept"
    /\ \E c \in Backlog(p) :
           /\ warm' = warm \cup {<<c, c>>}
           /\ Closing(p, c, "connected")
    /\ Return(p)
    /\ UNCHANGED <<processVars, image, slotOf, lifeOf, faults>>

\* listener.Accept has neither a deadline nor the context: it waits until an
\* agent has dialled.  The other connections of the backlog are reset.
Accept(p) ==
    /\ pc[p] = "accept"
    /\ \E c \in Backlog(p) :
           /\ warm' = warm \cup {<<container[p], c>>}
           /\ Closing(p, c, "connected")
    /\ Return(p)
    /\ UNCHANGED <<processVars, image, slotOf, lifeOf, faults>>

\* Accept answers with an error.  container.Delete refuses a container that has
\* a task, which nobody kills: the agent goes on, without its connection.
AcceptFails(p) ==
    /\ pc[p] = "accept"
    /\ Fault
    /\ state' = [c \in Containers |-> IF c \in Backlog(p) THEN "over" ELSE state[c]]
    /\ Return(p)
    /\ UNCHANGED <<processVars, warm, image, slotOf, lifeOf>>

-----------------------------------------------------------------------------
(* The agent in a container *)

\* net.Dial, once: where nobody listens the agent exits
Dial(c) ==
    /\ state[c] = "booted"
    /\ Becomes(c, IF listener[slotOf[c]] # None THEN "dialled" ELSE "refused")
    /\ UNCHANGED <<processVars, creatorVars, warm, image, listener, slotOf, lifeOf, faults>>

\* before it has dialled
Dies(c) ==
    /\ state[c] = "booted"
    /\ Fault
    /\ Becomes(c, "died")
    /\ UNCHANGED <<processVars, creatorVars, warm, image, listener, slotOf, lifeOf>>

-----------------------------------------------------------------------------
\* The process dies, and systemd starts another.  The kernel closes listeners
\* and connections, so agents that have dialled end; containers go on.
Crash ==
    /\ Fault
    /\ life' = life + 1
    /\ slotCounter' = 0
    /\ pc' = [p \in Creators |-> "idle"]
    /\ slotID' = [p \in Creators |-> 0]
    /\ container' = [p \in Creators |-> None]
    /\ warm' = {}
    /\ listener' = [s \in Slots |-> None]
    /\ state' = [c \in Containers |->
                    IF state[c] \in {"dialled", "connected"} THEN "over" ELSE state[c]]
    /\ UNCHANGED <<image, slotOf, lifeOf>>

Create(p) ==
    \/ GetImage(p) \/ NewContainer(p) \/ FailsEarly(p)
    \/ Listen(p) \/ ListenFails(p) \/ NewTask(p) \/ TaskFails(p) \/ Start(p)
    \/ Accept(p) \/ AcceptFails(p)

Next ==
    \/ \E p \in Creators : Add(p) \/ Create(p)
    \/ \E c \in Containers : Dial(c) \/ Dies(c)
    \/ Crash

Spec == Init /\ [][Next]_vars

\* containerd answers, and agents that have booted dial
FairSpec ==
    /\ Spec
    /\ \A p \in Creators : WF_vars(Create(p))
    /\ \A c \in Containers : WF_vars(Dial(c))

-----------------------------------------------------------------------------
\* Every variable keeps its range.
TypeOK ==
    /\ life \in 0..MaxFaults
    /\ slotCounter \in 0..MaxSlots
    /\ pc \in [Creators -> {"idle", "image", "pull", "create", "listen", "task", "start",
                            "accept"}]
    /\ slotID \in [Creators -> 0..MaxSlots]
    /\ container \in [Creators -> Containers \cup {None}]
    /\ warm \subseteq Containers \X Containers
    /\ image \in BOOLEAN
    /\ listener \in [Slots -> Creators \cup {None}]
    /\ state \in [Containers -> {"unused", "created", "tasked", "booted", "dialled",
                                 "connected", "refused", "died", "over", "deleted"}]
    /\ slotOf \in [Containers -> 0..MaxSlots]
    /\ lifeOf \in [Containers -> 0..MaxFaults]
    /\ faults \in 0..MaxFaults

\* The agent at the other end of a warm container's Conn is the one in that
\* container, however many are created at a time, unless it is in a container
\* that an earlier process left behind with the same slot number.
OwnAgent ==
    \A w \in warm :
        \/ w[1] = w[2]
        \/ lifeOf[w[2]] < lifeOf[w[1]] /\ slotOf[w[2]] = slotOf[w[1]]

\* Containers of this process that are there and that nobody has: no creator is
\* at work on them, and they were not handed over.
Orphans ==
    {c \in Containers :
        /\ state[c] \notin {"unused", "deleted"} /\ lifeOf[c] = life
        /\ \A p \in Creators : container[p] # c
        /\ \A w \in warm : w[1] # c}

\* A creation that fails leaves one container behind at most, and one that
\* succeeds none, whoever's agent it accepted: a process has no more orphans
\* than faults of its own, the crash before it not counted.
OrphansPaidFor == Cardinality(Orphans) <= faults - life

\* No creator is in Accept for nothing: a connection waits in its backlog, or its
\* agent is still to dial and will find its listener bound, or has died.  No
\* crash, other creator or container left behind takes the socket away.
AcceptIsServed ==
    \A p \in Creators : pc[p] = "accept" =>
        \/ Backlog(p) # {}
        \/ state[container[p]] = "booted" /\ listener[slotOf[container[p]]] = p
        \/ state[container[p]] = "died"

\* The socket of a creator is its own: who comes in by it, and who may still come.
OwnSocket == OwnAgent /\ AcceptIsServed

\* Accept returns, although it has no deadline: the socket is there before the
\* agent boots, and nobody else's agent takes the place of this one for good.
\* Only an agent that dies before it dials keeps its creator for ever.
AcceptReturns ==
    \A p \in Creators :
        pc[p] = "accept" ~> pc[p] # "accept" \/ state[container[p]] = "died"
=============================================================================
