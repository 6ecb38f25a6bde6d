------------------------ MODULE WarmContainerProofs ------------------------
(***************************************************************************)
(* Theorems of WarmContainer, for every number of creators, containers,    *)
(* slots and faults: slots tell the containers of one process apart, so a  *)
(* creator gets its own agent, and a failed creation leaves no more than   *)
(* the container it was making.                                            *)
(***************************************************************************)
EXTENDS WarmContainer, FiniteSetTheorems, TLAPS

Early == {"image", "pull", "create"}
Late == {"listen", "task", "start", "accept"}
States == {"unused", "created", "tasked", "booted", "dialled", "connected", "refused", "died",
           "over", "deleted"}

\* Every process but the first follows a crash, and no container is of a
\* process that is still to come, or without a slot.
Lives ==
    /\ life <= faults
    /\ \A c \in Containers : lifeOf[c] <= life /\ (state[c] # "unused" => slotOf[c] # 0)

\* No two creators have one slot.
SlotsApart ==
    /\ \A p \in Creators : slotID[p] <= slotCounter /\ (pc[p] # "idle" => slotID[p] # 0)
    /\ \A p, q \in Creators : slotID[p] = slotID[q] => p = q \/ slotID[p] = 0

\* A listener is bound to the socket of its creator's slot,
\* which waits for the agent.
Listening ==
    \A s \in Slots :
        listener[s] # None => slotID[listener[s]] = s /\ pc[listener[s]] \notin Early \cup {"idle"}

\* From NewContainer on a creator holds a container of this process and of its
\* slot.
Held ==
    \A p \in Creators :
        IF pc[p] \in Late
        THEN /\ container[p] \in Containers
             /\ state[container[p]] # "unused"
             /\ lifeOf[container[p]] = life
             /\ slotOf[container[p]] = slotID[p]
        ELSE container[p] = None

\* Containers of the process that runs
Current == {c \in Containers : state[c] # "unused" /\ lifeOf[c] = life}

\* No two of them have one slot, nor one that a creator will use.
ContainersApart ==
    \A c \in Current :
        /\ slotOf[c] \in 1..slotCounter
        /\ \A d \in Current : slotOf[c] = slotOf[d] => c = d
        /\ \A p \in Creators : pc[p] \in Early => slotOf[c] # slotID[p]

\* What was handed over was created.
Handed == \A w \in warm : state[w[1]] # "unused" /\ state[w[2]] # "unused"

Apart == Lives /\ SlotsApart /\ Listening /\ Held /\ ContainersApart /\ Handed
IInv == TypeOK /\ Apart /\ OwnAgent /\ OrphansPaidFor

-----------------------------------------------------------------------------
LEMMA InitHolds == ASSUME Init PROVE IInv
<1>1. TypeOK
  BY WarmAssumption DEF Init, TypeOK, Slots
<1>2. Apart
  BY WarmAssumption DEF Init, Apart, Lives, SlotsApart, Listening, Held, ContainersApart,
     Current, Handed, Late
<1>3. OwnAgent
  BY DEF Init, OwnAgent
<1>4. Orphans = {}
  BY DEF Init, Orphans
<1>5. OrphansPaidFor
  BY <1>4, FS_EmptySet DEF Init, OrphansPaidFor
<1> QED BY <1>1, <1>2, <1>3, <1>5 DEF IInv

\* Orphans are containers, and containers are finitely many.
LEMMA OrphansFinite == ASSUME TypeOK PROVE IsFiniteSet(Orphans) /\ Cardinality(Orphans) \in Nat
<1>1. Orphans \subseteq Containers
  BY DEF Orphans
<1> QED BY <1>1, WarmAssumption, FS_Subset, FS_CardinalityType

\* A bound between two counts stays between them.
LEMMA StillBounded ==
    ASSUME NEW m \in Nat, NEW n \in Nat, NEW a \in Int, NEW b \in Int, NEW c \in Int, NEW d \in Int,
           m <= n, n <= a - b, a - b <= c - d
    PROVE  m <= c - d
OBVIOUS

\* A step that makes no orphan and undoes no fault.
LEMMA NoOrphan ==
    ASSUME TypeOK, TypeOK', OrphansPaidFor, Orphans' \subseteq Orphans,
           faults - life <= faults' - life'
    PROVE  OrphansPaidFor'
<1> DEFINE O == Orphans
           P == Orphans'
<1>1. IsFiniteSet(O) /\ Cardinality(O) \in Nat /\ Cardinality(O) <= faults - life
  BY OrphansFinite DEF OrphansPaidFor
<1>2. IsFiniteSet(P) /\ Cardinality(P) <= Cardinality(O) /\ Cardinality(P) \in Nat
  BY <1>1, FS_Subset, FS_CardinalityType
<1>3. faults \in Int /\ life \in Int /\ faults' \in Int /\ life' \in Int
  BY WarmAssumption DEF TypeOK
<1>4. Cardinality(P) <= faults' - life'
  <2> HIDE DEF O, P
  <2> QED BY <1>1, <1>2, <1>3, StillBounded
<1> QED BY <1>4 DEF OrphansPaidFor

\* A failed call makes one at most.
LEMMA OneOrphan ==
    ASSUME TypeOK, OrphansPaidFor, NEW c, Orphans' \subseteq Orphans \cup {c},
           faults' = faults + 1, UNCHANGED life
    PROVE  OrphansPaidFor'
<1> DEFINE O == Orphans
           P == Orphans'
<1>1. IsFiniteSet(O) /\ Cardinality(O) \in Nat /\ Cardinality(O) <= faults - life
  BY OrphansFinite DEF OrphansPaidFor
<1>2. IsFiniteSet(O \cup {c}) /\ Cardinality(O \cup {c}) \in Nat
      /\ Cardinality(O \cup {c}) <= Cardinality(O) + 1
  <2> HIDE DEF O
  <2> QED BY <1>1, FS_AddElement
<1>3. Cardinality(P) \in Nat /\ Cardinality(P) <= Cardinality(O \cup {c})
  BY <1>2, FS_Subset, FS_CardinalityType
<1>4. faults \in Int /\ life \in Int
  BY WarmAssumption DEF TypeOK
<1>5. Cardinality(P) <= faults' - life'
  <2> HIDE DEF O, P
  <2> QED BY <1>1, <1>2, <1>3, <1>4
<1> QED BY <1>5 DEF OrphansPaidFor

\* A slot number is nobody's yet when it is counted.
LEMMA AddStep == ASSUME IInv, NEW p \in Creators, Add(p) PROVE IInv'
<1> USE DEF IInv, Apart
<1>1. /\ slotCounter \in Nat /\ slotCounter + 1 \in 1..MaxSlots
      /\ slotCounter' = slotCounter + 1
      /\ pc[p] = "idle" /\ container[p] = None
  BY WarmAssumption DEF Add, containerVars, TypeOK, Held, Late
<1>2. TypeOK'
  BY <1>1 DEF Add, containerVars, TypeOK
<1>3. Lives' /\ Handed' /\ OwnAgent' /\ OrphansPaidFor'
  <2>1. Orphans' = Orphans
    BY DEF Add, containerVars, Orphans
  <2> QED BY <2>1 DEF Add, containerVars, Lives, Handed, OwnAgent, OrphansPaidFor
<1>4. SlotsApart'
  BY <1>1 DEF Add, containerVars, SlotsApart, TypeOK
<1>5. Listening'
  <2>1. \A s \in Slots : listener[s] # p
    BY <1>1, WarmAssumption DEF Listening
  <2> QED BY <1>1, <2>1 DEF Add, containerVars, Listening, TypeOK
<1>6. Held'
  BY <1>1 DEF Add, containerVars, Held, Late, TypeOK
<1>7. ContainersApart'
  BY <1>1 DEF Add, containerVars, ContainersApart, Current, Early, TypeOK
<1> QED BY <1>2, <1>3, <1>4, <1>5, <1>6, <1>7

LEMMA ImageStep == ASSUME IInv, NEW p \in Creators, GetImage(p) PROVE IInv'
<1> USE DEF IInv, Apart
<1>1. /\ pc[p] \in Early
      /\ \E point \in Early : pc' = [pc EXCEPT ![p] = point]
      /\ image' \in BOOLEAN
      /\ UNCHANGED <<life, slotCounter, slotID, container, warm, listener, state, slotOf,
                     lifeOf, faults>>
  BY DEF GetImage, Early, TypeOK, processVars, containerVars
<1>2. PICK point \in Early : pc' = [pc EXCEPT ![p] = point]
  BY <1>1
<1>3. TypeOK'
  BY <1>1, <1>2 DEF TypeOK, Early
<1>4. Lives' /\ Handed' /\ OwnAgent' /\ OrphansPaidFor'
  BY <1>1 DEF Lives, Handed, OwnAgent, OrphansPaidFor, Orphans
<1>5. Listening' /\ SlotsApart' /\ Held' /\ ContainersApart'
  BY <1>1, <1>2 DEF Listening, SlotsApart, Held, ContainersApart, Current, Early, Late, TypeOK
<1> QED BY <1>3, <1>4, <1>5

\* The new container has its creator's slot, which no container of this process
\* had.
LEMMA NewStep == ASSUME IInv, NEW p \in Creators, NewContainer(p) PROVE IInv'
<1> USE DEF IInv, Apart
<1>1. PICK c \in Containers :
        /\ state[c] = "unused"
        /\ container' = [container EXCEPT ![p] = c]
        /\ state' = [state EXCEPT ![c] = "created"]
        /\ slotOf' = [slotOf EXCEPT ![c] = slotID[p]]
        /\ lifeOf' = [lifeOf EXCEPT ![c] = life]
  BY DEF NewContainer, Fresh, Becomes
<1>2. /\ pc[p] = "create" /\ pc' = [pc EXCEPT ![p] = "listen"]
      /\ UNCHANGED <<life, slotCounter, slotID, warm, image, listener, faults>>
  BY DEF NewContainer, processVars
<1>3. TypeOK'
  BY <1>1, <1>2 DEF TypeOK
<1>4. Lives'
  BY <1>1, <1>2 DEF Lives, SlotsApart, TypeOK
<1>5. Listening' /\ SlotsApart'
  <2>1. Listening'
    BY <1>2 DEF Listening, Early, TypeOK
  <2>2. SlotsApart'
    BY <1>2 DEF SlotsApart, TypeOK
  <2> QED BY <2>1, <2>2
<1>6. container[p] = None
  BY <1>2 DEF Held, Late
<1>7. Held'
  BY <1>1, <1>2, WarmAssumption DEF Held, Late, TypeOK
<1>8. slotID[p] \in 1..slotCounter
  BY <1>2 DEF SlotsApart, TypeOK
<1>9. /\ Current' = Current \cup {c} /\ c \notin Current
      /\ \A d \in Current : slotOf'[d] = slotOf[d]
      /\ slotOf'[c] = slotID[p]
  BY <1>1, <1>2 DEF Current, TypeOK
<1>10. ContainersApart'
  <2>1. ASSUME NEW d \in Current
        PROVE  slotOf[d] # slotID[p]
    BY <1>2 DEF ContainersApart, Early
  <2>2. \A q \in Creators : pc'[q] \in Early => pc[q] \in Early /\ slotID[p] # slotID[q]
    BY <1>2 DEF SlotsApart, Early, TypeOK
  <2> QED BY <1>2, <1>8, <1>9, <2>1, <2>2 DEF ContainersApart
<1>11. Handed' /\ OwnAgent'
  <2>1. ASSUME NEW w \in warm
        PROVE  /\ w[1] \in Containers /\ w[2] \in Containers
               /\ w[1] # c /\ w[2] # c
    BY <1>1 DEF Handed, TypeOK
  <2>2. Handed'
    BY <1>1, <1>2, <2>1 DEF Handed, TypeOK
  <2>3. OwnAgent'
    BY <1>1, <1>2, <2>1 DEF OwnAgent, TypeOK
  <2> QED BY <2>2, <2>3
<1>12. OrphansPaidFor'
  <2>1. \A q \in Creators : container[q] # None => container'[q] = container[q]
    BY <1>1, <1>6 DEF TypeOK
  <2>2. container'[p] = c
    BY <1>1 DEF TypeOK
  <2>3. ASSUME NEW d \in Orphans' PROVE d \in Orphans
    <3>1. d \in Containers /\ d # c
      BY <2>2, <2>3 DEF Orphans
    <3>2. state'[d] = state[d] /\ lifeOf'[d] = lifeOf[d]
      BY <1>1, <3>1 DEF TypeOK
    <3>3. d # None
      BY <3>1, WarmAssumption
    <3> QED BY <1>2, <2>1, <2>3, <3>1, <3>2, <3>3 DEF Orphans
  <2> QED BY <1>2, <1>3, <2>3, NoOrphan DEF TypeOK
<1> QED BY <1>3, <1>4, <1>5, <1>7, <1>10, <1>11, <1>12

\* Two creators never hold one container.
LEMMA HeldApart ==
    ASSUME IInv, NEW p \in Creators, NEW q \in Creators,
           container[p] = container[q], container[p] # None
    PROVE  p = q
<1> USE DEF IInv, Apart
<1>1. pc[p] \in Late /\ pc[q] \in Late
  BY DEF Held
<1>2. slotID[p] = slotID[q]
  BY <1>1 DEF Held
<1>3. slotID[p] # 0
  BY <1>1 DEF SlotsApart, Late
<1> QED BY <1>2, <1>3 DEF SlotsApart

\* What a state does to the invariant: a container that was created stays so,
\* and only p's may get a task, or be idle again.
LEMMA StateStep ==
    ASSUME IInv, TypeOK',
           \A c \in Containers : state[c] = "unused" <=> state'[c] = "unused",
           UNCHANGED <<life, slotCounter, slotID, slotOf, lifeOf>>,
           life <= faults',
           \A q \in Creators : pc'[q] \in Early => pc[q] \in Early,
           \A q \in Creators : pc'[q] # "idle" => pc[q] # "idle"
    PROVE  Lives' /\ SlotsApart' /\ ContainersApart' /\ (UNCHANGED warm => Handed' /\ OwnAgent')
<1> USE DEF IInv, Apart
<1>1. Lives' /\ SlotsApart'
  BY DEF Lives, SlotsApart
<1>2. Current' = Current
  BY DEF Current
<1>3. ContainersApart'
  BY <1>2 DEF ContainersApart
<1>4. ASSUME UNCHANGED warm PROVE Handed' /\ OwnAgent'
  BY <1>4 DEF Handed, OwnAgent, TypeOK
<1> QED BY <1>1, <1>3, <1>4

LEMMA FailsEarlyStep == ASSUME IInv, NEW p \in Creators, FailsEarly(p) PROVE IInv'
<1> USE DEF IInv, Apart
<1>1. /\ pc[p] \in Early /\ faults' = faults + 1 /\ faults' \in 0..MaxFaults
      /\ pc' = [pc EXCEPT ![p] = "idle"]
      /\ container' = [container EXCEPT ![p] = None]
      /\ listener' = [s \in Slots |-> IF listener[s] = p THEN None ELSE listener[s]]
      /\ UNCHANGED <<life, slotCounter, slotID, warm, image, state, slotOf, lifeOf>>
  BY WarmAssumption
  DEF FailsEarly, Return, Fault, Early, TypeOK, processVars, containerVars
<1>2. TypeOK'
  BY <1>1 DEF TypeOK
<1>3. life <= faults'
  BY <1>1 DEF Lives, TypeOK
<1>4. Lives' /\ SlotsApart' /\ ContainersApart' /\ Handed' /\ OwnAgent'
  BY <1>1, <1>2, <1>3, StateStep DEF TypeOK, Early
<1>5. Listening' /\ Held'
  BY <1>1 DEF Listening, Held, Late, Early, TypeOK
<1>6. container[p] = None
  BY <1>1 DEF Held, Late, Early
<1>7. OrphansPaidFor'
  <2>1. container' = container
    BY <1>1, <1>6 DEF TypeOK
  <2>2. Orphans' = Orphans
    BY <1>1, <2>1 DEF Orphans
  <2> QED BY <1>1, <2>2, OneOrphan
<1> QED BY <1>2, <1>4, <1>5, <1>7

\* Only p's listener is bound to the socket of p's slot.
LEMMA ListenStep == ASSUME IInv, NEW p \in Creators, Listen(p) PROVE IInv'
<1> USE DEF IInv, Apart
<1>1. /\ pc[p] = "listen" /\ pc' = [pc EXCEPT ![p] = "task"]
      /\ listener' = [listener EXCEPT ![slotID[p]] = p]
      /\ UNCHANGED <<life, slotCounter, slotID, container, warm, image, state, slotOf,
                     lifeOf, faults>>
  BY DEF Listen, processVars, containerVars
<1>2. slotID[p] \in Slots
  BY <1>1, WarmAssumption DEF SlotsApart, TypeOK, Slots
<1>3. TypeOK'
  BY <1>1, <1>2 DEF TypeOK
<1>4. Lives' /\ SlotsApart' /\ ContainersApart' /\ Handed' /\ OwnAgent'
  BY <1>1, <1>3, StateStep DEF TypeOK, Early, Lives
<1>5. Listening'
  BY <1>1, <1>2 DEF Listening, Early, TypeOK
<1>6. Held' /\ OrphansPaidFor'
  BY <1>1 DEF Held, Late, OrphansPaidFor, Orphans, TypeOK
<1> QED BY <1>3, <1>4, <1>5, <1>6

LEMMA ListenFailsStep == ASSUME IInv, NEW p \in Creators, ListenFails(p) PROVE IInv'
<1> USE DEF IInv, Apart
<1>1. /\ pc[p] = "listen" /\ faults' = faults + 1 /\ faults' \in 0..MaxFaults
      /\ pc' = [pc EXCEPT ![p] = "idle"]
      /\ container' = [container EXCEPT ![p] = None]
      /\ listener' = [s \in Slots |-> IF listener[s] = p THEN None ELSE listener[s]]
      /\ UNCHANGED <<life, slotCounter, slotID, warm, image, state, slotOf, lifeOf>>
  BY WarmAssumption DEF ListenFails, Return, Fault, TypeOK, processVars, containerVars
<1>2. container[p] \in Containers
  BY <1>1 DEF Held, Late
<1>3. TypeOK'
  BY <1>1, <1>2 DEF TypeOK
<1>4. life <= faults'
  BY <1>1 DEF Lives, TypeOK
<1>5. Lives' /\ SlotsApart' /\ ContainersApart' /\ Handed' /\ OwnAgent'
  BY <1>1, <1>3, <1>4, StateStep DEF TypeOK, Early
<1>6. Listening' /\ Held'
  BY <1>1 DEF Listening, Held, Late, TypeOK
<1>7. OrphansPaidFor'
  <2>1. Orphans' \subseteq Orphans \cup {container[p]}
    BY <1>1 DEF Orphans, TypeOK
  <2> QED BY <1>1, <2>1, OneOrphan
<1> QED BY <1>3, <1>5, <1>6, <1>7

\* The task of p's container is made, or started: the other creators' containers
\* are others.
LEMMA TaskStep == ASSUME IInv, NEW p \in Creators, NewTask(p) \/ Start(p) PROVE IInv'
<1> USE DEF IInv, Apart
<1>1. PICK point \in {"start", "accept"}, how \in {"tasked", "booted"} :
        /\ point = "accept" => how = "booted"
        /\ pc[p] \in {"task", "start"} /\ pc' = [pc EXCEPT ![p] = point]
        /\ state' = [state EXCEPT ![container[p]] = how]
        /\ UNCHANGED <<life, slotCounter, slotID, container, warm, image, listener, slotOf,
                       lifeOf, faults>>
  BY DEF NewTask, Start, Becomes, processVars
<1>2. container[p] \in Containers /\ state[container[p]] # "unused"
  BY <1>1 DEF Held, Late
<1>3. TypeOK'
  BY <1>1 DEF TypeOK
<1>4. \A c \in Containers : state[c] = "unused" <=> state'[c] = "unused"
  BY <1>1, <1>2 DEF TypeOK
<1>5. Lives' /\ SlotsApart' /\ ContainersApart' /\ Handed' /\ OwnAgent'
  BY <1>1, <1>3, <1>4, StateStep DEF TypeOK, Early, Lives
<1>6. Listening'
  BY <1>1 DEF Listening, Early, TypeOK
<1>7. \A q \in Creators : container[q] = container[p] => q = p
  BY <1>2, HeldApart, WarmAssumption
<1>8. Held'
  BY <1>1, <1>2, <1>7 DEF Held, Late, TypeOK
<1>9. OrphansPaidFor'
  <2>1. Orphans' \subseteq Orphans
    BY <1>1 DEF Orphans, TypeOK
  <2> QED BY <1>1, <1>3, <2>1, NoOrphan DEF TypeOK
<1> QED BY <1>3, <1>5, <1>6, <1>8, <1>9

\* What a listener that closes does to the containers.
LEMMA ClosingFacts ==
    ASSUME TypeOK, NEW p \in Creators, NEW c \in Containers, state[c] # "unused",
           NEW how \in States \ {"unused"}, Closing(p, c, how)
    PROVE  /\ state' \in [Containers -> States]
           /\ \A d \in Containers : state[d] = "unused" <=> state'[d] = "unused"
           /\ \A d \in Containers : d # c /\ state'[d] # "deleted" => state[d] # "deleted"
  BY DEF Closing, Backlog, TypeOK, States

\* A creator leaves CreateWarmContainer, with its container or without.
LEMMA ReturnStep ==
    ASSUME IInv, NEW p \in Creators, pc[p] \in Late, Return(p),
           life <= faults', faults' \in 0..MaxFaults,
           NEW c \in Containers, state[c] # "unused",
           NEW how \in States \ {"unused"}, Closing(p, c, how),
           warm' \subseteq Containers \X Containers,
           UNCHANGED <<life, slotCounter, image, slotOf, lifeOf>>
    PROVE  /\ TypeOK' /\ Lives' /\ SlotsApart' /\ Listening' /\ Held' /\ ContainersApart'
           /\ (UNCHANGED warm => Handed' /\ OwnAgent')
<1> USE DEF IInv, Apart
<1>1. /\ pc' = [pc EXCEPT ![p] = "idle"]
      /\ container' = [container EXCEPT ![p] = None]
      /\ listener' = [s \in Slots |-> IF listener[s] = p THEN None ELSE listener[s]]
      /\ UNCHANGED slotID
  BY DEF Return
<1>2. \A d \in Containers : state[d] = "unused" <=> state'[d] = "unused"
  BY ClosingFacts
<1>3. TypeOK'
  BY <1>1, ClosingFacts DEF TypeOK, States
<1>4. Lives' /\ SlotsApart' /\ ContainersApart' /\ (UNCHANGED warm => Handed' /\ OwnAgent')
  BY <1>1, <1>2, <1>3, StateStep DEF TypeOK, Early
<1>5. Listening'
  BY <1>1 DEF Listening, TypeOK
<1>6. Held'
  BY <1>1, <1>2 DEF Held, Late, TypeOK
<1> QED BY <1>3, <1>4, <1>5, <1>6

\* A failed call after Listen: the listener closes, and the container becomes
\* anything but unused.
LEMMA FailureCloses ==
    ASSUME IInv, NEW p \in Creators, TaskFails(p) \/ AcceptFails(p)
    PROVE  /\ pc[p] \in Late /\ Return(p)
           /\ container[p] \in Containers /\ state[container[p]] # "unused"
           /\ \E how \in States \ {"unused"} : Closing(p, container[p], how)
<1> USE DEF IInv, Apart
<1>1. pc[p] \in Late /\ Return(p)
  BY DEF TaskFails, AcceptFails, Late
<1>2. container[p] \in Containers /\ state[container[p]] # "unused"
  BY <1>1 DEF Held
<1>3. state[container[p]] \in States \ {"unused"}
  BY <1>2 DEF TypeOK, States
<1>4. CASE TaskFails(p)
  <2>1. PICK how \in {"deleted", "created", state[container[p]]} : Closing(p, container[p], how)
    BY <1>4 DEF TaskFails
  <2>2. how \in States \ {"unused"}
    BY <1>3 DEF States
  <2> QED BY <1>1, <1>2, <2>1, <2>2
<1>5. CASE AcceptFails(p)
  <2> DEFINE how == IF container[p] \in Backlog(p) THEN "over" ELSE state[container[p]]
  <2>1. how \in States \ {"unused"}
    BY <1>3 DEF States
  <2>2. ASSUME NEW d \in Containers
        PROVE  (IF d \in Backlog(p) THEN "over" ELSE state[d])
                 = IF d = container[p] THEN how
                   ELSE IF d \in Backlog(p) THEN "over" ELSE state[d]
    OBVIOUS
  <2>3. Closing(p, container[p], how)
    BY <1>5, <2>2 DEF AcceptFails, Closing
  <2> QED BY <1>1, <1>2, <2>1, <2>3
<1> QED BY <1>4, <1>5

LEMMA FailsStep == ASSUME IInv, NEW p \in Creators, TaskFails(p) \/ AcceptFails(p) PROVE IInv'
<1> USE DEF IInv, Apart
<1>1. /\ faults' = faults + 1 /\ faults < MaxFaults
      /\ UNCHANGED <<life, slotCounter, warm, image, slotOf, lifeOf>>
  BY DEF TaskFails, AcceptFails, Fault, processVars
<1>2. PICK how \in States \ {"unused"} : Closing(p, container[p], how)
  BY FailureCloses
<1>3. pc[p] \in Late /\ Return(p) /\ container[p] \in Containers /\ state[container[p]] # "unused"
  BY FailureCloses
<1>4. life <= faults' /\ faults' \in 0..MaxFaults
  BY <1>1, WarmAssumption DEF Lives, TypeOK
<1>5. warm' \subseteq Containers \X Containers
  BY <1>1 DEF TypeOK
<1>6. TypeOK' /\ Apart' /\ OwnAgent'
  BY <1>1, <1>2, <1>3, <1>4, <1>5, ReturnStep
<1>7. OrphansPaidFor'
  <2>1. /\ \A d \in Containers : state[d] = "unused" <=> state'[d] = "unused"
        /\ \A d \in Containers :
              d # container[p] /\ state'[d] # "deleted" => state[d] # "deleted"
    BY <1>2, <1>3, ClosingFacts
  <2>2. container' = [container EXCEPT ![p] = None]
    BY <1>3 DEF Return
  <2>3. Orphans' \subseteq Orphans \cup {container[p]}
    BY <1>1, <2>1, <2>2 DEF Orphans, TypeOK
  <2> QED BY <1>1, <2>3, OneOrphan
<1> QED BY <1>6, <1>7

\* The agent that is accepted is in a container of p's slot: p's own, or one of
\* an earlier process.
LEMMA AcceptStep == ASSUME IInv, NEW p \in Creators, Accept(p) PROVE IInv'
<1> USE DEF IInv, Apart
<1>1. PICK c \in Backlog(p) :
        /\ warm' = warm \cup {<<container[p], c>>}
        /\ Closing(p, c, "connected")
  BY DEF Accept
<1>2. /\ pc[p] = "accept" /\ Return(p)
      /\ UNCHANGED <<life, slotCounter, image, slotOf, lifeOf, faults>>
  BY DEF Accept, processVars
<1>3. /\ container[p] \in Containers /\ state[container[p]] # "unused"
      /\ lifeOf[container[p]] = life /\ slotOf[container[p]] = slotID[p]
      /\ slotID[p] # 0
  BY <1>2 DEF Held, Late, SlotsApart
<1>4. c \in Containers /\ state[c] = "dialled" /\ listener[slotOf[c]] = p
  BY DEF Backlog
<1>5. slotOf[c] = slotID[p]
  <2>1. slotOf[c] \in Slots
    BY <1>4 DEF Lives, Slots, TypeOK
  <2> QED BY <1>4, <2>1, WarmAssumption DEF Listening
<1>6. c = container[p] \/ lifeOf[c] < life
  BY <1>3, <1>4, <1>5 DEF Lives, ContainersApart, Current, TypeOK
<1>7. warm' \subseteq Containers \X Containers
  BY <1>1, <1>3, <1>4 DEF TypeOK
<1>8. TypeOK' /\ Lives' /\ SlotsApart' /\ Listening' /\ Held' /\ ContainersApart'
  BY <1>1, <1>2, <1>4, <1>7, ReturnStep DEF Late, Lives, TypeOK, States
<1>9. /\ \A d \in Containers : state[d] = "unused" <=> state'[d] = "unused"
      /\ \A d \in Containers : d # c /\ state'[d] # "deleted" => state[d] # "deleted"
  BY <1>1, <1>4, ClosingFacts DEF States
<1>10. Handed'
  BY <1>1, <1>3, <1>4, <1>9 DEF Handed, TypeOK
<1>11. OwnAgent'
  BY <1>1, <1>2, <1>3, <1>5, <1>6 DEF OwnAgent
<1>12. OrphansPaidFor'
  <2>1. container' = [container EXCEPT ![p] = None]
    BY <1>2 DEF Return
  <2>2. <<container[p], c>> \in warm' /\ <<container[p], c>>[1] = container[p]
    BY <1>1
  <2>3. warm \subseteq warm'
    BY <1>1
  <2>4. ASSUME NEW d \in Orphans' PROVE d \in Orphans
    <3>1. d \in Containers /\ d # container[p] /\ \A w \in warm : w[1] # d
      BY <2>2, <2>3, <2>4 DEF Orphans
    <3>2. state[d] \notin {"unused", "deleted"} /\ lifeOf[d] = life
      BY <1>2, <1>4, <1>9, <2>4 DEF Orphans
    <3>3. \A q \in Creators : container[q] # d
      BY <2>1, <2>4, <3>1 DEF Orphans, TypeOK
    <3> QED BY <3>1, <3>2, <3>3 DEF Orphans
  <2> QED BY <1>2, <1>8, <2>4, NoOrphan DEF TypeOK
<1> QED BY <1>8, <1>10, <1>11, <1>12

\* An agent dials, or dies before it has.
LEMMA AgentStep == ASSUME IInv, NEW c \in Containers, Dial(c) \/ Dies(c) PROVE IInv'
<1> USE DEF IInv, Apart
<1>1. PICK how \in {"dialled", "refused", "died"} :
        /\ state[c] = "booted" /\ state' = [state EXCEPT ![c] = how]
        /\ faults' \in {faults, faults + 1} /\ (faults' # faults => faults < MaxFaults)
        /\ UNCHANGED <<life, slotCounter, pc, slotID, container, warm, image, listener,
                       slotOf, lifeOf>>
  BY DEF Dial, Dies, Becomes, Fault, processVars, creatorVars
<1>2. TypeOK'
  BY <1>1, WarmAssumption DEF TypeOK
<1>3. life <= faults'
  BY <1>1, WarmAssumption DEF Lives, TypeOK
<1>4. \A d \in Containers : state[d] = "unused" <=> state'[d] = "unused"
  BY <1>1 DEF TypeOK
<1>5. Lives' /\ SlotsApart' /\ ContainersApart' /\ Handed' /\ OwnAgent'
  BY <1>1, <1>2, <1>3, <1>4, StateStep
<1>6. Listening' /\ Held'
  BY <1>1 DEF Listening, Held, TypeOK
<1>7. OrphansPaidFor'
  <2>1. Orphans' \subseteq Orphans
    <3>1. \A d \in Containers : state'[d] # "unused" => state[d] # "unused"
      BY <1>4
    <3>2. \A d \in Containers : state'[d] # "deleted" => state[d] # "deleted"
      BY <1>1 DEF TypeOK
    <3> QED BY <1>1, <3>1, <3>2 DEF Orphans
  <2>2. faults - life <= faults' - life'
    <3>1. faults \in Int /\ life \in Int
      BY WarmAssumption DEF TypeOK
    <3>2. (faults' = faults \/ faults' = faults + 1) /\ life' = life
      BY <1>1
    <3> QED BY <3>1, <3>2
  <2> QED BY <1>2, <2>1, <2>2, NoOrphan
<1> QED BY <1>2, <1>5, <1>6, <1>7

\* The containers of all processes so far are of earlier ones now.
LEMMA CrashStep == ASSUME IInv, Crash PROVE IInv'
<1> USE DEF IInv, Apart
<1>1. /\ life' = life + 1 /\ faults' = faults + 1 /\ faults < MaxFaults
      /\ slotCounter' = 0 /\ warm' = {}
      /\ pc' = [p \in Creators |-> "idle"] /\ slotID' = [p \in Creators |-> 0]
      /\ container' = [p \in Creators |-> None]
      /\ listener' = [s \in Slots |-> None]
      /\ UNCHANGED <<image, slotOf, lifeOf>>
  BY DEF Crash, Fault
<1>2. state' = [c \in Containers |->
                   IF state[c] \in {"dialled", "connected"} THEN "over" ELSE state[c]]
  BY DEF Crash
<1>3. Lives'
  BY <1>1, <1>2 DEF Lives, TypeOK
<1>4. TypeOK'
  BY <1>1, <1>2, WarmAssumption DEF TypeOK, Lives
<1>5. \A c \in Containers : lifeOf'[c] < life'
  BY <1>1 DEF Lives, TypeOK
<1>6. SlotsApart' /\ Listening' /\ Held' /\ Handed' /\ OwnAgent'
  BY <1>1, WarmAssumption DEF SlotsApart, Listening, Held, Handed, OwnAgent, Late
<1>7. ContainersApart'
  BY <1>1, <1>4, <1>5 DEF ContainersApart, Current, TypeOK
<1>8. OrphansPaidFor'
  <2>1. Orphans' = {}
    BY <1>4, <1>5 DEF Orphans, TypeOK
  <2>2. faults - life <= faults' - life'
    BY <1>1, WarmAssumption DEF TypeOK
  <2> QED BY <1>4, <2>1, <2>2, NoOrphan
<1> QED BY <1>3, <1>4, <1>6, <1>7, <1>8

LEMMA NextStep == ASSUME IInv, [Next]_vars PROVE IInv'
<1>1. ASSUME NEW p \in Creators, Add(p) \/ Create(p) PROVE IInv'
  BY <1>1, AddStep, ImageStep, NewStep, FailsEarlyStep, ListenStep, ListenFailsStep,
     TaskStep, FailsStep, AcceptStep
  DEF Create
<1>2. ASSUME NEW c \in Containers, Dial(c) \/ Dies(c) PROVE IInv'
  BY <1>2, AgentStep
<1>3. CASE Crash
  BY <1>3, CrashStep
<1>4. CASE UNCHANGED vars
  BY <1>4
  DEF vars, processVars, creatorVars, containerVars, IInv, TypeOK, Apart, Lives, SlotsApart,
      Listening, Held, ContainersApart, Current, Handed, OwnAgent, OrphansPaidFor, Orphans
<1> QED BY <1>1, <1>2, <1>3, <1>4 DEF Next

-----------------------------------------------------------------------------
\* The slots, listeners and containers of CreateWarmContainer's callers are apart
\* in every state.
THEOREM Inductive == Spec => []IInv
<1>1. Init => IInv
  BY InitHolds
<1>2. IInv /\ [Next]_vars => IInv'
  BY NextStep
<1> QED BY <1>1, <1>2, PTL DEF Spec

\* Every variable keeps its range.
THEOREM TypeCorrect == Spec => []TypeOK
<1>1. IInv => TypeOK
  BY DEF IInv
<1> QED BY <1>1, Inductive, PTL

\* A warm container's Conn ends in that container's agent, but for agents that an
\* earlier process left behind with the slot's number.
THEOREM OwnAgents == Spec => []OwnAgent
<1>1. IInv => OwnAgent
  BY DEF IInv
<1> QED BY <1>1, Inductive, PTL

\* No creation leaves more than its own container, and only a failed one does.
THEOREM PaysForOrphans == Spec => []OrphansPaidFor
<1>1. IInv => OrphansPaidFor
  BY DEF IInv
<1> QED BY <1>1, Inductive, PTL

-----------------------------------------------------------------------------
(* Accept *)

\* From Listen on the socket of a creator's slot is its listener's; and the agent
\* of a container it waits for has not ended but by its own death.
Serving ==
    \A p \in Creators :
        /\ pc[p] \in {"task", "start", "accept"} => listener[slotID[p]] = p
        /\ pc[p] = "accept" => state[container[p]] \in {"booted", "dialled", "died"}

LEMMA ServedWhenServing == ASSUME IInv, Serving PROVE AcceptIsServed
<1> SUFFICES ASSUME NEW p \in Creators, pc[p] = "accept", state[container[p]] # "died"
             PROVE  \/ Backlog(p) # {}
                    \/ state[container[p]] = "booted" /\ listener[slotOf[container[p]]] = p
  BY DEF AcceptIsServed
<1>1. container[p] \in Containers /\ slotOf[container[p]] = slotID[p] /\ listener[slotID[p]] = p
  BY DEF IInv, Apart, Held, Late, Serving
<1>2. CASE state[container[p]] = "dialled"
  BY <1>1, <1>2 DEF Backlog
<1> QED BY <1>1, <1>2 DEF Serving

\* A listener that closes resets no other creator's agent, and takes no other
\* creator's socket.
LEMMA OthersServed ==
    ASSUME IInv, Serving, NEW p \in Creators, pc[p] \in Late, Return(p),
           NEW c \in Containers, c = container[p] \/ c \in Backlog(p), NEW how, Closing(p, c, how)
    PROVE  Serving'
<1> USE DEF IInv, Apart
<1>1. /\ pc' = [pc EXCEPT ![p] = "idle"]
      /\ container' = [container EXCEPT ![p] = None]
      /\ listener' = [s \in Slots |-> IF listener[s] = p THEN None ELSE listener[s]]
      /\ UNCHANGED slotID
  BY DEF Return
<1> SUFFICES ASSUME NEW q \in Creators, q # p, pc[q] \in {"task", "start", "accept"}
             PROVE  /\ listener'[slotID[q]] = q
                    /\ pc[q] = "accept" => state'[container[q]] = state[container[q]]
  BY <1>1 DEF Serving, TypeOK
<1>2. /\ container[q] \in Containers /\ slotOf[container[q]] = slotID[q]
      /\ slotID[q] \in Slots /\ listener[slotID[q]] = q
  BY WarmAssumption DEF Held, Late, SlotsApart, Serving, Slots, TypeOK
<1>3. container[q] # container[p]
  BY <1>2, HeldApart, WarmAssumption
<1>4. container[q] \notin Backlog(p)
  BY <1>2 DEF Backlog
<1> QED BY <1>1, <1>2, <1>3, <1>4 DEF Closing

LEMMA ServingStep == ASSUME IInv, Serving, [Next]_vars PROVE Serving'
<1> USE DEF IInv, Apart
<1>1. ASSUME NEW p \in Creators, Add(p) \/ GetImage(p) PROVE Serving'
  BY <1>1 DEF Serving, Add, GetImage, containerVars, processVars, TypeOK
<1>2. ASSUME NEW p \in Creators, NewContainer(p) PROVE Serving'
  <2>1. PICK c \in Containers :
          /\ state[c] = "unused" /\ state' = [state EXCEPT ![c] = "created"]
          /\ container' = [container EXCEPT ![p] = c] /\ pc' = [pc EXCEPT ![p] = "listen"]
          /\ UNCHANGED <<slotID, listener>>
    BY <1>2 DEF NewContainer, Fresh, Becomes
  <2> QED BY <2>1 DEF Serving, TypeOK
<1>3. ASSUME NEW p \in Creators, FailsEarly(p) \/ ListenFails(p) PROVE Serving'
  <2>1. /\ pc' = [pc EXCEPT ![p] = "idle"] /\ container' = [container EXCEPT ![p] = None]
        /\ listener' = [s \in Slots |-> IF listener[s] = p THEN None ELSE listener[s]]
        /\ UNCHANGED <<slotID, state>>
    BY <1>3 DEF FailsEarly, ListenFails, Return, containerVars
  <2>2. ASSUME NEW q \in Creators, pc[q] \in {"task", "start", "accept"}
        PROVE  slotID[q] \in Slots
    BY <2>2, WarmAssumption DEF SlotsApart, Slots, TypeOK
  <2> QED BY <2>1, <2>2 DEF Serving, TypeOK
<1>4. ASSUME NEW p \in Creators, Listen(p) PROVE Serving'
  <2>1. /\ pc[p] = "listen" /\ pc' = [pc EXCEPT ![p] = "task"]
        /\ listener' = [listener EXCEPT ![slotID[p]] = p]
        /\ UNCHANGED <<slotID, container, state>>
    BY <1>4 DEF Listen, containerVars
  <2>2. slotID[p] \in Slots /\ slotID[p] # 0
    BY <2>1, WarmAssumption DEF SlotsApart, TypeOK, Slots
  <2> QED BY <2>1, <2>2 DEF Serving, SlotsApart, TypeOK
<1>5. ASSUME NEW p \in Creators, NewTask(p) \/ Start(p) PROVE Serving'
  <2>1. PICK how \in {"tasked", "booted"}, point \in {"start", "accept"} :
          /\ point = "accept" => how = "booted"
          /\ pc[p] \in {"task", "start"} /\ pc' = [pc EXCEPT ![p] = point]
          /\ state' = [state EXCEPT ![container[p]] = how]
          /\ UNCHANGED <<slotID, container, listener>>
    BY <1>5 DEF NewTask, Start, Becomes
  <2>2. \A q \in Creators : container[q] = container[p] => q = p
    BY <2>1, HeldApart, WarmAssumption DEF Held, Late
  <2>3. container[p] \in Containers
    BY <2>1 DEF Held, Late
  <2>4. ASSUME NEW q \in Creators, pc[q] = "accept" PROVE container[q] \in Containers
    BY <2>4 DEF Held, Late
  <2> QED BY <2>1, <2>2, <2>3, <2>4 DEF Serving, TypeOK
<1>6. ASSUME NEW p \in Creators, TaskFails(p) \/ AcceptFails(p) PROVE Serving'
  BY <1>6, FailureCloses, OthersServed
<1>7. ASSUME NEW p \in Creators, Accept(p) PROVE Serving'
  <2>1. PICK c \in Backlog(p) : Closing(p, c, "connected")
    BY <1>7 DEF Accept
  <2>2. pc[p] \in Late /\ Return(p) /\ c \in Containers
    BY <1>7 DEF Accept, Late, Backlog
  <2> QED BY <2>1, <2>2, OthersServed
<1>8. ASSUME NEW c \in Containers, Dial(c) \/ Dies(c) PROVE Serving'
  <2>1. /\ UNCHANGED <<pc, slotID, container, listener>> /\ state[c] = "booted"
        /\ \E how \in {"dialled", "refused", "died"} :
              /\ state' = [state EXCEPT ![c] = how]
              /\ how = "refused" => listener[slotOf[c]] = None
    BY <1>8 DEF Dial, Dies, Becomes, creatorVars
  <2>2. ASSUME NEW p \in Creators, pc[p] = "accept"
        PROVE  container[p] \in Containers /\ listener[slotOf[container[p]]] # None
    BY <2>2, WarmAssumption DEF Held, Late, Serving
  <2> QED BY <2>1, <2>2 DEF Serving, TypeOK
<1>9. CASE Crash
  BY <1>9 DEF Crash, Serving
<1>10. CASE UNCHANGED vars
  BY <1>10 DEF vars, creatorVars, containerVars, Serving
<1> QED BY <1>1, <1>2, <1>3, <1>4, <1>5, <1>6, <1>7, <1>8, <1>9, <1>10 DEF Next, Create

\* A creator in Accept has a connection waiting, or its agent on its way to its
\* listener, unless that agent died.
THEOREM Served == Spec => []AcceptIsServed
<1>1. Init => Serving
  BY DEF Init, Serving
<1>2. IInv /\ Serving => AcceptIsServed
  BY ServedWhenServing
<1> QED BY <1>1, <1>2, ServingStep, Inductive, PTL DEF Spec

\* A creator's socket is its own, for who comes in by it and for who may still come.
THEOREM OwnSockets == Spec => []OwnSocket
BY OwnAgents, Served, PTL DEF OwnSocket
=============================================================================
