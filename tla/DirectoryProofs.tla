-------------------------- MODULE DirectoryProofs --------------------------
(***************************************************************************)
(* Proofs about the node's mapping directory, for any containers, specs,   *)
(* flag sets and bounds: with nothing pending it holds exactly what the    *)
(* runtime has, at no moment does it lose a container the runtime has, and *)
(* it implements Directory, on which the reader's proofs rest.             *)
(***************************************************************************)
EXTENDS FractiondProofs

Ran == {c \in Container : state[c] \in {"running", "exited", "removed"}}

(* An event says what was true when it was made, and still is: a removed   *)
(* container does not come back, and the others were created.              *)
Truthful(e) ==
  IF e.kind = "remove" THEN e.infos \subseteq Gone ELSE e.infos \subseteq Ran \cap Fractional

(* A resync unlinks no container the runtime has: the ones its snapshot    *)
(* lacks and the runtime has were created after it, and nothing before it  *)
(* in the queue gives them a file.                                         *)
InHand ==
  /\ Held \subseteq Ran \cap Fractional
  /\ work.phase = "unlink" => work.todo \subseteq Gone
  /\ work.phase = "list" \/ (work.phase = "write" /\ work.prune) =>
       Live \cap Held \subseteq work.desired

InQueue ==
  \A i \in 1..Len(queue) :
    /\ Truthful(queue[i])
    /\ queue[i].kind = "replace" /\ queue[i].infos # {} =>
         /\ Live \cap Held \subseteq queue[i].infos
         /\ \A j \in 1..(i - 1) : Live \cap M!Leaves(queue[j]) \subseteq queue[i].infos

(* Containers only grow older.                                             *)
Ages ==
  /\ Ran \subseteq Ran' /\ Gone \subseteq Gone'
  /\ Live' \cap Ran \subseteq Live
  /\ Fractional' = Fractional

(* No step of the node brings a removed container back, or changes what a  *)
(* container asked for.                                                    *)
LEMMA ContainersAge == Shape /\ [Next]_vars => Ages
  <1> SUFFICES ASSUME Shape, [Next]_vars PROVE Ages
    OBVIOUS
  <1> DEFINE States == {"absent", "running", "exited", "removed", "refused"}
  <1>0. state \in [Container -> States]
    BY DEF Shape
  <1>1. CASE spec' = spec /\ state' = state
    BY <1>1 DEF Ages, Ran, Gone, Live, Fractional
  <1>2. ASSUME NEW c \in Container, NEW v \in States, spec' = spec,
               state' = [state EXCEPT ![c] = v],
               \/ state[c] = "absent"
               \/ state[c] = "running" /\ v = "exited"
               \/ state[c] = "exited" /\ v = "removed"
        PROVE  Ages
    <2>1. Fractional' = Fractional
      BY <1>2 DEF Fractional
    <2>2. /\ state'[c] = v
          /\ \A d \in Container : d # c => state'[d] = state[d]
      BY <1>0, <1>2
    <2>3. Ran \subseteq Ran' /\ Gone \subseteq Gone' /\ Live' \cap Ran \subseteq Live
      BY <1>2, <2>2 DEF Ran, Gone, Live
    <2> QED
      BY <2>1, <2>3 DEF Ages
  <1>3. ASSUME NEW c \in Container, CreateContainer(c) \/ CreateUnhooked(c) PROVE Ages
    <2>1. /\ spec' = spec /\ state[c] = "absent"
          /\ \E v \in States : state' = [state EXCEPT ![c] = v]
      BY <1>3 DEF CreateContainer, CreateUnhooked, Started
    <2> QED
      BY <1>2, <2>1, Zenon
  <1>4. ASSUME NEW c \in Container, Exit(c) \/ RemoveContainer(c) PROVE Ages
    BY <1>2, <1>4 DEF Exit, RemoveContainer
  <1>5. ASSUME NEW s \in Session, NEW c \in Container, Stop(s, c) PROVE Ages
    <2>1. spec' = spec /\ (state' = state \/ (state[c] = "running" /\ state' = [state EXCEPT ![c] = "exited"]))
      BY <1>0, <1>5 DEF Stop
    <2> QED
      BY <1>1, <1>2, <2>1
  <1>6. ASSUME NEW s \in Session, SynchronizeReady(s) \/ SynchronizeAudit(s)
        PROVE  spec' = spec /\ state' = state
    BY <1>6 DEF SynchronizeReady, SynchronizeAudit, cvars
  <1>7. Disconnect \/ RuntimeShutdown \/ Shutdown \/ ShutdownReturn \/ Synchronize
          \/ MappingWorker \/ UNCHANGED vars
        => spec' = spec /\ state' = state
    BY DEF Disconnect, RuntimeShutdown, Shutdown, ShutdownReturn, Synchronize, MappingWorker,
           cvars, vars
  <1>8. RunReturns \/ Reconnect \/ Terminate \/ FlushReturns \/ Die \/ Restart
        => spec' = spec /\ state' = state
    BY Zenon DEF RunReturns, Reconnect, Terminate, FlushReturns, Die, Restart, cvars
  <1> QED
    BY <1>1, <1>3, <1>4, <1>5, <1>6, <1>7, <1>8 DEF Next, ExitProcess, Kill

(* Ageing containers keep what the event in hand says true.                *)
LEMMA HandKept ==
  ASSUME InHand, Ages, UNCHANGED <<dir, work>>
  PROVE  InHand'
  BY DEF InHand, Ages, Held

(* So do the queued events, while no container gains a file.               *)
LEMMA QueueKept ==
  ASSUME InHand, InQueue, Ages, queue' = queue, Held' \subseteq Held
  PROVE  InQueue'
  <1> SUFFICES ASSUME NEW i \in 1..Len(queue)
               PROVE  /\ Truthful(queue[i])'
                      /\ queue[i].kind = "replace" /\ queue[i].infos # {} =>
                           /\ Live' \cap Held' \subseteq queue[i].infos
                           /\ \A j \in 1..(i - 1) :
                                Live' \cap M!Leaves(queue[j]) \subseteq queue[i].infos
    BY DEF InQueue
  <1>1. Truthful(queue[i])'
    BY DEF InQueue, Truthful, Ages
  <1>2. Live' \cap Held' \subseteq Live \cap Held
    BY DEF InHand, Ages
  <1>3. \A j \in 1..Len(queue) : Live' \cap M!Leaves(queue[j]) \subseteq Live \cap M!Leaves(queue[j])
    BY DEF InQueue, Truthful, Ages, M!Leaves
  <1>4. \A j \in 1..(i - 1) : j \in 1..Len(queue)
    OBVIOUS
  <1> QED
    BY <1>1, <1>2, <1>3, <1>4 DEF InQueue

(* A call appends an item that is true, and that keeps what the runtime    *)
(* has when it is a resync.                                                *)
LEMMA QueueGrows ==
  ASSUME M!TypeOK, InHand, InQueue, Ages, NEW e \in M!Item, queue' = Append(queue, e),
         Held' \subseteq Held,
         IF e.kind = "remove" THEN e.infos \subseteq Gone'
         ELSE e.infos \subseteq Ran' \cap Fractional',
         e.kind = "replace" /\ e.infos # {} => Live' \cap Fractional \subseteq e.infos
  PROVE  InQueue'
  <1>1. /\ queue \in Seq(M!Item) /\ Len(queue) \in Nat /\ Len(queue') = Len(queue) + 1
        /\ queue'[Len(queue) + 1] = e
        /\ \A i \in 1..Len(queue) : queue'[i] = queue[i]
    BY DEF M!TypeOK
  <1>2. Live' \cap Held' \subseteq Live \cap Held /\ Held' \subseteq Fractional
    BY DEF InHand, Ages
  <1>3. \A j \in 1..Len(queue) :
          /\ Live' \cap M!Leaves(queue[j]) \subseteq Live \cap M!Leaves(queue[j])
          /\ M!Leaves(queue[j]) \subseteq Fractional
    BY DEF InQueue, Truthful, Ages, M!Leaves
  <1>4. ASSUME NEW i \in 1..Len(queue)
        PROVE  /\ IF queue[i].kind = "remove" THEN queue[i].infos \subseteq Gone'
                  ELSE queue[i].infos \subseteq Ran' \cap Fractional'
               /\ queue[i].kind = "replace" /\ queue[i].infos # {} =>
                    /\ Live' \cap Held' \subseteq queue[i].infos
                    /\ \A j \in 1..(i - 1) :
                         Live' \cap M!Leaves(queue[j]) \subseteq queue[i].infos
    <2>1. \A j \in 1..(i - 1) : j \in 1..Len(queue)
      BY <1>1
    <2>2. /\ Truthful(queue[i])
          /\ queue[i].kind = "replace" /\ queue[i].infos # {} =>
               /\ Live \cap Held \subseteq queue[i].infos
               /\ \A j \in 1..(i - 1) : Live \cap M!Leaves(queue[j]) \subseteq queue[i].infos
      BY DEF InQueue
    <2>3. IF queue[i].kind = "remove" THEN queue[i].infos \subseteq Gone'
          ELSE queue[i].infos \subseteq Ran' \cap Fractional'
      BY <2>2 DEF Truthful, Ages
    <2> QED
      BY <1>2, <1>3, <2>1, <2>2, <2>3
  <1> SUFFICES ASSUME NEW i \in 1..Len(queue')
               PROVE  /\ IF queue'[i].kind = "remove" THEN queue'[i].infos \subseteq Gone'
                         ELSE queue'[i].infos \subseteq Ran' \cap Fractional'
                      /\ queue'[i].kind = "replace" /\ queue'[i].infos # {} =>
                           /\ Live' \cap Held' \subseteq queue'[i].infos
                           /\ \A j \in 1..(i - 1) :
                                Live' \cap M!Leaves(queue'[j]) \subseteq queue'[i].infos
    BY DEF InQueue, Truthful
  <1>5. \A j \in 1..(i - 1) : queue'[j] = queue[j] /\ j \in 1..Len(queue)
    BY <1>1
  <1>6. CASE i \in 1..Len(queue)
    BY <1>1, <1>4, <1>5, <1>6
  <1>7. CASE i = Len(queue) + 1
    BY <1>1, <1>2, <1>3, <1>5, <1>7
  <1>8. i \in 1..Len(queue) \/ i = Len(queue) + 1
    BY <1>1
  <1> QED
    BY <1>6, <1>7, <1>8

(* Receiving moves every item one place up; a blocked barrier may take the *)
(* place at the tail.                                                      *)
LEMMA ReceiveShifts ==
  ASSUME M!TypeOK, M!Receive
  PROVE  \A i \in 1..Len(queue') : \/ i + 1 \in 1..Len(queue) /\ queue'[i] = queue[i + 1]
                                   \/ queue'[i].kind = "barrier" /\ queue'[i].infos = {}
  <1>0. queue \in Seq(M!Item) /\ queue # <<>> /\ Len(queue) \in Nat /\ Len(queue) >= 1
    BY DEF M!TypeOK, M!Receive
  <1>1. CASE queue' = Tail(queue)
    BY <1>0, <1>1
  <1>2. CASE queue' = Append(Tail(queue), M!Barrier(Head(sendq)))
    <2> DEFINE b == M!Barrier(Head(sendq))
    <2>1. b.kind = "barrier" /\ b.infos = {}
      BY DEF M!Barrier
    <2> HIDE DEF b
    <2>2. /\ Len(Tail(queue)) = Len(queue) - 1
          /\ \A i \in 1..(Len(queue) - 1) : Tail(queue)[i] = queue[i + 1]
          /\ Tail(queue) \in Seq(M!Item)
      BY <1>0
    <2>3. /\ Len(queue') = Len(queue) /\ queue'[Len(queue)] = b
          /\ \A i \in 1..(Len(queue) - 1) : queue'[i] = Tail(queue)[i]
      BY <1>0, <1>2, <2>2 DEF b
    <2> QED
      BY <1>0, <2>1, <2>2, <2>3
  <1> QED
    BY <1>1, <1>2 DEF M!Receive, M!Dequeue

(* Receiving gives the containers of the first item a file on its way.     *)
LEMMA ReceiveHolds ==
  ASSUME M!TypeOK, M!Receive
  PROVE  1 \in 1..Len(queue) /\ Held' \subseteq Held \cup M!Leaves(queue[1])
  <1> DEFINE h == Head(queue)
  <1>1. queue \in Seq(M!Item) /\ queue # <<>> /\ 1 \in 1..Len(queue) /\ h = queue[1]
    BY DEF M!TypeOK, M!Receive
  <1>2. work' = M!Start(h) /\ dir' = dir
    BY DEF M!Receive
  <1>3. work'.phase = "write" => h.kind # "remove" /\ work'.todo = h.infos
    BY <1>2, Zenon DEF M!Start, M!Idle, M!Doing
  <1> HIDE DEF h
  <1> QED
    BY <1>1, <1>2, <1>3 DEF Held, M!Leaves

(* Taking an item off the queue puts it in hand; a blocked barrier may     *)
(* take its place at the tail.                                             *)
LEMMA QueueShrinks ==
  ASSUME M!TypeOK, InHand, InQueue, M!Receive, UNCHANGED <<spec, state>>
  PROVE  InHand' /\ InQueue'
  <1> DEFINE h == Head(queue)
  <1>1. /\ queue \in Seq(M!Item) /\ queue # <<>> /\ Len(queue) \in Nat /\ Len(queue) >= 1
        /\ h = queue[1] /\ h \in M!Item
    BY DEF M!TypeOK, M!Receive
  <1>2. /\ Live' = Live /\ Ran' = Ran /\ Gone' = Gone /\ Fractional' = Fractional
    BY DEF Live, Ran, Gone, Fractional
  <1>3. work.phase = "idle" /\ work' = M!Start(h) /\ dir' = dir
    BY DEF M!Receive
  <1>4. Held = dir
    BY <1>3 DEF Held
  <1>5. /\ Truthful(h)
        /\ h.kind = "replace" /\ h.infos # {} => Live \cap dir \subseteq h.infos
    BY <1>1, <1>4 DEF InQueue
  <1>6. \/ h.infos = {} /\ work'.phase = "idle"
        \/ h.kind = "remove" /\ work'.phase = "unlink" /\ work'.todo = h.infos
        \/ /\ h.kind # "remove" /\ h.infos # {} /\ work'.phase = "write"
           /\ work'.todo = h.infos /\ work'.desired = h.infos
           /\ work'.prune = (h.kind = "replace")
    BY <1>3, Zenon DEF M!Start, M!Idle, M!Doing
  <1>7. Held' \subseteq dir \cup M!Leaves(h)
    BY <1>3, <1>6 DEF Held, M!Leaves
  <1> HIDE DEF h
  <1>8. InHand'
    <2>1. dir \subseteq Ran \cap Fractional
      BY <1>4 DEF InHand
    <2>2. CASE h.infos = {} /\ work'.phase = "idle"
      BY <1>2, <1>3, <2>1, <2>2 DEF InHand, Held
    <2>3. CASE h.kind = "remove" /\ work'.phase = "unlink" /\ work'.todo = h.infos
      BY <1>2, <1>3, <1>5, <2>1, <2>3 DEF InHand, Held, Truthful
    <2>4. CASE /\ h.kind # "remove" /\ h.infos # {} /\ work'.phase = "write"
               /\ work'.todo = h.infos /\ work'.desired = h.infos
               /\ work'.prune = (h.kind = "replace")
      BY <1>2, <1>3, <1>5, <2>1, <2>4, Zenon DEF InHand, Held, Truthful
    <2> QED
      BY <1>6, <2>2, <2>3, <2>4
  <1>9. \A i \in 1..Len(queue') : \/ i + 1 \in 1..Len(queue) /\ queue'[i] = queue[i + 1]
                                  \/ queue'[i].kind = "barrier" /\ queue'[i].infos = {}
    BY ReceiveShifts
  <1>10. InQueue'
    <2> SUFFICES ASSUME NEW i \in 1..Len(queue')
                 PROVE  /\ Truthful(queue'[i])
                        /\ queue'[i].kind = "replace" /\ queue'[i].infos # {} =>
                             /\ Live \cap Held' \subseteq queue'[i].infos
                             /\ \A j \in 1..(i - 1) :
                                  Live \cap M!Leaves(queue'[j]) \subseteq queue'[i].infos
      BY <1>2 DEF InQueue, Truthful
    <2>1. CASE queue'[i].kind = "barrier" /\ queue'[i].infos = {}
      BY <2>1 DEF Truthful
    <2>2. CASE i + 1 \in 1..Len(queue) /\ queue'[i] = queue[i + 1]
      <3>1. /\ Truthful(queue[i + 1])
            /\ queue[i + 1].kind = "replace" /\ queue[i + 1].infos # {} =>
                 /\ Live \cap dir \subseteq queue[i + 1].infos
                 /\ \A j \in 1..i : Live \cap M!Leaves(queue[j]) \subseteq queue[i + 1].infos
        <4>1. (i + 1) - 1 = i
          BY <1>1, <2>2
        <4> QED
          BY <1>4, <2>2, <4>1 DEF InQueue
      <3>2. 1 \in 1..i /\ \A j \in 1..(i - 1) : j \in 1..Len(queue') /\ j + 1 \in 1..i
        BY <1>1, <2>2
      <3>3. \A j \in 1..(i - 1) : M!Leaves(queue'[j]) = M!Leaves(queue[j + 1])
                                    \/ M!Leaves(queue'[j]) = {}
        BY <1>9, <3>2 DEF M!Leaves
      <3> QED
        BY <1>1, <1>7, <2>2, <3>1, <3>2, <3>3, Zenon
    <2> QED
      BY <1>9, <2>1, <2>2
  <1> QED
    BY <1>8, <1>10

(* The worker's file operations keep to what the event in hand says.       *)
LEMMA WorkerTruthful ==
  ASSUME M!TypeOK, InHand, InQueue, M!Worker, UNCHANGED <<spec, state>>
  PROVE  InHand' /\ InQueue'
  <1>0. /\ Live' = Live /\ Ran' = Ran /\ Gone' = Gone /\ Fractional' = Fractional
    BY DEF Live, Ran, Gone, Fractional
  <1>1. Ages
    BY <1>0 DEF Ages
  <1>2. CASE M!Receive
    BY <1>2, QueueShrinks
  <1>3. ASSUME NEW c \in Container, M!WriteRecord(c) PROVE InHand' /\ InQueue'
    <2>1. /\ work.phase = "write" /\ c \in work.todo /\ queue' = queue
          /\ dir' = dir \cup {c} \/ dir' = dir
      BY <1>3 DEF M!WriteRecord
    <2>2. \/ /\ work'.phase = "write" /\ work'.todo = work.todo \ {c}
             /\ work'.desired = work.desired /\ work'.prune = work.prune
          \/ /\ work'.phase = "list" /\ work.prune /\ work'.desired = work.desired
          \/ /\ work'.phase = "idle"
      BY <1>3, Zenon DEF M!WriteRecord, M!AfterWrite, M!Doing, M!Idle
    <2>3. Held' \subseteq Held
      BY <2>1, <2>2 DEF Held
    <2>4. InHand'
      BY <1>0, <2>1, <2>2, <2>3 DEF InHand
    <2> QED
      BY <1>1, <2>1, <2>3, <2>4, QueueKept
  <1>4. ASSUME NEW c \in Container, M!Unlink(c) PROVE InHand' /\ InQueue'
    <2>1. /\ work.phase = "unlink" /\ queue' = queue /\ dir' \subseteq dir
          /\ \/ work'.phase = "unlink" /\ work'.todo = work.todo \ {c}
             \/ work'.phase = "idle"
      BY <1>4 DEF M!Unlink, M!AfterUnlink, M!Doing, M!Idle
    <2>2. Held' \subseteq Held
      BY <2>1 DEF Held
    <2>3. InHand'
      BY <1>0, <2>1, <2>2 DEF InHand
    <2> QED
      BY <1>1, <2>1, <2>2, <2>3, QueueKept
  <1>5. CASE M!ReadDir
    <2>1. /\ work.phase = "list" /\ queue' = queue /\ dir' = dir
          /\ \/ work'.phase = "unlink" /\ work'.todo = dir \ work.desired
             \/ work'.phase = "idle"
      BY <1>5 DEF M!ReadDir, M!AfterUnlink, M!Doing, M!Idle
    <2>2. Held' \subseteq Held /\ Held = dir
      BY <2>1 DEF Held
    <2>3. dir \ work.desired \subseteq Gone
      <3>1. dir \subseteq Ran /\ Live \cap dir \subseteq work.desired
        BY <2>1, <2>2 DEF InHand
      <3> QED
        BY <3>1 DEF Ran, Live, Gone
    <2>4. InHand'
      BY <1>0, <2>1, <2>2, <2>3 DEF InHand
    <2> QED
      BY <1>1, <2>1, <2>2, <2>4, QueueKept
  <1>6. CASE M!Abandon
    <2>1. work'.phase = "idle" /\ queue' = queue /\ dir' = dir
      BY <1>6 DEF M!Abandon, M!Idle, M!Doing
    <2>2. Held' \subseteq Held
      BY <2>1 DEF Held
    <2>3. InHand'
      BY <1>0, <2>1, <2>2 DEF InHand
    <2> QED
      BY <1>1, <2>1, <2>2, <2>3, QueueKept
  <1> QED
    BY <1>2, <1>3, <1>4, <1>5, <1>6 DEF M!Worker

PipeInv == InHand /\ InQueue

(* An empty directory and queue say nothing of any container.              *)
LEMMA PipeInit == Init => PipeInv
  <1> SUFFICES ASSUME Init PROVE InHand /\ InQueue
    BY DEF PipeInv
  <1>1. dir = {} /\ queue = <<>> /\ work.phase = "idle"
    BY DEF Init, M!Init, M!Idle, M!Doing
  <1>2. Held = {}
    BY <1>1 DEF Held
  <1>3. InHand
    BY <1>1, <1>2 DEF InHand
  <1>4. 1..Len(queue) = {}
    BY <1>1
  <1> QED
    BY <1>3, <1>4 DEF InQueue

(* A call says what is true of the runtime when it is made.                *)
Fits(e) ==
  /\ IF e.kind = "remove" THEN e.infos \subseteq Gone ELSE e.infos \subseteq Live \cap Fractional
  /\ e.kind = "replace" /\ e.infos # {} => Live \cap Fractional \subseteq e.infos

(* What a step of the node does to its pipeline: nothing, a call that fits *)
(* (CreateContainer, RemoveContainer and Synchronize hand over what the    *)
(* runtime just did or has; a barrier says nothing), a crash, or a step of *)
(* the worker, during which the runtime stands still.                      *)
LEMMA NodeMoves ==
  Shape /\ [Next]_vars =>
    \/ UNCHANGED <<dir, work, queue>>
    \/ UNCHANGED <<dir, work>> /\ \E e \in M!Item : queue' = Append(queue, e) /\ Fits(e)'
    \/ dir' = dir /\ queue' = <<>> /\ work'.phase = "idle"
    \/ M!Worker /\ UNCHANGED <<spec, state>>
  <1> DEFINE Still == UNCHANGED <<dir, work, queue>>
             Called == UNCHANGED <<dir, work>> /\ \E e \in M!Item : queue' = Append(queue, e) /\ Fits(e)'
             Died == dir' = dir /\ queue' = <<>> /\ work'.phase = "idle"
             Works == M!Worker /\ UNCHANGED <<spec, state>>
  <1> SUFFICES ASSUME Shape, [Next]_vars PROVE Still \/ Called \/ Died \/ Works
    OBVIOUS
  <1>4. /\ \A k \in {"upsert", "remove", "replace"}, infos \in SUBSET Container :
             /\ M!Event(k, infos) \in M!Item
             /\ M!Event(k, infos).kind = k /\ M!Event(k, infos).infos = infos
        /\ \A f \in Flusher : /\ M!Barrier(f) \in M!Item
                              /\ M!Barrier(f).kind = "barrier" /\ M!Barrier(f).infos = {}
    BY DEF M!Event, M!Barrier, M!Item
  <1>5. ASSUME NEW k \in {"upsert", "remove", "replace"}, NEW infos \in SUBSET Container,
               M!Enqueue(M!Event(k, infos)),
               IF k = "remove" THEN infos \subseteq Gone' ELSE infos \subseteq Live' \cap Fractional',
               k = "replace" /\ infos # {} => Live' \cap Fractional' \subseteq infos
        PROVE  Still \/ Called
    <2>1. PICK e \in M!Item : e = M!Event(k, infos)
      BY <1>4
    <2>2. e.kind = k /\ e.infos = infos
      BY <1>4, <2>1
    <2>3. Fits(e)'
      BY <1>5, <2>2 DEF Fits
    <2>4. UNCHANGED <<dir, work>> /\ (queue' = queue \/ queue' = Append(queue, e))
      BY <1>5, <2>1 DEF M!Enqueue
    <2> QED
      BY <2>3, <2>4
  <1>6. ASSUME NEW f \in Flusher, M!Flush(f) PROVE Still \/ Called
    <2>1. PICK e \in M!Item : e = M!Barrier(f)
      BY <1>4
    <2>2. e.kind = "barrier" /\ e.infos = {}
      BY <1>4, <2>1
    <2>3. Fits(e)'
      BY <2>2 DEF Fits
    <2>4. UNCHANGED <<dir, work>> /\ (queue' = queue \/ queue' = Append(queue, e))
      BY <1>6, <2>1 DEF M!Flush
    <2> QED
      BY <2>3, <2>4
  <1>16. CASE UNCHANGED mvars
    BY <1>16 DEF mvars
  <1>7. ASSUME NEW c \in Container, CreateContainer(c) PROVE Still \/ Called
    <2>2. CASE /\ state' = [state EXCEPT ![c] = "running"] /\ spec' = spec
               /\ M!Upsert(c, IsFractionalGPUContainer(spec[c]))
      <3>1. state'[c] = "running"
        BY <2>2 DEF Shape
      <3>2. PICK infos \in SUBSET Container :
              infos = IF IsFractionalGPUContainer(spec[c]) THEN {c} ELSE {}
        BY Zenon
      <3>3. M!Enqueue(M!Event("upsert", infos))
        BY <2>2, <3>2 DEF M!Upsert
      <3>4. infos \subseteq Live' \cap Fractional'
        BY <2>2, <3>1, <3>2 DEF Live, Fractional
      <3> QED
        BY <1>5, <3>3, <3>4
    <2> QED
      BY <1>7, <1>16, <2>2 DEF CreateContainer, Started, mvars
  <1>8. ASSUME NEW c \in Container, RemoveContainer(c) PROVE Still \/ Called
    <2>2. CASE state' = [state EXCEPT ![c] = "removed"] /\ M!Delete(c)
      <3>1. {c} \subseteq Gone'
        BY <2>2 DEF Shape, Gone
      <3>2. M!Enqueue(M!Event("remove", {c}))
        BY <2>2 DEF M!Delete
      <3> QED
        BY <1>5, <3>1, <3>2
    <2> QED
      BY <1>8, <1>16, <2>2 DEF RemoveContainer, mvars
  <1>9. CASE Synchronize
    <2>1. PICK snap \in Snapshots : M!Synchronize(snap \cap Fractional)
      BY <1>9, Zenon DEF Synchronize
    <2>2. UNCHANGED <<spec, state>>
      BY <1>9 DEF Synchronize, cvars
    <2>3. PICK infos \in SUBSET Container : infos = snap \cap Fractional
      BY Zenon DEF Fractional
    <2>4. infos = {} \/ infos = Live \cap Fractional
      BY <2>3 DEF Snapshots
    <2>5. Live' = Live /\ Fractional' = Fractional
      BY <2>2 DEF Live, Fractional
    <2>6. M!Enqueue(M!Event("replace", infos))
      BY <2>1, <2>3 DEF M!Synchronize
    <2> QED
      BY <1>5, <2>4, <2>5, <2>6
  <1>10. CASE Shutdown \/ Terminate \/ RunReturns
    BY <1>6, <1>10, <1>16, Zenon DEF Shutdown, Terminate, RunReturns, Flusher
  <1>11. CASE Die
    BY <1>11 DEF Die, M!Crash, M!Idle, M!Doing
  <1>12. CASE MappingWorker
    BY <1>12 DEF MappingWorker, cvars
  <1>13. ASSUME NEW c \in Container, CreateUnhooked(c) \/ Exit(c) PROVE UNCHANGED mvars
    BY <1>13 DEF CreateUnhooked, Exit
  <1>14. ASSUME NEW s \in Session,
                SynchronizeReady(s) \/ SynchronizeAudit(s) \/ \E c \in Container : Stop(s, c)
         PROVE  UNCHANGED mvars
    BY <1>14 DEF SynchronizeReady, SynchronizeAudit, Stop
  <1>15. Disconnect \/ RuntimeShutdown \/ ShutdownReturn \/ Reconnect \/ FlushReturns \/ Restart
           \/ UNCHANGED vars
         => UNCHANGED mvars
    BY DEF Disconnect, RuntimeShutdown, ShutdownReturn, Reconnect, FlushReturns, Restart, vars
  <1> HIDE DEF Still, Called, Died, Works
  <1> QED
    BY <1>7, <1>8, <1>9, <1>10, <1>11, <1>12, <1>13, <1>14, <1>15, <1>16
       DEF Next, ExitProcess, Kill

(* A call stays true until it is applied, or is dropped.                   *)
LEMMA PipeStep == M!TypeOK /\ Shape /\ PipeInv /\ [Next]_vars => PipeInv'
  <1> SUFFICES ASSUME M!TypeOK, Shape, InHand, InQueue, [Next]_vars PROVE InHand' /\ InQueue'
    BY DEF PipeInv
  <1>0. Ages
    BY ContainersAge
  <1>1. ASSUME UNCHANGED <<dir, work>> PROVE InHand' /\ Held' = Held
    BY <1>0, <1>1, HandKept DEF Held
  <1>2. CASE UNCHANGED <<dir, work, queue>>
    BY <1>0, <1>1, <1>2, QueueKept
  <1>3. ASSUME UNCHANGED <<dir, work>>, NEW e \in M!Item, queue' = Append(queue, e), Fits(e)'
        PROVE  InHand' /\ InQueue'
    <2>1. Live' \subseteq Ran' /\ Fractional' = Fractional
      BY <1>0 DEF Live, Ran, Ages
    <2>2. /\ IF e.kind = "remove" THEN e.infos \subseteq Gone'
             ELSE e.infos \subseteq Ran' \cap Fractional'
          /\ e.kind = "replace" /\ e.infos # {} => Live' \cap Fractional \subseteq e.infos
      BY <1>3, <2>1 DEF Fits
    <2> QED
      BY <1>0, <1>1, <1>3, <2>2, QueueGrows
  <1>4. CASE dir' = dir /\ queue' = <<>> /\ work'.phase = "idle"
    <2>1. Held' \subseteq Held
      BY <1>4 DEF Held
    <2>2. InHand'
      BY <1>0, <1>4, <2>1 DEF InHand, Ages
    <2> QED
      BY <1>4, <2>2 DEF InQueue
  <1>5. CASE M!Worker /\ UNCHANGED <<spec, state>>
    BY <1>5, WorkerTruthful
  <1> QED
    BY <1>2, <1>3, <1>4, <1>5, NodeMoves

-----------------------------------------------------------------------------
(* No record comes back.  An event seals the containers it takes out.      *)

Drops(e) ==
  IF e.kind = "remove" THEN e.infos
  ELSE IF e.kind = "replace" /\ e.infos # {} THEN Container \ e.infos ELSE {}

HandDrops ==
  {c \in Container : \/ work.phase = "unlink" /\ c \in work.todo
                     \/ work.phase = "list" /\ c \notin work.desired
                     \/ work.phase = "write" /\ work.prune /\ c \notin work.desired}

(* A container with a file, or with one on its way, that an event takes    *)
(* out is not given another by an event behind it.                         *)
Sealed ==
  \A k \in 1..Len(queue) : \A c \in M!Leaves(queue[k]) :
    /\ c \notin HandDrops \cap Held
    /\ \A i \in 1..(k - 1) : c \in Drops(queue[i]) =>
         /\ c \notin Held
         /\ \A j \in 1..(i - 1) : c \notin M!Leaves(queue[j])

(* The worker gives no container a file that the event in hand had not.    *)
LEMMA SealKept ==
  ASSUME Sealed, queue' = queue, Held' \subseteq Held, HandDrops' \cap Held' \subseteq HandDrops
  PROVE  Sealed'
  BY Zenon DEF Sealed

(* A call gives a file to containers the runtime has, and no earlier call  *)
(* takes one of those out.                                                 *)
LEMMA SealGrows ==
  ASSUME M!TypeOK, PipeInv, Ages, Sealed, NEW e \in M!Item, queue' = Append(queue, e), Fits(e)',
         UNCHANGED <<dir, work>>
  PROVE  Sealed'
  <1>1. /\ queue \in Seq(M!Item) /\ Len(queue) \in Nat /\ Len(queue') = Len(queue) + 1
        /\ queue'[Len(queue) + 1] = e
        /\ \A i \in 1..Len(queue) : queue'[i] = queue[i]
    BY DEF M!TypeOK
  <1>2. Held' = Held /\ HandDrops' = HandDrops
    BY DEF Held, HandDrops
  <1>3. M!Leaves(e) \subseteq Live' \cap Container
    BY DEF Fits, M!Leaves, Live
  <1>4. ASSUME NEW c \in M!Leaves(e), c \in Held PROVE c \in Live /\ c \notin Gone /\ c \notin HandDrops
    <2>1. c \in Live
      BY <1>3, <1>4 DEF PipeInv, InHand, Ages
    <2>2. c \notin Gone
      BY <2>1 DEF Live, Gone
    <2> QED
      BY <1>4, <2>1, <2>2 DEF PipeInv, InHand, HandDrops
  <1>5. ASSUME NEW c \in M!Leaves(e), NEW i \in 1..Len(queue), c \in Drops(queue[i])
        PROVE  c \notin Held /\ \A j \in 1..(i - 1) : c \notin M!Leaves(queue[j])
    <2>1. /\ Truthful(queue[i])
          /\ queue[i].kind = "replace" /\ queue[i].infos # {} =>
               /\ Live \cap Held \subseteq queue[i].infos
               /\ \A j \in 1..(i - 1) : Live \cap M!Leaves(queue[j]) \subseteq queue[i].infos
      BY DEF PipeInv, InQueue
    <2>2. \A j \in 1..(i - 1) : j \in 1..Len(queue)
      BY <1>1
    <2>3. \A j \in 1..(i - 1) : c \in M!Leaves(queue[j]) => c \in Ran
      BY <2>2 DEF PipeInv, InQueue, Truthful, M!Leaves
    <2>4. c \in Held => c \in Ran
      BY DEF PipeInv, InHand
    <2>5. c \in Ran => c \in Live /\ c \notin Gone
      BY <1>3 DEF Ages, Live, Gone
    <2> QED
      BY <1>5, <2>1, <2>3, <2>4, <2>5 DEF Drops, Truthful
  <1> SUFFICES ASSUME NEW k \in 1..Len(queue'), NEW c \in M!Leaves(queue'[k])
               PROVE  /\ c \notin HandDrops \cap Held
                      /\ \A i \in 1..(k - 1) : c \in Drops(queue'[i]) =>
                           /\ c \notin Held
                           /\ \A j \in 1..(i - 1) : c \notin M!Leaves(queue'[j])
    BY <1>2, Zenon DEF Sealed
  <1>6. \A i \in 1..(k - 1) : /\ i \in 1..Len(queue) /\ queue'[i] = queue[i]
                              /\ \A j \in 1..(i - 1) : queue'[j] = queue[j]
    BY <1>1
  <1>7. CASE k \in 1..Len(queue)
    BY <1>1, <1>6, <1>7, Zenon DEF Sealed
  <1>8. CASE k = Len(queue) + 1
    BY <1>1, <1>4, <1>5, <1>6, <1>8
  <1> QED
    BY <1>1, <1>7, <1>8

(* Taking an event off the queue puts in hand what it takes out.           *)
LEMMA SealShrinks ==
  ASSUME M!TypeOK, Sealed, M!Receive
  PROVE  Sealed'
  <1> DEFINE h == Head(queue)
  <1>1. /\ queue \in Seq(M!Item) /\ queue # <<>> /\ Len(queue) \in Nat /\ Len(queue) >= 1
        /\ h = queue[1] /\ h \in M!Item
    BY DEF M!TypeOK, M!Receive
  <1>2. work.phase = "idle" /\ work' = M!Start(h) /\ dir' = dir
    BY DEF M!Receive
  <1>3. Held = dir
    BY <1>2 DEF Held
  <1>4. \/ h.infos = {} /\ work'.phase = "idle"
        \/ h.kind = "remove" /\ work'.phase = "unlink" /\ work'.todo = h.infos
        \/ /\ h.kind # "remove" /\ h.infos # {} /\ work'.phase = "write"
           /\ work'.todo = h.infos /\ work'.desired = h.infos
           /\ work'.prune = (h.kind = "replace")
    BY <1>2, Zenon DEF M!Start, M!Idle, M!Doing
  <1> HIDE DEF h
  <1>5. Held' \subseteq dir \cup M!Leaves(h)
    BY <1>1, <1>2, <1>4 DEF Held, M!Leaves, M!Item
  <1>6. HandDrops' \subseteq Drops(h)
    BY <1>4, Zenon DEF HandDrops, Drops
  <1>7. Drops(h) \cap M!Leaves(h) = {}
    BY DEF Drops, M!Leaves
  <1>8. \A i \in 1..Len(queue') : \/ i + 1 \in 1..Len(queue) /\ queue'[i] = queue[i + 1]
                                  \/ queue'[i].kind = "barrier" /\ queue'[i].infos = {}
    BY <1>1, ReceiveShifts
  <1>9. \A i \in 1..Len(queue') :
          \/ /\ i + 1 \in 1..Len(queue) /\ queue'[i] = queue[i + 1]
          \/ Drops(queue'[i]) = {} /\ M!Leaves(queue'[i]) = {}
    BY <1>8 DEF Drops, M!Leaves
  <1> SUFFICES ASSUME NEW k \in 1..Len(queue'), NEW c \in M!Leaves(queue'[k])
               PROVE  /\ c \notin HandDrops' \cap Held'
                      /\ \A i \in 1..(k - 1) : c \in Drops(queue'[i]) =>
                           /\ c \notin Held'
                           /\ \A j \in 1..(i - 1) : c \notin M!Leaves(queue'[j])
    BY Zenon DEF Sealed
  <1>10. k + 1 \in 1..Len(queue) /\ c \in M!Leaves(queue[k + 1])
    BY <1>9, Zenon
  <1>11. \A i \in 1..k : c \in Drops(queue[i]) =>
           c \notin dir /\ \A j \in 1..(i - 1) : c \notin M!Leaves(queue[j])
    <2>1. (k + 1) - 1 = k
      OBVIOUS
    <2> QED
      BY <1>3, <1>10, <2>1, Zenon DEF Sealed
  <1>12. c \notin HandDrops' \cap Held'
    <2>1. c \in Drops(h) => c \notin dir
      BY <1>1, <1>11
    <2> QED
      BY <1>5, <1>6, <1>7, <2>1
  <1>13. ASSUME NEW i \in 1..(k - 1), c \in Drops(queue'[i])
         PROVE  c \notin Held' /\ \A j \in 1..(i - 1) : c \notin M!Leaves(queue'[j])
    <2>1. i \in 1..Len(queue') /\ i + 1 \in 1..k /\ (i + 1) - 1 = i /\ 1 \in 1..i
      BY <1>1
    <2>2. c \in Drops(queue[i + 1])
      BY <1>9, <1>13, <2>1
    <2>3. c \notin dir /\ \A j \in 1..i : c \notin M!Leaves(queue[j])
      BY <1>11, <2>1, <2>2
    <2>4. c \notin Held'
      BY <1>1, <1>5, <2>1, <2>3
    <2>5. ASSUME NEW j \in 1..(i - 1) PROVE c \notin M!Leaves(queue'[j])
      <3>1. j \in 1..Len(queue') /\ j + 1 \in 1..i
        OBVIOUS
      <3> QED
        BY <1>9, <2>3, <3>1, Zenon
    <2> QED
      BY <2>4, <2>5
  <1> QED
    BY <1>12, <1>13

(* What a step of the worker does to files, but for taking an event: at    *)
(* most one is written or unlinked, by the event in hand.                  *)
LEMMA WorkerMoves ==
  ASSUME M!TypeOK, M!Worker, ~M!Receive
  PROVE  /\ queue' = queue /\ Held' \subseteq Held /\ HandDrops' \cap Held' \subseteq HandDrops
         /\ \/ dir' = dir
            \/ \E d \in Held : dir' = dir \cup {d}
            \/ work.phase = "unlink" /\ \E d \in work.todo : dir' = dir \ {d} /\ Held' = dir'
  <1>0. dir \subseteq Container
    BY DEF M!TypeOK
  <1>1. ASSUME NEW c \in Container, M!WriteRecord(c)
        PROVE  /\ queue' = queue /\ Held' \subseteq Held /\ HandDrops' \subseteq HandDrops
               /\ dir' = dir \/ (c \in Held /\ dir' = dir \cup {c})
    <2>1. /\ work.phase = "write" /\ c \in work.todo /\ queue' = queue
          /\ dir' = dir \cup {c} \/ dir' = dir
      BY <1>1 DEF M!WriteRecord
    <2>2. \/ /\ work'.phase = "write" /\ work'.todo = work.todo \ {c}
             /\ work'.desired = work.desired /\ work'.prune = work.prune
          \/ work'.phase = "list" /\ work.prune /\ work'.desired = work.desired
          \/ work'.phase = "idle"
      BY <1>1, Zenon DEF M!WriteRecord, M!AfterWrite, M!Doing, M!Idle
    <2>3. Held' \subseteq Held
      BY <2>1, <2>2 DEF Held
    <2>4. HandDrops' \subseteq HandDrops
      BY <2>1, <2>2 DEF HandDrops
    <2> QED
      BY <2>1, <2>3, <2>4 DEF Held
  <1>2. ASSUME NEW c \in Container, M!Unlink(c)
        PROVE  /\ queue' = queue /\ Held' \subseteq Held /\ HandDrops' \subseteq HandDrops
               /\ Held' = dir' /\ work.phase = "unlink" /\ c \in work.todo
               /\ dir' = dir \/ dir' = dir \ {c}
    <2>1. /\ work.phase = "unlink" /\ queue' = queue /\ c \in work.todo
          /\ dir' = dir \/ dir' = dir \ {c}
          /\ \/ work'.phase = "unlink" /\ work'.todo = work.todo \ {c}
             \/ work'.phase = "idle"
      BY <1>2 DEF M!Unlink, M!AfterUnlink, M!Doing, M!Idle
    <2>2. Held' = dir' /\ Held' \subseteq Held
      BY <2>1 DEF Held
    <2>3. HandDrops' \subseteq HandDrops
      BY <2>1 DEF HandDrops
    <2> QED
      BY <2>1, <2>2, <2>3
  <1>3. ASSUME M!ReadDir
        PROVE  queue' = queue /\ Held' \subseteq Held /\ HandDrops' \subseteq HandDrops /\ dir' = dir
    <2>1. /\ work.phase = "list" /\ queue' = queue /\ dir' = dir
          /\ \/ work'.phase = "unlink" /\ work'.todo = dir \ work.desired
             \/ work'.phase = "idle"
      BY <1>3 DEF M!ReadDir, M!AfterUnlink, M!Doing, M!Idle
    <2>2. Held' \subseteq Held
      BY <2>1 DEF Held
    <2>3. HandDrops' \subseteq HandDrops
      BY <1>0, <2>1 DEF HandDrops
    <2> QED
      BY <2>1, <2>2, <2>3
  <1>4. ASSUME M!Abandon
        PROVE  queue' = queue /\ Held' \subseteq Held /\ HandDrops' \subseteq HandDrops /\ dir' = dir
    <2>1. work'.phase = "idle" /\ queue' = queue /\ dir' = dir
      BY <1>4 DEF M!Abandon, M!Idle, M!Doing
    <2> QED
      BY <2>1 DEF Held, HandDrops
  <1> QED
    BY <1>1, <1>2, <1>3, <1>4 DEF M!Worker

(* A sealed pipeline stays sealed; a crash leaves nothing to seal.         *)
LEMMA SealStep == M!TypeOK /\ Shape /\ PipeInv /\ Sealed /\ [Next]_vars => Sealed'
  <1> SUFFICES ASSUME M!TypeOK, Shape, PipeInv, Sealed, [Next]_vars PROVE Sealed'
    OBVIOUS
  <1>0. Ages
    BY ContainersAge
  <1>1. CASE UNCHANGED <<dir, work, queue>>
    <2>1. Held' = Held /\ HandDrops' = HandDrops
      BY <1>1 DEF Held, HandDrops
    <2> QED
      BY <1>1, <2>1, SealKept
  <1>2. ASSUME UNCHANGED <<dir, work>>, NEW e \in M!Item, queue' = Append(queue, e), Fits(e)'
        PROVE  Sealed'
    BY <1>0, <1>2, SealGrows
  <1>3. CASE queue' = <<>>
    BY <1>3 DEF Sealed
  <1>4. CASE M!Worker
    BY <1>4, SealKept, SealShrinks, WorkerMoves
  <1> QED
    BY <1>1, <1>2, <1>3, <1>4, NodeMoves

(* A container that is gone gets no file on its way: taking an event       *)
(* brings what was queued, and a call brings containers the runtime has.   *)
LEMMA RetiredStays == M!TypeOK /\ Shape /\ [Next]_vars => Retired \subseteq Retired'
  <1> SUFFICES ASSUME M!TypeOK, Shape, [Next]_vars, NEW c \in Retired PROVE c \in Retired'
    OBVIOUS
  <1>0. c \in Gone' /\ c \notin Live'
    <2>1. c \in Gone'
      BY ContainersAge DEF Retired, Ages
    <2> QED
      BY <2>1 DEF Gone, Live
  <1>1. c \notin Held /\ \A i \in 1..Len(queue) : c \notin M!Leaves(queue[i])
    BY DEF Retired
  <1>2. SUFFICES c \notin Held' /\ \A i \in 1..Len(queue') : c \notin M!Leaves(queue'[i])
    BY <1>0 DEF Retired
  <1>3. CASE UNCHANGED <<dir, work, queue>>
    BY <1>1, <1>3 DEF Held
  <1>4. ASSUME UNCHANGED <<dir, work>>, NEW e \in M!Item, queue' = Append(queue, e), Fits(e)'
        PROVE  c \notin Held' /\ \A i \in 1..Len(queue') : c \notin M!Leaves(queue'[i])
    <2>1. c \notin M!Leaves(e)
      BY <1>0, <1>4 DEF Fits, M!Leaves
    <2>2. \A i \in 1..Len(queue') : queue'[i] = e \/ (i \in 1..Len(queue) /\ queue'[i] = queue[i])
      BY <1>4 DEF M!TypeOK
    <2>3. c \notin Held'
      BY <1>1, <1>4 DEF Held
    <2> QED
      BY <1>1, <2>1, <2>2, <2>3
  <1>5. CASE dir' = dir /\ queue' = <<>> /\ work'.phase = "idle"
    BY <1>1, <1>5 DEF Held
  <1>6. CASE M!Worker
    <2>1. CASE M!Receive
      <3>1. Held' \subseteq Held \cup M!Leaves(queue[1]) /\ 1 \in 1..Len(queue)
        BY <2>1, ReceiveHolds
      <3>2. \A i \in 1..Len(queue') : \/ i + 1 \in 1..Len(queue) /\ queue'[i] = queue[i + 1]
                                      \/ queue'[i].kind = "barrier" /\ queue'[i].infos = {}
        BY <2>1, ReceiveShifts
      <3>3. \A i \in 1..Len(queue') : c \notin M!Leaves(queue'[i])
        BY <1>1, <3>2 DEF M!Leaves
      <3> QED
        BY <1>1, <3>1, <3>3
    <2>2. CASE ~M!Receive
      <3>1. queue' = queue /\ Held' \subseteq Held
        BY <1>6, <2>2, WorkerMoves
      <3> QED
        BY <1>1, <3>1
    <2> QED
      BY <2>1, <2>2
  <1> QED
    BY <1>3, <1>4, <1>5, <1>6, NodeMoves

(* What the runtime does, it does with the directory as it is.             *)
LEMMA RuntimeMoves ==
  Shape /\ [Next]_vars =>
    \/ Live' = Live /\ Gone' = Gone
    \/ \E c \in Container : D!Start(c) \/ D!Stop(c)
  <1> DEFINE Goal == \/ Live' = Live /\ Gone' = Gone
                     \/ \E c \in Container : D!Start(c) \/ D!Stop(c)
  <1> SUFFICES ASSUME Shape, [Next]_vars PROVE Goal
    OBVIOUS
  <1> DEFINE States == {"absent", "running", "exited", "removed", "refused"}
  <1>0. state \in [Container -> States]
    BY DEF Shape
  <1>1. CASE state' = state
    BY <1>1 DEF Live, Gone
  <1>2. ASSUME NEW c \in Container, state[c] = "absent", state' = [state EXCEPT ![c] = "running"],
               dir' = dir
        PROVE  Goal
    <2>1. Live' = Live \cup {c} /\ Gone' = Gone /\ c \notin Live \cup Gone
      BY <1>0, <1>2 DEF Live, Gone
    <2> QED
      BY <1>2, <2>1 DEF D!Start
  <1>3. ASSUME NEW c \in Container, NEW v \in {"refused", "exited"}, state' = [state EXCEPT ![c] = v],
               \/ state[c] = "absent" /\ v = "refused"
               \/ state[c] = "running" /\ v = "exited"
        PROVE  Goal
    <2>1. Live' = Live /\ Gone' = Gone
      BY <1>0, <1>3 DEF Live, Gone
    <2> QED
      BY <2>1
  <1>4. ASSUME NEW c \in Container, CreateContainer(c) \/ CreateUnhooked(c) PROVE Goal
    <2>1. /\ state[c] = "absent" /\ dir' = dir
          /\ \/ state' = [state EXCEPT ![c] = "running"]
             \/ state' = [state EXCEPT ![c] = "refused"]
      BY <1>4, Zenon DEF CreateContainer, CreateUnhooked, Started, M!Upsert, M!Enqueue, mvars
    <2> QED
      BY <1>2, <1>3, <2>1
  <1>5. ASSUME NEW c \in Container, RemoveContainer(c) PROVE Goal
    <2>1. state[c] = "exited" /\ dir' = dir /\ state' = [state EXCEPT ![c] = "removed"]
      BY <1>5, Zenon DEF RemoveContainer, M!Delete, M!Enqueue, mvars
    <2>2. Live' = Live \ {c} /\ Gone' = Gone \cup {c} /\ c \in Live
      BY <1>0, <2>1 DEF Live, Gone
    <2> QED
      BY <2>1, <2>2 DEF D!Stop
  <1>6. ASSUME NEW c \in Container, Exit(c) PROVE Goal
    BY <1>3, <1>6, Zenon DEF Exit
  <1>7. ASSUME NEW s \in Session, NEW c \in Container, Stop(s, c) PROVE Goal
    <2>1. state' = state \/ (state[c] = "running" /\ state' = [state EXCEPT ![c] = "exited"])
      BY <1>0, <1>7 DEF Stop
    <2> QED
      BY <1>1, <1>3, <2>1
  <1>8. ASSUME NEW s \in Session, SynchronizeReady(s) \/ SynchronizeAudit(s) PROVE state' = state
    BY <1>8 DEF SynchronizeReady, SynchronizeAudit, cvars
  <1>9. Disconnect \/ RuntimeShutdown \/ Shutdown \/ ShutdownReturn \/ Synchronize
          \/ MappingWorker \/ UNCHANGED vars
        => state' = state
    BY DEF Disconnect, RuntimeShutdown, Shutdown, ShutdownReturn, Synchronize, MappingWorker,
           cvars, vars
  <1>10. RunReturns \/ Reconnect \/ Terminate \/ FlushReturns \/ Die \/ Restart => state' = state
    BY Zenon DEF RunReturns, Reconnect, Terminate, FlushReturns, Die, Restart, cvars
  <1> HIDE DEF Goal
  <1> QED
    BY <1>1, <1>4, <1>5, <1>6, <1>7, <1>8, <1>9, <1>10 DEF Next, ExitProcess, Kill

(* Every step of the node is a step of the directory or changes nothing a  *)
(* reader may rely on.                                                     *)
LEMMA DirectoryStep ==
  M!TypeOK /\ Shape /\ PipeInv /\ Sealed /\ [Next]_vars => [D!Next]_<<Live, Gone, dir, Retired>>
  <1> SUFFICES ASSUME M!TypeOK, Shape, PipeInv, Sealed, [Next]_vars PROVE D!Next
    OBVIOUS
  <1>1. Retired \subseteq Retired' /\ Retired' \subseteq Gone' \ dir'
    BY RetiredStays DEF Retired, Held
  <1>2. SUFFICES /\ (\E c \in Container : D!Step(c)) \/ UNCHANGED <<Live, Gone, dir>>
                 /\ dir \ dir' \subseteq Retired'
    BY <1>1 DEF D!Next, D!Retire
  <1>3. CASE \E c \in Container : D!Start(c) \/ D!Stop(c)
    BY <1>3 DEF D!Step, D!Start, D!Stop
  <1>4. CASE dir' # dir
    <2>1. M!Worker /\ UNCHANGED <<spec, state>> /\ ~M!Receive
      BY <1>4, NodeMoves DEF M!Receive
    <2>2. Live' = Live /\ Gone' = Gone
      BY <2>1 DEF Live, Gone
    <2>3. Held \subseteq Container /\ Held \subseteq Live \cup Gone
      BY DEF PipeInv, InHand, Ran, Live, Gone
    <2>4. ASSUME NEW d \in Held, dir' = dir \cup {d} PROVE D!Write(d)
      <3>1. d \notin Retired
        BY DEF Retired
      <3> QED
        BY <1>4, <2>2, <2>3, <2>4, <3>1 DEF D!Write
    <2>5. ASSUME work.phase = "unlink", NEW d \in work.todo, dir' = dir \ {d}, Held' = dir'
          PROVE  d \in Container /\ D!Unlink(d) /\ dir \ dir' \subseteq Retired'
      <3>1. d \in Gone /\ d \in dir /\ d \in Container /\ d \in Held
        BY <1>4, <2>5 DEF PipeInv, InHand, Gone, Held
      <3>2. d \in HandDrops
        BY <2>5, <3>1 DEF HandDrops
      <3>3. \A k \in 1..Len(queue) : d \notin M!Leaves(queue[k])
        BY <3>1, <3>2, Zenon DEF Sealed
      <3>4. queue' = queue
        BY <2>1, WorkerMoves
      <3>5. d \in Retired'
        BY <2>2, <2>5, <3>1, <3>3, <3>4 DEF Retired
      <3> QED
        BY <2>2, <2>5, <3>1, <3>5 DEF D!Unlink
    <2> QED
      BY <1>4, <2>1, <2>3, <2>4, <2>5, WorkerMoves DEF D!Step
  <1> QED
    BY <1>3, <1>4, RuntimeMoves

(* So a file that goes is that of a container that is gone.                *)
LEMMA OnlyGoneUnlinked ==
  PipeInv /\ [Next]_vars => [\A c \in dir : c \notin dir' => c \notin Live]_vars
  <1> SUFFICES ASSUME PipeInv, [M!Next]_M!mvars, NEW c \in dir, c \notin dir'
               PROVE  c \notin Live
    BY NodeStep
  <1>1. dir' # dir
    OBVIOUS
  <1>2. M!Worker
    <2>1. M!Calls \/ M!Crash \/ UNCHANGED M!mvars => dir' = dir
      BY Zenon DEF M!Calls, M!Crash, M!mvars, M!Upsert, M!Delete, M!Synchronize, M!Flush, M!Enqueue
    <2> QED
      BY <1>1, <2>1 DEF M!Next
  <1>3. PICK d \in Container : M!WriteRecord(d) \/ M!Unlink(d)
    BY <1>1, <1>2, Zenon DEF M!Worker, M!Receive, M!ReadDir, M!Abandon
  <1>4. c = d /\ work.phase = "unlink" /\ c \in work.todo
    BY <1>3 DEF M!WriteRecord, M!Unlink
  <1> QED
    BY <1>4 DEF PipeInv, InHand, Gone, Live

(* While a session that named a fractional container lasts, the calls ask  *)
(* for the fractional containers the runtime has.                          *)
TrackInv == tracked => nri # "down" /\ want = Live \cap Fractional

(* The create and remove hooks of the session carry the snapshot on;       *)
(* without a session the containers change unseen, and the claim lapses.   *)
LEMMA TrackStep == AuditInv /\ RecordInv /\ TrackInv /\ [Next]_vars => TrackInv'
  <1> SUFFICES ASSUME AuditInv, RecordInv, TrackInv, [Next]_vars, tracked'
               PROVE  nri' # "down" /\ want' = Live' \cap Fractional'
    BY DEF TrackInv
  <1> DEFINE States == {"absent", "running", "exited", "removed", "refused"}
  <1>0. state \in [Container -> States]
    BY DEF AuditInv, Shape
  <1>1. ASSUME UNCHANGED <<spec, state, want, nri, tracked>>
        PROVE  nri' # "down" /\ want' = Live' \cap Fractional'
    BY <1>1 DEF TrackInv, Live, Fractional
  <1>2. ASSUME NEW c \in Container, CreateContainer(c)
        PROVE  nri' # "down" /\ want' = Live' \cap Fractional'
    <2>1. /\ state[c] = "absent" /\ spec' = spec /\ nri' = nri /\ tracked' = tracked
      BY <1>2, Zenon DEF CreateContainer, svars
    <2>2. nri # "down" /\ want = Live \cap Fractional /\ Fractional' = Fractional
      BY <2>1 DEF TrackInv, Fractional
    <2>3. IsFractionalGPUContainer(spec[c]) \in BOOLEAN
      BY DEF IsFractionalGPUContainer, GPUMemoryParses, IsEmpty
    <2>4. c \in Fractional <=> IsFractionalGPUContainer(spec[c])
      BY DEF Fractional
    <2>5. CASE state' = [state EXCEPT ![c] = "refused"] /\ want' = want
      <3>1. Live' = Live
        BY <1>0, <2>1, <2>5 DEF Live
      <3> QED
        BY <2>1, <2>2, <2>5, <3>1
    <2>6. CASE /\ state' = [state EXCEPT ![c] = "running"]
               /\ M!Upsert(c, IsFractionalGPUContainer(spec[c]))
      <3>1. Live' = Live \cup {c}
        BY <1>0, <2>1, <2>6 DEF Live
      <3>2. want' = IF IsFractionalGPUContainer(spec[c]) THEN want \cup {c} ELSE want
        BY <2>3, <2>6, WantSteps, Zenon
      <3> QED
        BY <2>1, <2>2, <2>4, <3>1, <3>2
    <2> QED
      BY <1>2, <2>5, <2>6 DEF CreateContainer, Started, mvars
  <1>3. ASSUME NEW c \in Container, RemoveContainer(c)
        PROVE  nri' # "down" /\ want' = Live' \cap Fractional'
    <2>1. /\ state' = [state EXCEPT ![c] = "removed"] /\ spec' = spec /\ nri' = nri
          /\ tracked' = tracked
      BY <1>3, Zenon DEF RemoveContainer, svars
    <2>2. nri # "down" /\ want = Live \cap Fractional /\ Fractional' = Fractional
      BY <2>1 DEF TrackInv, Fractional
    <2>3. Live' = Live \ {c}
      BY <1>0, <2>1 DEF Live
    <2>4. want' = want \ {c}
      BY <1>3, <2>2, WantSteps DEF RemoveContainer
    <2> QED
      BY <2>1, <2>2, <2>3, <2>4
  <1>4. ASSUME NEW c \in Container, CreateUnhooked(c) PROVE FALSE
    BY <1>4 DEF CreateUnhooked, TrackInv, svars
  <1>5. CASE Synchronize
    <2>1. PICK snap \in Snapshots :
            M!Synchronize(snap \cap Fractional) /\ tracked' = (snap \cap Fractional # {})
      BY <1>5, Zenon DEF Synchronize
    <2>2. UNCHANGED <<spec, state>> /\ nri' = "registered"
      BY <1>5 DEF Synchronize, cvars
    <2>3. PICK infos \in SUBSET Container : infos = snap \cap Fractional
      BY Zenon DEF Fractional
    <2>4. infos # {}
      BY <2>1, <2>3, Zenon
    <2>5. infos = Live \cap Fractional
      BY <2>3, <2>4 DEF Snapshots
    <2>6. want' = infos
      <3>1. M!Synchronize(infos) /\ want \subseteq Container
        BY <2>1, <2>3 DEF RecordInv
      <3>2. want' = IF infos = {} THEN want ELSE infos
        BY <3>1, WantSteps
      <3> QED
        BY <2>4, <3>2
    <2>7. Live' = Live /\ Fractional' = Fractional
      BY <2>2 DEF Live, Fractional
    <2> QED
      BY <2>2, <2>5, <2>6, <2>7
  <1>6. ASSUME spec' = spec, want' = want, nri' = nri, tracked' = tracked,
               NEW c \in Container, state[c] = "running", state' = [state EXCEPT ![c] = "exited"]
        PROVE  nri' # "down" /\ want' = Live' \cap Fractional'
    <2>1. Live' = Live /\ Fractional' = Fractional
      BY <1>0, <1>6 DEF Live, Fractional
    <2> QED
      BY <1>6, <2>1 DEF TrackInv
  <1>7. ASSUME NEW c \in Container, Exit(c)
        PROVE  nri' # "down" /\ want' = Live' \cap Fractional'
    BY <1>6, <1>7, Zenon DEF Exit, mvars, svars
  <1>8. ASSUME NEW s \in Session, NEW c \in Container, Stop(s, c)
        PROVE  nri' # "down" /\ want' = Live' \cap Fractional'
    <2>1. /\ UNCHANGED <<spec, want, nri, tracked>>
          /\ state' = state \/ (state[c] = "running" /\ state' = [state EXCEPT ![c] = "exited"])
      BY <1>0, <1>8, Zenon DEF Stop, mvars
    <2> QED
      BY <1>1, <1>6, <2>1, Zenon
  <1>9. ASSUME NEW s \in Session, SynchronizeReady(s)
        PROVE  UNCHANGED <<spec, state, want, nri, tracked>>
    BY <1>9, Zenon DEF SynchronizeReady, mvars, cvars
  <1>10. ASSUME NEW s \in Session, SynchronizeAudit(s)
         PROVE  nri' # "down" /\ want' = Live' \cap Fractional'
    <2>1. UNCHANGED <<spec, state, want, tracked>> /\ (nri' = "active" \/ nri' = nri)
      BY <1>10, Zenon DEF SynchronizeAudit, mvars, cvars
    <2> QED
      BY <2>1 DEF TrackInv, Live, Fractional
  <1>11. Disconnect \/ RuntimeShutdown \/ Terminate \/ Die => ~tracked'
    BY DEF Disconnect, RuntimeShutdown, Terminate, Die
  <1>12. Shutdown \/ RunReturns \/ MappingWorker => UNCHANGED <<spec, state, want, nri, tracked>>
    BY WantSteps, Zenon DEF Shutdown, RunReturns, MappingWorker, Flusher, mvars, cvars, svars
  <1>13. ShutdownReturn \/ Reconnect \/ FlushReturns \/ Restart \/ UNCHANGED vars
         => UNCHANGED <<spec, state, want, nri, tracked>>
    BY Zenon DEF ShutdownReturn, Reconnect, FlushReturns, Restart, mvars, cvars, svars, vars
  <1> QED
    BY <1>1, <1>2, <1>3, <1>4, <1>5, <1>7, <1>8, <1>9, <1>10, <1>11, <1>12, <1>13, Zenon
       DEF Next, ExitProcess, Kill

(* The theorems of MappingProofs about the node's own pipeline.            *)
MP == INSTANCE MappingProofs

(* Two flushers, Shutdown and main, and no third named none.               *)
LEMMA PipelineAssumption == MP!MappingAssumption
  BY FractiondAssumption DEF Flusher, NoFlusher, MP!MappingAssumption

(* The pipeline's steps are the steps MappingProofs is about.              *)
LEMMA PipelineIsMapping == M!Spec => MP!Spec
  <1>1. M!Init => MP!Init
    BY Zenon DEF M!Init, MP!Init, M!Idle, MP!Idle, M!Doing, MP!Doing
  <1>2. ASSUME NEW e PROVE M!Enqueue(e) => MP!Enqueue(e)
    BY Zenon DEF M!Enqueue, MP!Enqueue, M!Concerns, MP!Concerns, M!Leaves, MP!Leaves
  <1>3. ASSUME NEW c, NEW ok PROVE M!Upsert(c, ok) => MP!Upsert(c, ok)
    BY <1>2 DEF M!Upsert, MP!Upsert, M!Event, MP!Event
  <1>4. ASSUME NEW c PROVE M!Delete(c) => MP!Delete(c)
    BY <1>2 DEF M!Delete, MP!Delete, M!Event, MP!Event
  <1>5. ASSUME NEW infos PROVE M!Synchronize(infos) => MP!Synchronize(infos)
    BY <1>2 DEF M!Synchronize, MP!Synchronize, M!Event, MP!Event
  <1>6. ASSUME NEW f PROVE M!Flush(f) => MP!Flush(f)
    BY DEF M!Flush, MP!Flush, M!Barrier, MP!Barrier
  <1>7. M!Calls => MP!Calls
    BY <1>3, <1>4, <1>5, <1>6 DEF M!Calls, MP!Calls
  <1>8. M!Receive => MP!Receive
    BY Zenon DEF M!Receive, MP!Receive, M!Start, MP!Start, M!Idle, MP!Idle, M!Doing, MP!Doing,
           M!Barrier, MP!Barrier, M!Dequeue, MP!Dequeue
  <1>9. ASSUME NEW C PROVE M!Fail(C) => MP!Fail(C)
    BY DEF M!Fail, MP!Fail, M!Queued, MP!Queued, M!QueuedIn, MP!QueuedIn, M!Concerns, MP!Concerns
  <1>10. ASSUME NEW c PROVE M!WriteRecord(c) => MP!WriteRecord(c)
    BY <1>9, Zenon DEF M!WriteRecord, MP!WriteRecord, M!AfterWrite, MP!AfterWrite, M!Idle, MP!Idle,
                M!Doing, MP!Doing
  <1>11. ASSUME NEW c PROVE M!Unlink(c) => MP!Unlink(c)
    BY <1>9 DEF M!Unlink, MP!Unlink, M!AfterUnlink, MP!AfterUnlink, M!Idle, MP!Idle,
                M!Doing, MP!Doing
  <1>12. M!ReadDir => MP!ReadDir
    BY Zenon DEF M!ReadDir, MP!ReadDir, M!AfterUnlink, MP!AfterUnlink, M!Idle, MP!Idle,
           M!Doing, MP!Doing
  <1>13. M!Abandon => MP!Abandon
    BY <1>9 DEF M!Abandon, MP!Abandon, M!Idle, MP!Idle, M!Doing, MP!Doing,
                M!Undecided, MP!Undecided
  <1>14. M!Crash => MP!Crash
    BY DEF M!Crash, MP!Crash, M!Idle, MP!Idle, M!Doing, MP!Doing, M!Undecided, MP!Undecided,
           M!Queued, MP!Queued, M!QueuedIn, MP!QueuedIn, M!Concerns, MP!Concerns
  <1>15. M!Worker => MP!Worker
    BY <1>8, <1>10, <1>11, <1>12, <1>13 DEF M!Worker, MP!Worker
  <1>16. [M!Next]_M!mvars => [MP!Next]_MP!mvars
    BY <1>7, <1>14, <1>15 DEF M!Next, MP!Next, M!mvars, MP!mvars
  <1> QED
    BY <1>1, <1>16, PTL DEF M!Spec, MP!Spec

(* So the node's pipeline converges as Mapping does.                       *)
LEMMA PipelineKeeps == Spec => []M!TypeOK /\ []M!Converged
  <1>1. MP!TypeOK => M!TypeOK
    BY DEF MP!TypeOK, M!TypeOK, MP!Item, M!Item, MP!Work, M!Work
  <1>2. MP!Converged => M!Converged
    BY DEF MP!Converged, M!Converged, MP!Quiescent, M!Quiescent
  <1>3. MP!Spec => []MP!TypeOK
    BY PipelineAssumption, MP!TypeCorrect, PTL DEF MP!TypeCorrect
  <1>4. MP!Spec => []MP!Converged
    BY PipelineAssumption, MP!QuiescentConverges, PTL DEF MP!QuiescentConverges
  <1> QED
    BY <1>1, <1>2, <1>3, <1>4, NodeImplementsMapping, PipelineIsMapping, PTL

(* With nothing pending, the directory of a node in session holds exactly  *)
(* the fractional containers the runtime has, but for the lost.            *)
THEOREM MappingFollowsRuntime == Spec => []MappingTracksRuntime
  <1>1. Init => RecordInv /\ TrackInv
    BY DEF Init, M!Init, RecordInv, TrackInv, Live
  <1>2. TrackInv /\ M!Converged => MappingTracksRuntime
    BY DEF TrackInv, M!Converged, MappingTracksRuntime
  <1> QED
    BY <1>1, <1>2, AuditInit, AuditStep, RecordStep, TrackStep, PipelineKeeps, PTL DEF Spec

(* A container the runtime still has never loses its file.                 *)
THEOREM NoLiveContainerUnlinked == Spec => LiveNeverUnlinked
  <1>1. AuditInv => Shape
    BY DEF AuditInv
  <1> QED
    BY <1>1, PipeInit, AuditInit, AuditStep, PipeStep, OnlyGoneUnlinked, PipelineKeeps, PTL
       DEF Spec, LiveNeverUnlinked

(* The directory, as the node keeps it, is what metricsd may rely on: a    *)
(* container the runtime has never loses its file, and a container whose   *)
(* file was unlinked never has one again.                                  *)
THEOREM NodeImplementsDirectory == Spec => ImplementsDirectory
  <1>1. Init => D!Init /\ Sealed
    BY DEF Init, M!Init, D!Init, Sealed, Live, Gone, Retired
  <1>2. AuditInv => Shape
    BY DEF AuditInv
  <1> QED
    BY <1>1, <1>2, PipeInit, AuditInit, AuditStep, PipeStep, SealStep, DirectoryStep, PipelineKeeps,
       PTL DEF Spec, ImplementsDirectory, D!Spec

-----------------------------------------------------------------------------
(* The drain.                                                              *)

(* Only Shutdown and a terminating main are in Flush, and while one of     *)
(* them waits there is an event or a barrier for the worker to receive.    *)
DrainInv ==
  /\ flush["main"] = "waiting" => loop = "draining"
  /\ flush["shutdown"] = "waiting" => shut = "flushing"

DrainHasWork == \A f \in Flusher : flush[f] = "waiting" => queue # <<>>

(* Who waits after a step of the pipeline.                                 *)
LEMMA FlushSteps ==
  ASSUME M!TypeOK
  PROVE  /\ \A e : M!Enqueue(e) => flush' = flush
         /\ \A f, g \in Flusher : M!Flush(f) /\ g # f => flush'[g] = flush[g]
         /\ M!Worker \/ M!Crash =>
              \A f \in Flusher : flush'[f] = "waiting" => flush[f] = "waiting"
  <1>1. \A e : M!Enqueue(e) => flush' = flush
    BY Zenon DEF M!Enqueue
  <1>2. \A f, g \in Flusher : M!Flush(f) /\ g # f => flush'[g] = flush[g]
    BY DEF M!TypeOK, M!Flush
  <1>3. ASSUME M!Worker \/ M!Crash, NEW f \in Flusher, flush'[f] = "waiting"
        PROVE  flush[f] = "waiting"
    <2>1. CASE M!Receive
      BY <1>3, <2>1 DEF M!Receive
    <2>2. CASE M!Crash
      BY <1>3, <2>2 DEF M!Crash
    <2>3. ASSUME NEW c \in Container, M!WriteRecord(c) \/ M!Unlink(c) PROVE flush' = flush
      BY <2>3, Zenon DEF M!WriteRecord, M!Unlink
    <2>4. M!ReadDir \/ M!Abandon => flush' = flush
      BY Zenon DEF M!ReadDir, M!Abandon
    <2> QED
      BY <1>3, <2>1, <2>2, <2>3, <2>4, Zenon DEF M!Worker
  <1> QED
    BY <1>1, <1>2, <1>3, Zenon

LEMMA DrainStep == M!TypeOK /\ DrainInv /\ [Next]_vars => DrainInv'
  <1> SUFFICES ASSUME M!TypeOK, DrainInv, [Next]_vars PROVE DrainInv'
    OBVIOUS
  <1>0. "main" \in Flusher /\ "shutdown" \in Flusher
    BY DEF Flusher
  <1>1. CASE UNCHANGED <<flush, loop, shut>>
    BY <1>1 DEF DrainInv
  <1>2. ASSUME NEW c \in Container,
               CreateContainer(c) \/ CreateUnhooked(c) \/ Exit(c) \/ RemoveContainer(c)
        PROVE  UNCHANGED <<flush, loop, shut>>
    BY <1>2, FlushSteps, Zenon
       DEF CreateContainer, CreateUnhooked, Exit, RemoveContainer, M!Upsert, M!Delete, mvars, pvars
  <1>3. ASSUME NEW s \in Session, SynchronizeReady(s) \/ SynchronizeAudit(s)
        PROVE  UNCHANGED <<flush, loop, shut>>
    BY <1>3, Zenon DEF SynchronizeReady, SynchronizeAudit, mvars, pvars
  <1>4. ASSUME NEW s \in Session, NEW c \in Container, Stop(s, c)
        PROVE  UNCHANGED <<flush, loop, shut>>
    BY <1>4, Zenon DEF Stop, mvars, pvars
  <1>5. CASE Synchronize
    BY <1>5, FlushSteps DEF Synchronize, M!Synchronize, DrainInv
  <1>6. CASE Disconnect \/ RuntimeShutdown \/ UNCHANGED vars
    BY <1>6 DEF Disconnect, RuntimeShutdown, vars, mvars, pvars, DrainInv
  <1>7. CASE Shutdown
    BY <1>0, <1>7, FlushSteps DEF Shutdown, DrainInv
  <1>8. CASE RunReturns \/ Terminate
    <2>1. UNCHANGED shut
      BY <1>8, Zenon DEF RunReturns, Terminate
    <2>2. CASE M!Flush("main") /\ loop' = "draining"
      BY <1>0, <2>1, <2>2, FlushSteps DEF DrainInv
    <2>3. CASE UNCHANGED mvars /\ loop \in {"connecting", "serving"}
      BY <2>1, <2>3 DEF DrainInv, mvars
    <2> QED
      BY <1>8, <2>2, <2>3, Zenon DEF RunReturns, Terminate
  <1>9. CASE ShutdownReturn \/ FlushReturns \/ Reconnect \/ Restart
    BY <1>9 DEF ShutdownReturn, FlushReturns, Reconnect, Restart, mvars, DrainInv
  <1>10. CASE Die
    BY <1>0, <1>10 DEF Die, M!Crash, DrainInv
  <1>11. CASE MappingWorker
    BY <1>0, <1>11, FlushSteps DEF MappingWorker, pvars, DrainInv
  <1> QED
    BY <1>1, <1>2, <1>3, <1>4, <1>5, <1>6, <1>7, <1>8, <1>9, <1>10, <1>11, Zenon
       DEF Next, ExitProcess, Kill

(* SIGTERM, or the end of the retries, always finds main outside Flush     *)
(* (fractiond's main.go), and neither main nor a Shutdown callback waits   *)
(* in Flush while the worker has nothing to receive, whatever was queued,  *)
(* dropped or blocked before.  This is the half of DrainTerminates that    *)
(* needs no fairness.                                                      *)
THEOREM DrainNeverStuck == Spec => [](DrainInv /\ DrainHasWork)
  <1>1. Init => DrainInv
    BY DEF Init, M!Init, DrainInv, Flusher
  <1>2. MP!Spec => []MP!FlushPending
    BY PipelineAssumption, MP!NoFlushForgotten, PTL DEF MP!NoFlushForgotten
  <1>3. M!TypeOK /\ MP!FlushPending => DrainHasWork
    <2> SUFFICES ASSUME M!TypeOK, MP!FlushPending, NEW f \in Flusher, flush[f] = "waiting"
                 PROVE  queue # <<>>
      BY DEF DrainHasWork
    <2>1. CASE \E i \in 1..Len(queue) : queue[i] = MP!Barrier(f)
      BY <2>1 DEF M!TypeOK
    <2>2. CASE \E i \in 1..Len(sendq) : sendq[i] = f
      <3>1. sendq # <<>>
        BY <2>2 DEF M!TypeOK
      <3>2. Len(queue) = QueueDepth
        BY <3>1 DEF MP!FlushPending
      <3> QED
        BY <3>2, FractiondAssumption DEF M!TypeOK
    <2> QED
      BY <2>1, <2>2 DEF MP!FlushPending
  <1> QED
    BY <1>1, <1>2, <1>3, DrainStep, PipelineKeeps, NodeImplementsMapping, PipelineIsMapping, PTL
       DEF Spec
=============================================================================
