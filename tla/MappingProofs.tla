--------------------------- MODULE MappingProofs ---------------------------
(***************************************************************************)
(* Proofs about Mapping for any set of containers, any queue depth and any *)
(* set of flushers: the last call wins, resyncs leave no gap, Flush drains *)
(* and the handoff is a lossy first-in first-out register per container    *)
(* (Registers).                                                            *)
(***************************************************************************)
EXTENDS Mapping, TLAPS

-----------------------------------------------------------------------------
(* What the queue says of a container when an item is added or taken.      *)

(* The item appended last decides the containers it concerns.              *)
LEMMA AppendConcerned ==
  ASSUME NEW q \in Seq(Item), NEW e \in Item, NEW w, NEW c \in Concerns(e),
         c \in Leaves(e) <=> c \in w
  PROVE  /\ QueuedIn(Append(q, e), c)
         /\ LastLeaves(Append(q, e), c, w)
  <1> DEFINE r == Append(q, e)
  <1>1. Len(r) = Len(q) + 1 /\ r[Len(r)] = e /\ Len(r) \in 1..Len(r)
    OBVIOUS
  <1>2. \A j \in 1..Len(r) : ~(j > Len(r))
    BY <1>1
  <1> QED
    BY <1>1, <1>2 DEF QueuedIn, LastLeaves

(* An appended item leaves the others as they were.                        *)
LEMMA AppendOther ==
  ASSUME NEW q \in Seq(Item), NEW e \in Item, NEW w, NEW c, c \notin Concerns(e)
  PROVE  /\ QueuedIn(Append(q, e), c) <=> QueuedIn(q, c)
         /\ LastLeaves(q, c, w) => LastLeaves(Append(q, e), c, w)
  <1> DEFINE r == Append(q, e)
  <1>1. /\ Len(r) = Len(q) + 1 /\ Len(q) \in Nat
        /\ r[Len(r)] = e
        /\ \A i \in 1..Len(q) : r[i] = q[i]
    OBVIOUS
  <1>2. \A i \in 1..Len(r) : i \in 1..Len(q) \/ i = Len(r)
    BY <1>1
  <1>3. \A i \in 1..Len(q) : i \in 1..Len(r)
    BY <1>1
  <1>4. QueuedIn(r, c) <=> QueuedIn(q, c)
    BY <1>1, <1>2, <1>3 DEF QueuedIn
  <1>5. ASSUME LastLeaves(q, c, w) PROVE LastLeaves(r, c, w)
    <2>1. PICK i \in 1..Len(q) : /\ c \in Concerns(q[i])
                                 /\ \A j \in 1..Len(q) : j > i => c \notin Concerns(q[j])
                                 /\ c \in Leaves(q[i]) <=> c \in w
      BY <1>5 DEF LastLeaves
    <2>2. \A j \in 1..Len(r) : j > i => c \notin Concerns(r[j])
      BY <1>1, <1>2, <2>1
    <2> QED
      BY <1>1, <1>3, <2>1, <2>2 DEF LastLeaves
  <1> QED
    BY <1>4, <1>5

(* Taking the head leaves the later items as they were: what they say of a *)
(* container, and that the head decides what none of them concerns.        *)
LEMMA TailDecides ==
  ASSUME NEW q \in Seq(Item), q # <<>>, NEW w, NEW c
  PROVE  /\ QueuedIn(q, c) <=> QueuedIn(Tail(q), c) \/ c \in Concerns(Head(q))
         /\ LastLeaves(q, c, w) =>
              IF QueuedIn(Tail(q), c) THEN LastLeaves(Tail(q), c, w)
              ELSE c \in Concerns(Head(q)) /\ (c \in Leaves(Head(q)) <=> c \in w)
  <1> DEFINE t == Tail(q)
  <1>1. /\ Len(t) = Len(q) - 1 /\ Len(q) \in Nat /\ Len(q) >= 1
        /\ Head(q) = q[1]
        /\ \A i \in 1..Len(t) : t[i] = q[i + 1]
    OBVIOUS
  <1>2. \A i \in 1..Len(q) : i = 1 \/ (i - 1 \in 1..Len(t) /\ q[i] = t[i - 1])
    BY <1>1
  <1>3. \A i \in 1..Len(t) : i + 1 \in 1..Len(q)
    BY <1>1
  <1>4. 1 \in 1..Len(q)
    BY <1>1
  <1>5. QueuedIn(q, c) <=> QueuedIn(t, c) \/ c \in Concerns(Head(q))
    BY <1>1, <1>2, <1>3, <1>4 DEF QueuedIn
  <1>6. ASSUME LastLeaves(q, c, w)
        PROVE  IF QueuedIn(t, c) THEN LastLeaves(t, c, w)
               ELSE c \in Concerns(Head(q)) /\ (c \in Leaves(Head(q)) <=> c \in w)
    <2>1. PICK i \in 1..Len(q) : /\ c \in Concerns(q[i])
                                 /\ \A j \in 1..Len(q) : j > i => c \notin Concerns(q[j])
                                 /\ c \in Leaves(q[i]) <=> c \in w
      BY <1>6 DEF LastLeaves
    <2>2. CASE i = 1
      <3>1. \A j \in 1..Len(t) : c \notin Concerns(t[j])
        BY <1>1, <1>3, <2>1, <2>2
      <3> QED
        BY <1>1, <2>1, <2>2, <3>1 DEF QueuedIn
    <2>3. CASE i # 1
      <3>1. i - 1 \in 1..Len(t) /\ t[i - 1] = q[i]
        BY <1>2, <2>3
      <3>2. \A j \in 1..Len(t) : j > i - 1 => c \notin Concerns(t[j])
        BY <1>1, <1>3, <2>1
      <3> QED
        BY <2>1, <3>1, <3>2, Zenon DEF QueuedIn, LastLeaves
    <2> QED
      BY <2>2, <2>3
  <1> QED
    BY <1>5, <1>6

-----------------------------------------------------------------------------
(* Type correctness.                                                       *)

(* The work in hand: what is still to be written is wanted, what is still  *)
(* to be unlinked is not, and only a Replace lists the directory.          *)
WorkOK ==
  /\ work.phase = "write" => work.todo \subseteq work.desired
  /\ work.phase = "unlink" => work.todo \cap work.desired = {}
  /\ work.phase = "list" => work.prune

(* Events and barriers are items.                                          *)
LEMMA ItemTypes ==
  /\ \A k \in {"upsert", "remove", "replace"}, infos \in SUBSET Container :
       Event(k, infos) \in Item
  /\ \A f \in Flusher : Barrier(f) \in Item
  /\ \A f \in Flusher : Concerns(Barrier(f)) = {}
  /\ \A e \in Item : Concerns(e) \subseteq Container /\ Leaves(e) \subseteq Container
  BY DEF Event, Barrier, Item, Concerns, Leaves

(* What the worker makes of an item.                                       *)
LEMMA StartTypes ==
  ASSUME NEW e \in Item
  PROVE  /\ Start(e) \in Work
         /\ Start(e).phase = "write" => Start(e).todo = Start(e).desired
         /\ Start(e).phase = "unlink" => Start(e).desired = {}
         /\ Start(e).phase # "list"
  BY DEF Start, Item, Work, Idle, Doing

(* The queue length can be compared with its bound.                        *)
LEMMA LenBound ==
  TypeOK => Len(queue) \in Nat /\ QueueDepth \in Nat
  BY MappingAssumption DEF TypeOK

(* The type invariant and the shape of the work in hand are kept by every  *)
(* call, every step of the worker and a crash.                             *)
LEMMA TypeStep == TypeOK /\ WorkOK /\ [Next]_mvars => (TypeOK /\ WorkOK)'
  <1> SUFFICES ASSUME TypeOK, WorkOK, [Next]_mvars PROVE (TypeOK /\ WorkOK)'
    OBVIOUS
  <1> USE MappingAssumption
  <1>1. ASSUME NEW e \in Item, Enqueue(e) PROVE (TypeOK /\ WorkOK)'
    <2>1. queue' \in Seq(Item) /\ Len(queue') <= QueueDepth
      <3>1. Append(queue, e) \in Seq(Item) /\ Len(Append(queue, e)) = Len(queue) + 1
        BY DEF TypeOK
      <3>2. CASE Len(queue) < QueueDepth
        <4>1. queue' = Append(queue, e)
          BY <1>1, <3>2 DEF Enqueue
        <4> QED
          BY <3>1, <3>2, <4>1, LenBound
      <3>3. CASE ~(Len(queue) < QueueDepth)
        BY <1>1, <3>3 DEF Enqueue, TypeOK
      <3> QED
        BY <3>2, <3>3
    <2>2. Concerns(e) \subseteq Container
      BY ItemTypes
    <2>3. want' \in SUBSET Container /\ lost' \in SUBSET Container
      BY <1>1, <2>2 DEF Enqueue, TypeOK
    <2>4. since' \in [Flusher -> SUBSET Container]
      BY <1>1, <2>2 DEF Enqueue, TypeOK
    <2> QED
      BY <1>1, <2>1, <2>3, <2>4 DEF Enqueue, TypeOK, WorkOK
  <1>2. ASSUME NEW f \in Flusher, Flush(f) PROVE (TypeOK /\ WorkOK)'
    <2>1. Barrier(f) \in Item
      BY ItemTypes
    <2>2. /\ Append(queue, Barrier(f)) \in Seq(Item)
          /\ Len(Append(queue, Barrier(f))) = Len(queue) + 1
          /\ Append(sendq, f) \in Seq(Flusher)
      BY <2>1 DEF TypeOK
    <2>3. queue' \in Seq(Item) /\ Len(queue') <= QueueDepth /\ sendq' \in Seq(Flusher)
      <3>1. CASE Len(queue) < QueueDepth
        <4>1. queue' = Append(queue, Barrier(f)) /\ sendq' = sendq
          BY <1>2, <3>1 DEF Flush
        <4> QED
          BY <2>2, <3>1, <4>1, LenBound DEF TypeOK
      <3>2. CASE ~(Len(queue) < QueueDepth)
        <4>1. queue' = queue /\ sendq' = Append(sendq, f)
          BY <1>2, <3>2 DEF Flush
        <4> QED
          BY <2>2, <4>1 DEF TypeOK
      <3> QED
        BY <3>1, <3>2
    <2>4. /\ flush' \in [Flusher -> {"idle", "waiting"}]
          /\ since' \in [Flusher -> SUBSET Container]
      BY <1>2 DEF Flush, TypeOK
    <2> QED
      BY <1>2, <2>3, <2>4 DEF Flush, TypeOK, WorkOK
  <1>3. CASE Receive
    <2>1. Head(queue) \in Item /\ Tail(queue) \in Seq(Item) /\ Len(Tail(queue)) = Len(queue) - 1
      BY <1>3 DEF Receive, TypeOK
    <2>2. queue' \in Seq(Item) /\ Len(queue') <= QueueDepth /\ sendq' \in Seq(Flusher)
      <3>1. CASE sendq = <<>>
        <4>1. queue' = Tail(queue) /\ sendq' = sendq
          BY <1>3, <3>1 DEF Receive, Dequeue
        <4> QED
          BY <2>1, <4>1, LenBound DEF TypeOK
      <3>2. CASE sendq # <<>>
        <4>1. Head(sendq) \in Flusher /\ Tail(sendq) \in Seq(Flusher)
          BY <3>2 DEF TypeOK
        <4> DEFINE b == Barrier(Head(sendq))
        <4>2. b \in Item
          BY <4>1, ItemTypes
        <4> HIDE DEF b
        <4>3. Append(Tail(queue), b) \in Seq(Item) /\ Len(Append(Tail(queue), b)) = Len(queue)
          BY <2>1, <4>2 DEF TypeOK
        <4>4. queue' = Append(Tail(queue), b) /\ sendq' = Tail(sendq)
          BY <1>3, <3>2 DEF Receive, Dequeue, b
        <4> QED
          BY <4>1, <4>3, <4>4 DEF TypeOK
      <3> QED
        BY <3>1, <3>2
    <2> QED
      BY <1>3, <2>1, <2>2, StartTypes DEF Receive, TypeOK, WorkOK
  <1>4. ASSUME NEW c \in Container, WriteRecord(c) PROVE (TypeOK /\ WorkOK)'
    BY <1>4 DEF WriteRecord, AfterWrite, Fail, TypeOK, WorkOK, Work, Idle, Doing
  <1>5. ASSUME NEW c \in Container, Unlink(c) PROVE (TypeOK /\ WorkOK)'
    BY <1>5 DEF Unlink, AfterUnlink, Fail, TypeOK, WorkOK, Work, Idle, Doing
  <1>6. CASE ReadDir
    BY <1>6 DEF ReadDir, AfterUnlink, TypeOK, WorkOK, Work, Idle, Doing
  <1>7. CASE Abandon
    BY <1>7 DEF Abandon, Fail, TypeOK, WorkOK, Work, Idle, Doing
  <1>8. CASE Crash
    BY <1>8 DEF Crash, TypeOK, WorkOK, Work, Idle, Doing
  <1>9. CASE UNCHANGED mvars
    BY <1>9 DEF mvars, TypeOK, WorkOK
  <1>10. CASE Calls
    <2>1. ASSUME NEW c \in Container, NEW ok \in BOOLEAN, Upsert(c, ok)
          PROVE  (TypeOK /\ WorkOK)'
      BY <1>1, <2>1, ItemTypes DEF Upsert
    <2>2. ASSUME NEW c \in Container, Delete(c) PROVE (TypeOK /\ WorkOK)'
      BY <1>1, <2>2, ItemTypes DEF Delete
    <2>3. ASSUME NEW infos \in SUBSET Container, Synchronize(infos)
          PROVE  (TypeOK /\ WorkOK)'
      BY <1>1, <2>3, ItemTypes DEF Synchronize
    <2> QED
      BY <1>2, <1>10, <2>1, <2>2, <2>3 DEF Calls
  <1> QED
    BY <1>3, <1>4, <1>5, <1>6, <1>7, <1>8, <1>9, <1>10 DEF Next, Worker

(* The queue never exceeds its depth and every variable keeps its type,    *)
(* whatever the callbacks, the worker and crashes do.                      *)
THEOREM TypeCorrect == Spec => []TypeOK
  <1>1. Init => TypeOK /\ WorkOK
    BY MappingAssumption DEF Init, TypeOK, WorkOK, Work, Idle, Doing
  <1> QED
    BY <1>1, TypeStep, PTL DEF Spec

-----------------------------------------------------------------------------
(* The last call wins.                                                     *)

(* A step of the worker that touches neither the queue nor the calls needs *)
(* only show what becomes of the containers no queued item concerns.       *)
LEMMA WorkerKeeps ==
  ASSUME LastCallWins, queue' = queue, want' = want, lost \subseteq lost',
         \A c \in Container \ lost' :
           ~Queued(c) /\ (WillRemain(c) <=> c \in want) => (WillRemain(c)' <=> c \in want)
  PROVE  LastCallWins'
  <1> SUFFICES ASSUME NEW c \in Container \ lost'
               PROVE  (IF Queued(c) THEN LastLeaves(queue, c, want)
                       ELSE WillRemain(c) <=> c \in want)'
    BY DEF LastCallWins
  <1>1. c \in Container \ lost
    OBVIOUS
  <1>2. Queued(c)' = Queued(c)
    BY DEF Queued
  <1>3. CASE Queued(c)
    BY <1>1, <1>2, <1>3 DEF LastCallWins
  <1>4. CASE ~Queued(c)
    <2>1. WillRemain(c) <=> c \in want
      BY <1>1, <1>4 DEF LastCallWins
    <2> QED
      BY <1>2, <1>4, <2>1
  <1> QED
    BY <1>3, <1>4

(* A call decides the containers it names and leaves the others alone; one *)
(* that is dropped marks them lost.                                        *)
LEMMA CallKeeps ==
  ASSUME TypeOK, LastCallWins, NEW e \in Item, Enqueue(e)
  PROVE  LastCallWins'
  <1> SUFFICES ASSUME NEW c \in Container \ lost'
               PROVE  (IF Queued(c) THEN LastLeaves(queue, c, want)
                       ELSE WillRemain(c) <=> c \in want)'
    BY DEF LastCallWins
  <1>1. queue \in Seq(Item)
    BY DEF TypeOK
  <1>2. WillRemain(c)' = WillRemain(c)
    BY DEF Enqueue, WillRemain, Undecided
  <1>3. CASE c \in Concerns(e)
    <2>1. queue' = Append(queue, e)
      BY <1>3 DEF Enqueue
    <2>2. c \in Leaves(e) <=> c \in want'
      BY <1>3 DEF Enqueue
    <2> QED
      BY <1>1, <1>3, <2>1, <2>2, AppendConcerned DEF Queued
  <1>4. CASE c \notin Concerns(e)
    <2>1. c \notin lost /\ (c \in want <=> c \in want')
      BY <1>4 DEF Enqueue
    <2>2. CASE queue' = queue
      <3>1. LastLeaves(queue, c, want) => LastLeaves(queue, c, want')
        BY <2>1 DEF LastLeaves
      <3>2. Queued(c)' = Queued(c)
        BY <2>2 DEF Queued
      <3> QED
        BY <1>2, <2>1, <2>2, <3>1, <3>2 DEF LastCallWins
    <2>3. CASE queue' = Append(queue, e)
      <3>1. LastLeaves(queue, c, want) => LastLeaves(queue, c, want')
        BY <2>1 DEF LastLeaves
      <3>2. Queued(c)' <=> Queued(c)
        BY <1>1, <1>4, <2>3, AppendOther DEF Queued
      <3>3. LastLeaves(queue, c, want') => LastLeaves(queue', c, want')
        BY <1>1, <1>4, <2>3, AppendOther
      <3> QED
        BY <1>2, <2>1, <3>1, <3>2, <3>3 DEF LastCallWins
    <2> QED
      BY <2>2, <2>3 DEF Enqueue
  <1> QED
    BY <1>3, <1>4

(* A barrier concerns no container.                                        *)
LEMMA FlushKeeps ==
  ASSUME TypeOK, LastCallWins, NEW f \in Flusher, Flush(f)
  PROVE  LastCallWins'
  <1> SUFFICES ASSUME NEW c \in Container \ lost
               PROVE  (IF Queued(c) THEN LastLeaves(queue, c, want)
                       ELSE WillRemain(c) <=> c \in want)'
    BY DEF LastCallWins, Flush
  <1>1. queue \in Seq(Item) /\ Barrier(f) \in Item /\ c \notin Concerns(Barrier(f))
    BY ItemTypes DEF TypeOK
  <1>2. (WillRemain(c)' <=> WillRemain(c)) /\ want' = want
    BY DEF Flush, WillRemain, Undecided
  <1>3. /\ Queued(c)' <=> Queued(c)
        /\ LastLeaves(queue, c, want) => LastLeaves(queue', c, want')
    <2>1. CASE queue' = queue
      BY <1>2, <2>1 DEF Queued
    <2>2. CASE queue' = Append(queue, Barrier(f))
      BY <1>1, <1>2, <2>2, AppendOther DEF Queued
    <2> QED
      BY <2>1, <2>2 DEF Flush
  <1> QED
    BY <1>2, <1>3 DEF LastCallWins

(* Taking an event up moves what it decides from the queue to the work in  *)
(* hand.                                                                   *)
LEMMA ReceiveKeeps ==
  ASSUME TypeOK, LastCallWins, Receive
  PROVE  LastCallWins'
  <1> SUFFICES ASSUME NEW c \in Container \ lost
               PROVE  (IF Queued(c) THEN LastLeaves(queue, c, want)
                       ELSE WillRemain(c) <=> c \in want)'
    BY DEF LastCallWins, Receive
  <1> DEFINE e == Head(queue)
             t == Tail(queue)
  <1>1. /\ queue \in Seq(Item) /\ queue # <<>> /\ e \in Item /\ t \in Seq(Item)
        /\ want' = want /\ dir' = dir /\ work' = Start(e)
    BY DEF TypeOK, Receive
  <1>2. WillRemain(c) <=> c \in dir
    BY DEF Receive, WillRemain, Undecided
  <1>3. WillRemain(c)' <=> IF c \in Concerns(e) THEN c \in Leaves(e) ELSE c \in dir
    BY <1>1, Zenon DEF WillRemain, Undecided, Start, Idle, Doing, Concerns, Leaves, Item
  <1>4. /\ Queued(c)' <=> QueuedIn(t, c)
        /\ LastLeaves(t, c, want) => LastLeaves(queue', c, want)
    <2>1. CASE sendq = <<>>
      BY <2>1, Zenon DEF Receive, Dequeue, Queued
    <2>2. CASE sendq # <<>>
      <3>1. Head(sendq) \in Flusher
        BY <2>2 DEF TypeOK
      <3> DEFINE b == Barrier(Head(sendq))
      <3>2. b \in Item /\ c \notin Concerns(b)
        BY <3>1, ItemTypes
      <3>3. queue' = Append(t, b)
        BY <2>2 DEF Receive, Dequeue
      <3> HIDE DEF b, t
      <3> QED
        BY <1>1, <3>2, <3>3, AppendOther DEF Queued
    <2> QED
      BY <2>1, <2>2
  <1>5. /\ Queued(c) <=> QueuedIn(t, c) \/ c \in Concerns(e)
        /\ LastLeaves(queue, c, want) =>
             IF QueuedIn(t, c) THEN LastLeaves(t, c, want)
             ELSE c \in Concerns(e) /\ (c \in Leaves(e) <=> c \in want)
    BY <1>1, TailDecides DEF Queued
  <1>6. IF Queued(c) THEN LastLeaves(queue, c, want) ELSE WillRemain(c) <=> c \in want
    BY DEF LastCallWins
  <1> HIDE DEF e, t
  <1> QED
    BY <1>1, <1>2, <1>3, <1>4, <1>5, <1>6

(* Every step keeps the promise: a file operation does what the work in    *)
(* hand decided, or fails and marks the container lost.                    *)
LEMMA LastCallStep ==
  TypeOK /\ WorkOK /\ LastCallWins /\ [Next]_mvars => LastCallWins'
  <1> SUFFICES ASSUME TypeOK, WorkOK, LastCallWins, [Next]_mvars PROVE LastCallWins'
    OBVIOUS
  <1>1. ASSUME NEW d \in Container, WriteRecord(d) PROVE LastCallWins'
    <2>1. queue' = queue /\ want' = want /\ lost \subseteq lost'
      BY <1>1 DEF WriteRecord, Fail
    <2>2. ASSUME NEW c \in Container \ lost', ~Queued(c), WillRemain(c) <=> c \in want
          PROVE  WillRemain(c)' <=> c \in want
      <3>1. CASE c = d
        <4>1. dir' = dir \cup {c}
          BY <1>1, <2>2, <3>1 DEF WriteRecord, Fail
        <4>2. ~Undecided(c)' /\ WillRemain(c)
          BY <1>1, <3>1 DEF WriteRecord, AfterWrite, Undecided, WillRemain, WorkOK, Idle, Doing
        <4> QED
          BY <2>2, <4>1, <4>2 DEF WillRemain
      <3>2. CASE c # d
        <4>1. c \in dir' <=> c \in dir
          BY <1>1, <3>2 DEF WriteRecord
        <4>2. Undecided(c)' <=> Undecided(c)
          BY <1>1, <3>2 DEF WriteRecord, AfterWrite, Undecided, TypeOK, Work, Idle, Doing
        <4>3. Undecided(c) => (work'.phase = "write" /\ c \in work'.todo
                               <=> work.phase = "write" /\ c \in work.todo)
          BY <1>1, <3>2 DEF WriteRecord, AfterWrite, Undecided, TypeOK, Work, Idle, Doing
        <4> QED
          BY <2>2, <4>1, <4>2, <4>3 DEF WillRemain
      <3> QED
        BY <3>1, <3>2
    <2> QED
      BY <2>1, <2>2, WorkerKeeps
  <1>2. ASSUME NEW d \in Container, Unlink(d) PROVE LastCallWins'
    <2>1. queue' = queue /\ want' = want /\ lost \subseteq lost'
      BY <1>2 DEF Unlink, Fail
    <2>2. ASSUME NEW c \in Container \ lost', ~Queued(c), WillRemain(c) <=> c \in want
          PROVE  WillRemain(c)' <=> c \in want
      <3>1. CASE c = d
        <4>1. dir' = dir \ {c}
          BY <1>2, <2>2, <3>1 DEF Unlink, Fail
        <4>2. ~Undecided(c)' /\ ~WillRemain(c)
          BY <1>2, <3>1 DEF Unlink, AfterUnlink, Undecided, WillRemain, Idle, Doing
        <4> QED
          BY <2>2, <4>1, <4>2 DEF WillRemain
      <3>2. CASE c # d
        <4>1. c \in dir' <=> c \in dir
          BY <1>2, <3>2 DEF Unlink
        <4>2. (Undecided(c)' <=> Undecided(c)) /\ work'.phase # "write" /\ work.phase # "write"
          BY <1>2, <3>2 DEF Unlink, AfterUnlink, Undecided, TypeOK, Work, Idle, Doing
        <4> QED
          BY <2>2, <4>1, <4>2 DEF WillRemain
      <3> QED
        BY <3>1, <3>2
    <2> QED
      BY <2>1, <2>2, WorkerKeeps
  <1>3. CASE ReadDir
    <2>1. ASSUME NEW c \in Container, WillRemain(c) <=> c \in want
          PROVE  WillRemain(c)' <=> c \in want
      BY <1>3, <2>1
         DEF ReadDir, AfterUnlink, Undecided, WillRemain, WorkOK, TypeOK, Work, Idle, Doing
    <2> QED
      BY <1>3, <2>1, WorkerKeeps DEF ReadDir
  <1>4. CASE Abandon
    <2>1. queue' = queue /\ want' = want /\ lost \subseteq lost'
      BY <1>4 DEF Abandon, Fail
    <2>2. ASSUME NEW c \in Container \ lost', ~Queued(c), WillRemain(c) <=> c \in want
          PROVE  WillRemain(c)' <=> c \in want
      <3>1. ~Undecided(c)
        BY <1>4, <2>2 DEF Abandon, Fail
      <3> QED
        BY <1>4, <2>2, <3>1 DEF Abandon, WillRemain, Undecided, Idle, Doing
    <2> QED
      BY <2>1, <2>2, WorkerKeeps
  <1>5. CASE Crash
    <2> SUFFICES ASSUME NEW c \in Container \ lost'
                 PROVE  ~Queued(c)' /\ (WillRemain(c)' <=> c \in want')
      BY DEF LastCallWins
    <2>1. c \notin lost /\ ~Queued(c) /\ ~Undecided(c)
      BY <1>5 DEF Crash
    <2>2. WillRemain(c)' <=> WillRemain(c)
      BY <1>5, <2>1 DEF Crash, WillRemain, Undecided, Idle, Doing
    <2>3. ~Queued(c)'
      BY <1>5 DEF Crash, Queued, QueuedIn
    <2> QED
      BY <1>5, <2>1, <2>2, <2>3 DEF LastCallWins, Crash
  <1>6. CASE UNCHANGED mvars
    BY <1>6 DEF mvars, LastCallWins, Queued, WillRemain, Undecided
  <1>7. CASE Calls
    <2>1. ASSUME NEW c \in Container, NEW ok \in BOOLEAN, Upsert(c, ok) PROVE LastCallWins'
      BY <2>1, ItemTypes, CallKeeps DEF Upsert
    <2>2. ASSUME NEW c \in Container, Delete(c) PROVE LastCallWins'
      BY <2>2, ItemTypes, CallKeeps DEF Delete
    <2>3. ASSUME NEW infos \in SUBSET Container, Synchronize(infos) PROVE LastCallWins'
      BY <2>3, ItemTypes, CallKeeps DEF Synchronize
    <2> QED
      BY <1>7, <2>1, <2>2, <2>3, FlushKeeps DEF Calls
  <1> QED
    BY <1>1, <1>2, <1>3, <1>4, <1>5, <1>6, <1>7, ReceiveKeeps DEF Next, Worker

(* The last call about a container always wins: through the queue, the     *)
(* event being applied and the directory, with drops, failed file          *)
(* operations and crashes accounted for by the lost containers.            *)
THEOREM LastCallAlwaysWins == Spec => []LastCallWins
  <1>1. Init => TypeOK /\ WorkOK /\ LastCallWins
    BY MappingAssumption
       DEF Init, TypeOK, WorkOK, Work, Idle, Doing, LastCallWins, Queued, QueuedIn,
           WillRemain, Undecided
  <1> QED
    BY <1>1, TypeStep, LastCallStep, PTL DEF Spec

(* With the queue drained and the worker idle the directory is what the    *)
(* calls asked for.                                                        *)
THEOREM QuiescentConverges == Spec => []Converged
  <1>1. LastCallWins => Converged
    <2> SUFFICES ASSUME LastCallWins, Quiescent, NEW c \in Container \ lost
                 PROVE  c \in dir <=> c \in want
      BY Zenon DEF Converged
    <2>1. ~Queued(c)
      BY DEF Quiescent, Queued, QueuedIn
    <2>2. WillRemain(c) <=> c \in dir
      BY DEF Quiescent, WillRemain, Undecided
    <2> QED
      BY <2>1, <2>2 DEF LastCallWins
  <1> QED
    BY <1>1, LastCallAlwaysWins, PTL

-----------------------------------------------------------------------------
(* What a resync may do to the directory.                                  *)

(* No step unlinks a file that the event being applied keeps.              *)
THEOREM ResyncLeavesNoGap == Spec => NoGap
  <1>1. Init => TypeOK /\ WorkOK
    BY MappingAssumption DEF Init, TypeOK, WorkOK, Work, Idle, Doing
  <1>2. TypeOK /\ WorkOK /\ [Next]_mvars => [KeepsDesired]_mvars
    <2> SUFFICES ASSUME WorkOK, [Next]_mvars, NEW d \in dir, d \notin dir'
                 PROVE  work.phase = "unlink" /\ d \notin work.desired
      BY DEF KeepsDesired
    <2>1. PICK c \in Container : Unlink(c)
      BY Zenon DEF Next, Calls, Worker, Crash, Upsert, Delete, Synchronize, Enqueue, Flush,
             Receive, WriteRecord, ReadDir, Abandon, mvars
    <2> QED
      BY <2>1 DEF Unlink, WorkOK
  <1> QED
    BY <1>1, <1>2, TypeStep, PTL DEF Spec, NoGap

-----------------------------------------------------------------------------
(* What a returning Flush has seen applied.                                *)

(* A flusher has at most one barrier, queued or still to be sent, and only *)
(* while it waits; the items behind a queued one concern only containers   *)
(* of calls made since.                                                    *)
BarrierOK ==
  /\ \A i \in 1..Len(queue), f \in Flusher : queue[i] = Barrier(f) =>
       /\ flush[f] = "waiting"
       /\ \A j \in 1..Len(queue) :
            j > i => queue[j] # Barrier(f) /\ Concerns(queue[j]) \subseteq since[f]
       /\ \A k \in 1..Len(sendq) : sendq[k] # f
  /\ \A k \in 1..Len(sendq) :
       /\ flush[sendq[k]] = "waiting"
       /\ \A l \in 1..Len(sendq) : l > k => sendq[l] # sendq[k]

(* A barrier is of one flusher, and is no event.                           *)
LEMMA BarrierInjective ==
  /\ \A f, g : Barrier(f) = Barrier(g) => f = g
  /\ \A k, infos : \A f \in Flusher : Event(k, infos) # Barrier(f)
  BY MappingAssumption, Zenon DEF Barrier, Event

(* A call appends behind every barrier, or drops its event.                *)
LEMMA BarrierCall ==
  ASSUME TypeOK, BarrierOK, NEW k \in {"upsert", "remove", "replace"},
         NEW infos \in SUBSET Container, Enqueue(Event(k, infos))
  PROVE  BarrierOK'
  <1> DEFINE e == Event(k, infos)
  <1>1. e \in Item /\ \A f \in Flusher : e # Barrier(f)
    BY ItemTypes, BarrierInjective
  <1>2. sendq' = sendq /\ flush' = flush
    BY DEF Enqueue
  <1>3. \A f \in Flusher :
          flush[f] = "waiting" => since[f] \subseteq since'[f] /\ Concerns(e) \subseteq since'[f]
    BY DEF Enqueue, TypeOK
  <1>4. queue \in Seq(Item)
    BY DEF TypeOK
  <1>5. queue' = queue \/ queue' = Append(queue, e)
    BY DEF Enqueue
  <1> HIDE DEF e
  <1>6. CASE queue' = queue
    BY <1>2, <1>3, <1>6 DEF BarrierOK
  <1>7. CASE queue' = Append(queue, e)
    <2>1. /\ Len(queue') = Len(queue) + 1 /\ Len(queue) \in Nat
          /\ queue'[Len(queue) + 1] = e
          /\ \A i \in 1..Len(queue) : queue'[i] = queue[i]
      BY <1>1, <1>4, <1>7
    <2>2. \A i \in 1..Len(queue') : i \in 1..Len(queue) \/ i = Len(queue) + 1
      BY <2>1
    <2>3. ASSUME NEW i \in 1..Len(queue'), NEW f \in Flusher, queue'[i] = Barrier(f)
          PROVE  /\ flush'[f] = "waiting"
                 /\ \A j \in 1..Len(queue') :
                      j > i => queue'[j] # Barrier(f) /\ Concerns(queue'[j]) \subseteq since'[f]
                 /\ \A l \in 1..Len(sendq') : sendq'[l] # f
      <3>1. i \in 1..Len(queue) /\ queue[i] = Barrier(f)
        BY <1>1, <2>1, <2>2, <2>3
      <3>2. /\ flush[f] = "waiting"
            /\ \A j \in 1..Len(queue) :
                 j > i => queue[j] # Barrier(f) /\ Concerns(queue[j]) \subseteq since[f]
            /\ \A l \in 1..Len(sendq) : sendq[l] # f
        BY <3>1 DEF BarrierOK
      <3>3. ASSUME NEW j \in 1..Len(queue'), j > i
            PROVE  queue'[j] # Barrier(f) /\ Concerns(queue'[j]) \subseteq since'[f]
        <4>1. CASE j \in 1..Len(queue)
          BY <1>3, <2>1, <3>2, <3>3, <4>1
        <4>2. CASE j = Len(queue) + 1
          BY <1>1, <1>3, <2>1, <3>2, <4>2
        <4> QED
          BY <2>2, <4>1, <4>2
      <3> QED
        BY <1>2, <3>2, <3>3
    <2> QED
      BY <1>2, <2>3 DEF BarrierOK
  <1> QED
    BY <1>5, <1>6, <1>7

(* A flusher's barrier goes to the tail of the queue, or it starts waiting *)
(* to send it; it had none before.                                         *)
LEMMA BarrierFlush ==
  ASSUME TypeOK, BarrierOK, NEW f \in Flusher, Flush(f)
  PROVE  BarrierOK'
  <1> DEFINE b == Barrier(f)
  <1>1. /\ flush[f] = "idle" /\ since' = since
        /\ flush' = [flush EXCEPT ![f] = "waiting"]
        /\ \/ queue' = Append(queue, b) /\ sendq' = sendq
           \/ queue' = queue /\ sendq' = Append(sendq, f)
    BY DEF Flush
  <1>2. b \in Item /\ Concerns(b) = {} /\ \A g \in Flusher : b = Barrier(g) => f = g
    BY ItemTypes, BarrierInjective
  <1>3. /\ \A g \in Flusher : flush[g] = "waiting" => flush'[g] = "waiting" /\ g # f
        /\ flush'[f] = "waiting"
    BY <1>1 DEF TypeOK
  <1>4. queue \in Seq(Item) /\ sendq \in Seq(Flusher)
    BY DEF TypeOK
  <1>5. /\ \A i \in 1..Len(queue) : queue[i] # b
        /\ \A k \in 1..Len(sendq) : sendq[k] \in Flusher /\ sendq[k] # f
    BY <1>1, <1>3, <1>4 DEF BarrierOK
  <1> HIDE DEF b
  <1>6. CASE queue' = Append(queue, b) /\ sendq' = sendq
    <2>1. /\ Len(queue') = Len(queue) + 1 /\ Len(queue) \in Nat
          /\ queue'[Len(queue) + 1] = b
          /\ \A i \in 1..Len(queue) : queue'[i] = queue[i]
      BY <1>2, <1>4, <1>6
    <2>2. \A i \in 1..Len(queue') : i \in 1..Len(queue) \/ i = Len(queue) + 1
      BY <2>1
    <2>3. ASSUME NEW i \in 1..Len(queue'), NEW g \in Flusher, queue'[i] = Barrier(g)
          PROVE  /\ flush'[g] = "waiting"
                 /\ \A j \in 1..Len(queue') :
                      j > i => queue'[j] # Barrier(g) /\ Concerns(queue'[j]) \subseteq since'[g]
                 /\ \A l \in 1..Len(sendq') : sendq'[l] # g
      <3>1. CASE i = Len(queue) + 1
        <4>1. g = f
          BY <1>2, <2>1, <2>3, <3>1
        <4>2. \A j \in 1..Len(queue') : ~(j > i)
          BY <2>1, <3>1
        <4> QED
          BY <1>3, <1>5, <1>6, <4>1, <4>2
      <3>2. CASE i \in 1..Len(queue)
        <4>1. queue[i] = Barrier(g)
          BY <2>1, <2>3, <3>2
        <4>2. /\ flush[g] = "waiting"
              /\ \A j \in 1..Len(queue) :
                   j > i => queue[j] # Barrier(g) /\ Concerns(queue[j]) \subseteq since[g]
              /\ \A l \in 1..Len(sendq) : sendq[l] # g
          BY <3>2, <4>1 DEF BarrierOK
        <4>3. flush'[g] = "waiting" /\ g # f /\ b # Barrier(g)
          BY <1>2, <1>3, <4>2
        <4>4. ASSUME NEW j \in 1..Len(queue'), j > i
              PROVE  queue'[j] # Barrier(g) /\ Concerns(queue'[j]) \subseteq since'[g]
          <5>1. CASE j \in 1..Len(queue)
            BY <1>1, <2>1, <4>2, <4>4, <5>1
          <5>2. CASE j = Len(queue) + 1
            BY <1>2, <2>1, <4>3, <5>2
          <5> QED
            BY <2>2, <5>1, <5>2
        <4> QED
          BY <1>6, <4>2, <4>3, <4>4
      <3> QED
        BY <2>2, <3>1, <3>2
    <2>4. \A k \in 1..Len(sendq') :
            /\ flush'[sendq'[k]] = "waiting"
            /\ \A l \in 1..Len(sendq') : l > k => sendq'[l] # sendq'[k]
      BY <1>3, <1>5, <1>6 DEF BarrierOK
    <2> QED
      BY <2>3, <2>4 DEF BarrierOK
  <1>7. CASE queue' = queue /\ sendq' = Append(sendq, f)
    <2>1. /\ Len(sendq') = Len(sendq) + 1 /\ Len(sendq) \in Nat
          /\ sendq'[Len(sendq) + 1] = f
          /\ \A i \in 1..Len(sendq) : sendq'[i] = sendq[i]
      BY <1>4, <1>7
    <2>2. \A i \in 1..Len(sendq') : i \in 1..Len(sendq) \/ i = Len(sendq) + 1
      BY <2>1
    <2>3. ASSUME NEW i \in 1..Len(queue'), NEW g \in Flusher, queue'[i] = Barrier(g)
          PROVE  /\ flush'[g] = "waiting"
                 /\ \A j \in 1..Len(queue') :
                      j > i => queue'[j] # Barrier(g) /\ Concerns(queue'[j]) \subseteq since'[g]
                 /\ \A l \in 1..Len(sendq') : sendq'[l] # g
      <3>1. i \in 1..Len(queue) /\ queue[i] = Barrier(g)
        BY <1>7, <2>3
      <3>2. /\ flush[g] = "waiting"
            /\ \A j \in 1..Len(queue) :
                 j > i => queue[j] # Barrier(g) /\ Concerns(queue[j]) \subseteq since[g]
            /\ \A l \in 1..Len(sendq) : sendq[l] # g
        BY <3>1 DEF BarrierOK
      <3>3. flush'[g] = "waiting" /\ g # f
        BY <1>3, <3>2
      <3>4. \A j \in 1..Len(queue') :
              j > i => queue'[j] # Barrier(g) /\ Concerns(queue'[j]) \subseteq since'[g]
        BY <1>1, <1>7, <3>2
      <3>5. \A l \in 1..Len(sendq') : sendq'[l] # g
        BY <2>1, <2>2, <3>2, <3>3
      <3> QED
        BY <3>3, <3>4, <3>5
    <2>4. ASSUME NEW k \in 1..Len(sendq')
          PROVE  /\ flush'[sendq'[k]] = "waiting"
                 /\ \A l \in 1..Len(sendq') : l > k => sendq'[l] # sendq'[k]
      <3>1. CASE k \in 1..Len(sendq)
        <4>1. /\ sendq'[k] = sendq[k] /\ sendq[k] \in Flusher /\ sendq[k] # f
              /\ flush[sendq[k]] = "waiting"
              /\ \A l \in 1..Len(sendq) : l > k => sendq[l] # sendq[k]
          BY <1>5, <2>1, <3>1 DEF BarrierOK
        <4>2. flush'[sendq'[k]] = "waiting"
          BY <1>3, <4>1
        <4>3. ASSUME NEW l \in 1..Len(sendq'), l > k PROVE sendq'[l] # sendq'[k]
          <5>1. CASE l \in 1..Len(sendq)
            BY <2>1, <4>1, <4>3, <5>1
          <5>2. CASE l = Len(sendq) + 1
            BY <2>1, <4>1, <5>2
          <5> QED
            BY <2>2, <5>1, <5>2
        <4> QED
          BY <4>2, <4>3
      <3>2. CASE k = Len(sendq) + 1
        BY <1>3, <2>1, <3>2
      <3> QED
        BY <2>2, <3>1, <3>2
    <2> QED
      BY <2>3, <2>4 DEF BarrierOK
  <1> QED
    BY <1>1, <1>6, <1>7

(* Taking the head frees its flusher, and the first blocked sender's       *)
(* barrier goes behind everything.                                         *)
LEMMA BarrierReceive ==
  ASSUME TypeOK, BarrierOK, Receive
  PROVE  BarrierOK'
  <1> DEFINE t == Tail(queue)
  <1>1. /\ queue \in Seq(Item) /\ queue # <<>> /\ sendq \in Seq(Flusher)
        /\ flush' = [f \in Flusher |-> IF Head(queue) = Barrier(f) THEN "idle" ELSE flush[f]]
        /\ since' = [f \in Flusher |-> IF Head(queue) = Barrier(f) THEN {} ELSE since[f]]
    BY DEF TypeOK, Receive
  <1>2. /\ t \in Seq(Item) /\ Len(t) = Len(queue) - 1 /\ Len(queue) \in Nat /\ Len(queue) >= 1
        /\ Head(queue) = queue[1]
        /\ \A i \in 1..Len(t) : t[i] = queue[i + 1] /\ i + 1 \in 1..Len(queue)
    BY <1>1
  <1> HIDE DEF t
  <1>3. ASSUME NEW i \in 1..Len(t), NEW f \in Flusher, t[i] = Barrier(f)
        PROVE  /\ flush'[f] = "waiting"
               /\ \A j \in 1..Len(t) :
                    j > i => t[j] # Barrier(f) /\ Concerns(t[j]) \subseteq since'[f]
               /\ \A l \in 1..Len(sendq) : sendq[l] # f
    <2>1. /\ flush[f] = "waiting"
          /\ \A j \in 1..Len(queue) :
               j > i + 1 => queue[j] # Barrier(f) /\ Concerns(queue[j]) \subseteq since[f]
          /\ \A l \in 1..Len(sendq) : sendq[l] # f
      BY <1>2, <1>3 DEF BarrierOK
    <2>2. Head(queue) # Barrier(f)
      <3>1. 1 \in 1..Len(queue) /\ i + 1 > 1
        BY <1>2
      <3> QED
        BY <1>2, <1>3, <3>1 DEF BarrierOK
    <2>3. flush'[f] = flush[f] /\ since'[f] = since[f]
      BY <1>1, <2>2
    <2>4. \A j \in 1..Len(t) : j > i => j + 1 > i + 1
      BY <1>2
    <2> QED
      BY <1>2, <2>1, <2>3, <2>4
  <1>4. ASSUME NEW k \in 1..Len(sendq)
        PROVE  /\ flush'[sendq[k]] = "waiting"
               /\ \A l \in 1..Len(sendq) : l > k => sendq[l] # sendq[k]
    <2>1. sendq[k] \in Flusher /\ 1 \in 1..Len(queue)
      BY <1>1, <1>2
    <2>2. Head(queue) # Barrier(sendq[k])
      BY <1>2, <2>1 DEF BarrierOK
    <2> QED
      BY <1>1, <2>1, <2>2 DEF BarrierOK
  <1>5. CASE sendq = <<>>
    <2>1. queue' = t /\ sendq' = sendq
      BY <1>5 DEF Receive, Dequeue, t
    <2> QED
      BY <1>3, <1>4, <2>1 DEF BarrierOK
  <1>6. CASE sendq # <<>>
    <2> DEFINE h == Head(sendq)
               b == Barrier(h)
    <2>1. queue' = Append(t, b) /\ sendq' = Tail(sendq)
      BY <1>6 DEF Receive, Dequeue, t
    <2>2. /\ h \in Flusher /\ h = sendq[1] /\ 1 \in 1..Len(sendq)
          /\ Len(sendq') = Len(sendq) - 1 /\ Len(sendq) \in Nat
          /\ \A k \in 1..Len(sendq') : sendq'[k] = sendq[k + 1] /\ k + 1 \in 1..Len(sendq)
      BY <1>1, <1>6, <2>1
    <2>3. b \in Item /\ Concerns(b) = {} /\ \A g \in Flusher : b = Barrier(g) => h = g
      BY <2>2, ItemTypes, BarrierInjective
    <2> HIDE DEF h, b
    <2>4. \A k \in 1..Len(sendq') : sendq'[k] # h /\ k + 1 > 1
      <3>1. \A k \in 1..Len(sendq') : k + 1 > 1
        BY <2>2
      <3> QED
        BY <1>4, <2>2, <3>1
    <2>5. /\ Len(queue') = Len(t) + 1 /\ Len(t) \in Nat
          /\ queue'[Len(t) + 1] = b
          /\ \A i \in 1..Len(t) : queue'[i] = t[i]
      BY <1>2, <2>1, <2>3
    <2>6. \A i \in 1..Len(queue') : i \in 1..Len(t) \/ i = Len(t) + 1
      BY <2>5
    <2>7. ASSUME NEW i \in 1..Len(queue'), NEW g \in Flusher, queue'[i] = Barrier(g)
          PROVE  /\ flush'[g] = "waiting"
                 /\ \A j \in 1..Len(queue') :
                      j > i => queue'[j] # Barrier(g) /\ Concerns(queue'[j]) \subseteq since'[g]
                 /\ \A l \in 1..Len(sendq') : sendq'[l] # g
      <3>1. CASE i = Len(t) + 1
        <4>1. g = h
          BY <2>3, <2>5, <2>7, <3>1
        <4>2. \A j \in 1..Len(queue') : ~(j > i)
          BY <2>5, <3>1
        <4> QED
          BY <1>4, <2>2, <2>4, <4>1, <4>2
      <3>2. CASE i \in 1..Len(t)
        <4>1. /\ flush'[g] = "waiting"
              /\ \A j \in 1..Len(t) :
                   j > i => t[j] # Barrier(g) /\ Concerns(t[j]) \subseteq since'[g]
              /\ \A l \in 1..Len(sendq) : sendq[l] # g
          BY <1>3, <2>5, <2>7, <3>2
        <4>2. b # Barrier(g)
          BY <2>2, <2>3, <4>1
        <4>3. ASSUME NEW j \in 1..Len(queue'), j > i
              PROVE  queue'[j] # Barrier(g) /\ Concerns(queue'[j]) \subseteq since'[g]
          <5>1. CASE j \in 1..Len(t)
            BY <2>5, <4>1, <4>3, <5>1
          <5>2. CASE j = Len(t) + 1
            BY <2>3, <2>5, <4>2, <5>2
          <5> QED
            BY <2>6, <5>1, <5>2
        <4> QED
          BY <2>2, <4>1, <4>3
      <3> QED
        BY <2>6, <3>1, <3>2
    <2>8. ASSUME NEW k \in 1..Len(sendq')
          PROVE  /\ flush'[sendq'[k]] = "waiting"
                 /\ \A l \in 1..Len(sendq') : l > k => sendq'[l] # sendq'[k]
      <3>1. k + 1 \in 1..Len(sendq) /\ sendq'[k] = sendq[k + 1]
        BY <2>2
      <3>2. ASSUME NEW l \in 1..Len(sendq'), l > k PROVE sendq'[l] # sendq'[k]
        <4>1. l + 1 \in 1..Len(sendq) /\ sendq'[l] = sendq[l + 1] /\ l + 1 > k + 1
          BY <2>2, <3>2
        <4> QED
          BY <1>4, <3>1, <4>1
      <3>3. flush'[sendq'[k]] = "waiting"
        BY <1>4, <3>1
      <3> QED
        BY <3>2, <3>3
    <2> QED
      BY <2>7, <2>8 DEF BarrierOK
  <1> QED
    BY <1>5, <1>6

(* Every step keeps a waiting flusher's barrier behind the calls made      *)
(* before it.                                                              *)
LEMMA BarrierStep == TypeOK /\ BarrierOK /\ [Next]_mvars => BarrierOK'
  <1> SUFFICES ASSUME TypeOK, BarrierOK, [Next]_mvars PROVE BarrierOK'
    OBVIOUS
  <1>1. CASE Calls
    <2>1. ASSUME NEW c \in Container, NEW ok \in BOOLEAN, Upsert(c, ok) PROVE BarrierOK'
      BY <2>1, BarrierCall DEF Upsert
    <2>2. ASSUME NEW c \in Container, Delete(c) PROVE BarrierOK'
      BY <2>2, BarrierCall DEF Delete
    <2>3. ASSUME NEW infos \in SUBSET Container, Synchronize(infos) PROVE BarrierOK'
      BY <2>3, BarrierCall DEF Synchronize
    <2>4. ASSUME NEW f \in Flusher, Flush(f) PROVE BarrierOK'
      BY <2>4, BarrierFlush
    <2> QED
      BY <1>1, <2>1, <2>2, <2>3, <2>4 DEF Calls
  <1>2. CASE Receive
    BY <1>2, BarrierReceive
  <1>3. CASE UNCHANGED <<queue, sendq, flush, since>>
    BY <1>3 DEF BarrierOK
  <1>4. CASE Crash
    <2>1. Len(queue') = 0 /\ Len(sendq') = 0
      BY <1>4 DEF Crash
    <2>2. 1..Len(queue') = {} /\ 1..Len(sendq') = {}
      BY <2>1
    <2> QED
      BY <2>2, Zenon DEF BarrierOK
  <1>5. CASE Worker
    BY <1>2, <1>3, <1>5, Zenon DEF Worker, WriteRecord, Unlink, ReadDir, Abandon
  <1>6. CASE UNCHANGED mvars
    BY <1>3, <1>6 DEF mvars
  <1> QED
    BY <1>1, <1>4, <1>5, <1>6 DEF Next

(* Flush waits for something: its barrier is in the channel or is to be    *)
(* sent to it, and senders are blocked at a full channel only.             *)
FlushPending ==
  /\ \A f \in Flusher : flush[f] = "waiting" =>
       \/ \E i \in 1..Len(queue) : queue[i] = Barrier(f)
       \/ \E i \in 1..Len(sendq) : sendq[i] = f
  /\ sendq # <<>> => Len(queue) = QueueDepth

(* No call, step of the worker or crash loses a barrier.                   *)
LEMMA PendingStep == TypeOK /\ FlushPending /\ [Next]_mvars => FlushPending'
  <1> SUFFICES ASSUME TypeOK, FlushPending, [Next]_mvars PROVE FlushPending'
    OBVIOUS
  <1> USE MappingAssumption
  <1>1. ASSUME NEW e \in Item, Enqueue(e) PROVE FlushPending'
    <2>1. CASE Len(queue) < QueueDepth
      <3>1. queue' = Append(queue, e) /\ UNCHANGED <<sendq, flush>>
        BY <1>1, <2>1 DEF Enqueue
      <3>2. Len(queue') = Len(queue) + 1 /\ \A i \in 1..Len(queue) : queue'[i] = queue[i]
        BY <3>1 DEF TypeOK
      <3>3. sendq = <<>>
        BY <2>1 DEF FlushPending, TypeOK
      <3> QED
        BY <3>1, <3>2, <3>3 DEF FlushPending, TypeOK
    <2>2. CASE ~(Len(queue) < QueueDepth)
      BY <1>1, <2>2 DEF Enqueue, FlushPending
    <2> QED
      BY <2>1, <2>2
  <1>2. ASSUME NEW f \in Flusher, Flush(f) PROVE FlushPending'
    <2>0. \A g \in Flusher \ {f} : flush'[g] = flush[g]
      BY <1>2 DEF Flush, TypeOK
    <2>1. CASE Len(queue) < QueueDepth
      <3>1. queue' = Append(queue, Barrier(f)) /\ sendq' = sendq
        BY <1>2, <2>1 DEF Flush
      <3> DEFINE b == Barrier(f)
      <3>2. b \in Item
        BY ItemTypes
      <3> HIDE DEF b
      <3>3. /\ Len(queue') = Len(queue) + 1 /\ queue'[Len(queue) + 1] = b
            /\ \A i \in 1..Len(queue) : queue'[i] = queue[i]
        BY <3>1, <3>2 DEF TypeOK, b
      <3>4. sendq = <<>>
        BY <2>1 DEF FlushPending, TypeOK
      <3>5. Len(queue) \in Nat /\ Len(queue) + 1 \in 1..Len(queue')
        BY <3>3 DEF TypeOK
      <3>6. \A g \in Flusher : flush'[g] = "waiting" =>
              \/ \E i \in 1..Len(queue') : queue'[i] = Barrier(g)
              \/ \E i \in 1..Len(sendq') : sendq'[i] = g
        <4>1. \E i \in 1..Len(queue') : queue'[i] = Barrier(f)
          BY <3>3, <3>5 DEF b
        <4>2. \A i \in 1..Len(queue) : i \in 1..Len(queue')
          BY <3>3, <3>5
        <4>3. ASSUME NEW g \in Flusher \ {f}, flush[g] = "waiting"
              PROVE  \/ \E i \in 1..Len(queue') : queue'[i] = Barrier(g)
                     \/ \E i \in 1..Len(sendq') : sendq'[i] = g
          BY <3>1, <3>3, <4>2, <4>3, Zenon DEF FlushPending
        <4> QED
          BY <2>0, <4>1, <4>3, Zenon
      <3> QED
        BY <3>1, <3>4, <3>6 DEF FlushPending
    <2>2. CASE ~(Len(queue) < QueueDepth)
      <3>1. queue' = queue /\ sendq' = Append(sendq, f)
        BY <1>2, <2>2 DEF Flush
      <3>2. /\ Len(sendq') = Len(sendq) + 1 /\ sendq'[Len(sendq) + 1] = f
            /\ \A i \in 1..Len(sendq) : sendq'[i] = sendq[i]
        BY <3>1 DEF TypeOK
      <3>3. Len(queue) = QueueDepth
        BY <2>2, LenBound DEF TypeOK
      <3> QED
        BY <2>0, <3>1, <3>2, <3>3 DEF FlushPending, TypeOK
    <2> QED
      BY <2>1, <2>2
  <1>3. CASE Receive
    <2>1. /\ queue \in Seq(Item) /\ Len(queue) \in Nat /\ Len(queue) >= 1
          /\ Tail(queue) \in Seq(Item) /\ Len(Tail(queue)) = Len(queue) - 1
          /\ \A i \in 1..Len(queue) - 1 : Tail(queue)[i] = queue[i + 1]
      BY <1>3 DEF Receive, TypeOK
    <2>2. ASSUME NEW g \in Flusher, flush'[g] = "waiting"
          PROVE  flush[g] = "waiting" /\ queue[1] # Barrier(g)
      BY <1>3, <2>1, <2>2 DEF Receive, TypeOK
    <2>3. ASSUME NEW g \in Flusher, flush'[g] = "waiting"
          PROVE  \/ \E i \in 1..Len(queue) - 1 : Tail(queue)[i] = Barrier(g)
                 \/ \E i \in 1..Len(sendq) : sendq[i] = g
      <3>1. CASE \E i \in 1..Len(queue) : queue[i] = Barrier(g)
        <4>1. PICK i \in 1..Len(queue) : queue[i] = Barrier(g)
          BY <3>1
        <4>2. i # 1
          BY <2>2, <2>3, <4>1
        <4>3. i - 1 \in 1..Len(queue) - 1 /\ (i - 1) + 1 = i
          BY <2>1, <4>2
        <4>4. Tail(queue)[i - 1] = Barrier(g)
          BY <2>1, <4>1, <4>3
        <4> QED
          BY <4>3, <4>4
      <3> QED
        BY <2>2, <2>3, <3>1 DEF FlushPending
    <2>4. CASE sendq = <<>>
      <3>1. queue' = Tail(queue) /\ sendq' = sendq
        BY <1>3, <2>4 DEF Receive, Dequeue
      <3> QED
        BY <2>1, <2>3, <2>4, <3>1 DEF FlushPending
    <2>5. CASE sendq # <<>>
      <3>1. /\ Head(sendq) = sendq[1] /\ sendq[1] \in Flusher /\ Len(sendq) \in Nat
            /\ Tail(sendq) \in Seq(Flusher) /\ Len(Tail(sendq)) = Len(sendq) - 1
            /\ \A i \in 1..Len(sendq) - 1 : Tail(sendq)[i] = sendq[i + 1]
        BY <2>5 DEF TypeOK
      <3> DEFINE b == Barrier(sendq[1])
      <3>2. b \in Item
        BY <3>1, ItemTypes
      <3>3. queue' = Append(Tail(queue), b) /\ sendq' = Tail(sendq)
        BY <1>3, <2>5, <3>1 DEF Receive, Dequeue
      <3> HIDE DEF b
      <3>4. /\ Len(queue') = Len(queue) /\ queue'[Len(queue)] = b
            /\ \A i \in 1..Len(queue) - 1 : queue'[i] = Tail(queue)[i]
        BY <2>1, <3>2, <3>3
      <3>5. ASSUME NEW g \in Flusher, flush'[g] = "waiting"
            PROVE  \/ \E i \in 1..Len(queue') : queue'[i] = Barrier(g)
                   \/ \E i \in 1..Len(sendq') : sendq'[i] = g
        <4>1. CASE \E i \in 1..Len(queue) - 1 : Tail(queue)[i] = Barrier(g)
          <5>1. PICK i \in 1..Len(queue) - 1 : Tail(queue)[i] = Barrier(g)
            BY <4>1
          <5>2. i \in 1..Len(queue') /\ queue'[i] = Tail(queue)[i]
            BY <2>1, <3>4
          <5> QED
            BY <5>1, <5>2
        <4>2. CASE \E i \in 1..Len(sendq) : sendq[i] = g
          <5>1. PICK i \in 1..Len(sendq) : sendq[i] = g
            BY <4>2
          <5>2. CASE i = 1
            <6>1. b = Barrier(g) /\ Len(queue) \in 1..Len(queue')
              BY <2>1, <3>4, <5>1, <5>2 DEF b
            <6> QED
              BY <3>4, <6>1
          <5>3. CASE i # 1
            <6>1. i - 1 \in 1..Len(sendq) - 1 /\ (i - 1) + 1 = i
              BY <3>1, <5>3
            <6> QED
              BY <3>1, <3>3, <5>1, <6>1
          <5> QED
            BY <5>2, <5>3
        <4> QED
          BY <2>3, <3>5, <4>1, <4>2
      <3> QED
        BY <2>5, <3>4, <3>5 DEF FlushPending
    <2> QED
      BY <2>4, <2>5
  <1>4. CASE UNCHANGED <<queue, sendq, flush>>
    BY <1>4 DEF FlushPending
  <1>5. CASE Worker \/ UNCHANGED mvars
    BY <1>3, <1>4, <1>5, Zenon DEF Worker, WriteRecord, Unlink, ReadDir, Abandon, mvars
  <1>6. CASE Crash
    BY <1>6 DEF Crash, FlushPending
  <1>7. CASE Calls
    <2>1. ASSUME NEW d \in Container, NEW ok \in BOOLEAN, Upsert(d, ok) PROVE FlushPending'
      BY <1>1, <2>1, ItemTypes DEF Upsert
    <2>2. ASSUME NEW d \in Container, Delete(d) PROVE FlushPending'
      BY <1>1, <2>2, ItemTypes DEF Delete
    <2>3. ASSUME NEW infos \in SUBSET Container, Synchronize(infos) PROVE FlushPending'
      BY <1>1, <2>3, ItemTypes DEF Synchronize
    <2> QED
      BY <1>2, <1>7, <2>1, <2>2, <2>3 DEF Calls
  <1> QED
    BY <1>5, <1>6, <1>7 DEF Next

(* No Flush waits for nothing (events.go, Flush): its barrier is queued,   *)
(* or is to be sent to a queue that is full, so that the worker has an     *)
(* item to receive and every receive brings the barrier nearer.  This is   *)
(* the half of FlushReturns that needs no fairness.                        *)
THEOREM NoFlushForgotten == Spec => []FlushPending
  <1>1. Init => TypeOK /\ WorkOK /\ FlushPending
    BY MappingAssumption DEF Init, TypeOK, WorkOK, Work, Idle, Doing, FlushPending
  <1> QED
    BY <1>1, TypeStep, PendingStep, PTL DEF Spec

(* A Flush that returns has seen every earlier call applied: its barrier   *)
(* is the head of the queue, and what is queued behind it is later.        *)
THEOREM FlushSeesAllApplied == Spec => FlushDrains
  <1>1. Init => TypeOK /\ WorkOK /\ LastCallWins /\ BarrierOK
    BY MappingAssumption
       DEF Init, TypeOK, WorkOK, Work, Idle, Doing, LastCallWins, Queued, QueuedIn,
           WillRemain, Undecided, BarrierOK
  <1>2. TypeOK /\ LastCallWins /\ BarrierOK /\ [Next]_mvars => [FlushedIsApplied]_mvars
    <2> SUFFICES ASSUME TypeOK, LastCallWins, BarrierOK, Receive,
                        NEW f \in Flusher, flush[f] = "waiting", flush'[f] = "idle",
                        NEW c \in Container \ (since[f] \cup lost)
                 PROVE  c \in dir' <=> c \in want'
      BY DEF FlushedIsApplied
    <2>1. /\ queue \in Seq(Item) /\ Len(queue) \in Nat /\ Len(queue) >= 1
          /\ queue[1] = Barrier(f) /\ 1 \in 1..Len(queue)
      BY DEF Receive, TypeOK
    <2>2. \A j \in 1..Len(queue) : c \notin Concerns(queue[j])
      <3>1. \A j \in 1..Len(queue) : j > 1 => Concerns(queue[j]) \subseteq since[f]
        BY <2>1 DEF BarrierOK
      <3>2. \A j \in 1..Len(queue) : j = 1 \/ j > 1
        BY <2>1
      <3> QED
        BY <2>1, <3>1, <3>2, ItemTypes
    <2>3. WillRemain(c) <=> c \in dir
      BY DEF Receive, WillRemain, Undecided
    <2>4. WillRemain(c) <=> c \in want
      BY <2>2 DEF LastCallWins, Queued, QueuedIn
    <2> QED
      BY <2>3, <2>4 DEF Receive
  <1> QED
    BY <1>1, <1>2, TypeStep, LastCallStep, BarrierStep, PTL DEF Spec, FlushDrains

-----------------------------------------------------------------------------
(* One step of the register of container c, in terms of the handoff.       *)
Same(c) == Shown(c)' = Shown(c) /\ Hand(c)' = Hand(c) /\ Channel(c)' = Channel(c)

Moves(c) ==
  \/ Same(c)
  \/ /\ \E v \in {"present", "absent", "other"} : Channel(c)' = Append(Channel(c), v)
     /\ Shown(c)' = Shown(c) /\ Hand(c)' = Hand(c)
  \/ /\ Hand(c) = "other" /\ Channel(c) # <<>> /\ Hand(c)' = Head(Channel(c))
     /\ \/ Channel(c)' = Tail(Channel(c))
        \/ Channel(c)' = Append(Tail(Channel(c)), "other")
     /\ Shown(c)' = Shown(c)
  \/ /\ Hand(c) # "other" /\ Hand(c)' = "other"
     /\ Shown(c)' = Hand(c) \/ Shown(c)' = Shown(c)
     /\ Channel(c)' = Channel(c)
  \/ Shown(c)' = Shown(c) /\ Hand(c)' = "other" /\ Channel(c)' = <<>>

(* It is enough that every register moves.                                 *)
LEMMA MovesRefine ==
  (\A c \in Container : Moves(c)) => R!Next
  BY DEF Moves, Same, R!Next, R!Keep, R!Accept, R!Take, R!ShowOrLose, R!LoseAll,
         R!Value, R!Other

-----------------------------------------------------------------------------
(* What the register's channel is after the queue changes.                 *)

(* What is appended to the queue is appended to every channel.             *)
LEMMA ChannelAppend ==
  ASSUME TypeOK, NEW c \in Container, NEW e \in Item, queue' = Append(queue, e)
  PROVE  Channel(c)' = Append(Channel(c), Says(e, c))
  <1>1. /\ Len(queue') = Len(queue) + 1 /\ Len(queue) \in Nat
        /\ queue'[Len(queue) + 1] = e
        /\ \A i \in 1..Len(queue) : queue'[i] = queue[i]
    BY DEF TypeOK
  <1>2. Channel(c)' = [i \in 1..(Len(queue) + 1) |-> Says(queue'[i], c)]
    BY <1>1 DEF Channel
  <1>3. Len(Channel(c)) = Len(queue)
    BY <1>1 DEF Channel
  <1>4. Append(Channel(c), Says(e, c)) =
          [i \in 1..(Len(queue) + 1) |->
             IF i = Len(queue) + 1 THEN Says(e, c) ELSE Channel(c)[i]]
    BY <1>1, <1>3 DEF Channel
  <1> QED
    BY <1>1, <1>2, <1>4 DEF Channel

(* What is taken off the queue is taken off every channel.                 *)
LEMMA ChannelTail ==
  ASSUME TypeOK, NEW c \in Container, queue # <<>>
  PROVE  /\ Channel(c) # <<>>
         /\ Head(Channel(c)) = Says(Head(queue), c)
         /\ Tail(Channel(c)) = [i \in 1..Len(Tail(queue)) |-> Says(Tail(queue)[i], c)]
  <1>1. /\ Len(queue) \in Nat \ {0}
        /\ Len(Tail(queue)) = Len(queue) - 1
        /\ Head(queue) = queue[1]
        /\ \A i \in 1..(Len(queue) - 1) : Tail(queue)[i] = queue[i + 1]
    BY DEF TypeOK
  <1>2. /\ Len(Channel(c)) = Len(queue)
        /\ \A i \in 1..Len(queue) : Channel(c)[i] = Says(queue[i], c)
    BY <1>1 DEF Channel
  <1>3. Channel(c) \in Seq({"present", "absent", "other"})
    BY <1>1 DEF Channel, Says
  <1>4. Channel(c) # <<>>
    BY <1>1, <1>2
  <1>5. Head(Channel(c)) = Says(Head(queue), c)
    BY <1>1, <1>2, <1>3, <1>4
  <1> DEFINE V == {"present", "absent", "other"}
             ct == [i \in 1..Len(Tail(queue)) |-> Says(Tail(queue)[i], c)]
  <1>6. /\ Tail(Channel(c)) \in Seq(V) /\ Len(Tail(Channel(c))) = Len(queue) - 1
        /\ \A i \in 1..(Len(queue) - 1) : Tail(Channel(c))[i] = Says(Tail(queue)[i], c)
    BY <1>1, <1>2, <1>3, <1>4
  <1>7. ct \in Seq(V) /\ Len(ct) = Len(queue) - 1
    BY <1>1 DEF Says
  <1>8. \A i \in 1..Len(Tail(Channel(c))) : Tail(Channel(c))[i] = ct[i]
    BY <1>1, <1>6
  <1>9. Tail(Channel(c)) = ct
    <2> HIDE DEF V, ct
    <2> QED BY <1>6, <1>7, <1>8
  <1> QED
    BY <1>4, <1>5, <1>9

(* Receiving an event takes the head of every register's channel.          *)
LEMMA ReceiveMoves ==
  ASSUME TypeOK, Receive, NEW c \in Container
  PROVE  Moves(c)
  <1> DEFINE e == Head(queue)
             t == Tail(queue)
             ct == [i \in 1..Len(t) |-> Says(t[i], c)]
  <1>1. queue \in Seq(Item) /\ queue # <<>> /\ e \in Item /\ t \in Seq(Item)
    BY DEF TypeOK, Receive
  <1>2. Shown(c)' = Shown(c) /\ Hand(c) = "other"
    BY DEF Receive, Shown, Hand, Undecided
  <1>3. Hand(c)' = Says(e, c)
    <2>1. work' = Start(e)
      BY DEF Receive
    <2> QED
      BY <1>1, <2>1, Zenon DEF Hand, Says, WillRemain, Undecided, Start, Idle, Doing,
                        Concerns, Leaves, Item
  <1>4. Channel(c) # <<>> /\ Head(Channel(c)) = Says(e, c) /\ Tail(Channel(c)) = ct
    BY <1>1, ChannelTail
  <1>5. Channel(c)' = ct \/ Channel(c)' = Append(ct, "other")
    <2>1. CASE sendq = <<>>
      <3>1. queue' = t
        BY <2>1 DEF Receive, Dequeue
      <3> QED
        BY <3>1 DEF Channel
    <2>2. CASE sendq # <<>>
      <3>1. Head(sendq) \in Flusher
        BY <2>2 DEF TypeOK
      <3> DEFINE b == Barrier(Head(sendq))
      <3>2. b \in Item /\ Says(b, c) = "other"
        BY <3>1, ItemTypes DEF Says
      <3>3. queue' = Append(t, b)
        BY <2>2 DEF Receive, Dequeue
      <3>4. /\ Len(queue') = Len(t) + 1 /\ Len(t) \in Nat
            /\ queue'[Len(t) + 1] = b
            /\ \A i \in 1..Len(t) : queue'[i] = t[i]
        <4> HIDE DEF b, t
        <4> QED BY <1>1, <3>2, <3>3
      <3>5. Channel(c)' = [i \in 1..(Len(t) + 1) |-> Says(queue'[i], c)]
        BY <3>4 DEF Channel
      <3>6. Len(ct) = Len(t)
        <4> HIDE DEF t
        <4> QED BY <3>4
      <3>7. Append(ct, "other") =
              [i \in 1..(Len(t) + 1) |-> IF i = Len(t) + 1 THEN "other" ELSE ct[i]]
        <4> HIDE DEF t
        <4> QED BY <3>4, <3>6
      <3> HIDE DEF b, t
      <3> QED
        BY <3>2, <3>4, <3>5, <3>7
    <2> QED
      BY <2>1, <2>2, Zenon
  <1> HIDE DEF e, t, ct
  <1> QED
    BY <1>2, <1>3, <1>4, <1>5 DEF Moves

-----------------------------------------------------------------------------
(* Every step of the handoff moves every register.                         *)
LEMMA RegistersStep == TypeOK /\ WorkOK /\ [Next]_mvars => \A c \in Container : Moves(c)
  <1> SUFFICES ASSUME TypeOK, WorkOK, [Next]_mvars, NEW c \in Container
               PROVE  Moves(c)
    OBVIOUS
  <1>1. ASSUME NEW e \in Item, Enqueue(e) PROVE Moves(c)
    <2>1. Shown(c)' = Shown(c) /\ Hand(c)' = Hand(c)
      BY <1>1 DEF Enqueue, Shown, Hand, WillRemain, Undecided
    <2>2. CASE queue' = queue
      BY <2>1, <2>2 DEF Channel, Moves, Same
    <2>3. CASE queue' = Append(queue, e)
      <3>1. Channel(c)' = Append(Channel(c), Says(e, c))
        BY <2>3, ChannelAppend
      <3>2. Says(e, c) \in {"present", "absent", "other"}
        BY DEF Says
      <3> QED
        BY <2>1, <3>1, <3>2 DEF Moves
    <2> QED
      BY <1>1, <2>2, <2>3 DEF Enqueue
  <1>2. ASSUME NEW f \in Flusher, Flush(f) PROVE Moves(c)
    <2>1. Shown(c)' = Shown(c) /\ Hand(c)' = Hand(c)
      BY <1>2 DEF Flush, Shown, Hand, WillRemain, Undecided
    <2>2. CASE queue' = queue
      BY <2>1, <2>2 DEF Channel, Moves, Same
    <2>3. CASE queue' = Append(queue, Barrier(f))
      <3>1. Barrier(f) \in Item /\ Says(Barrier(f), c) = "other"
        BY ItemTypes DEF Says
      <3>2. Channel(c)' = Append(Channel(c), "other")
        BY <2>3, <3>1, ChannelAppend
      <3> QED
        BY <2>1, <3>2 DEF Moves
    <2> QED
      BY <1>2, <2>2, <2>3 DEF Flush
  <1>3. CASE Receive
    BY <1>3, ReceiveMoves
  <1>4. ASSUME NEW d \in Container, WriteRecord(d) PROVE Moves(c)
    <2>1. Channel(c)' = Channel(c)
      BY <1>4 DEF WriteRecord, Channel
    <2>2. CASE c = d
      <3>1. Hand(c) = "present" /\ Hand(c)' = "other"
        BY <1>4, <2>2 DEF WriteRecord, AfterWrite, Hand, WillRemain, Undecided,
                          WorkOK, Idle, Doing
      <3>2. Shown(c)' = "present" \/ Shown(c)' = Shown(c)
        BY <1>4, <2>2 DEF WriteRecord, Shown
      <3> QED
        BY <2>1, <3>1, <3>2 DEF Moves
    <2>3. CASE c # d
      <3>1. Shown(c)' = Shown(c)
        BY <1>4, <2>3 DEF WriteRecord, Shown
      <3>2. Hand(c)' = Hand(c)
        BY <1>4, <2>3 DEF WriteRecord, AfterWrite, Hand, WillRemain, Undecided,
                          TypeOK, Work, Idle, Doing
      <3> QED
        BY <2>1, <3>1, <3>2 DEF Moves, Same
    <2> QED
      BY <2>2, <2>3
  <1>5. ASSUME NEW d \in Container, Unlink(d) PROVE Moves(c)
    <2>1. Channel(c)' = Channel(c)
      BY <1>5 DEF Unlink, Channel
    <2>2. CASE c = d
      <3>1. Hand(c) = "absent" /\ Hand(c)' = "other"
        BY <1>5, <2>2 DEF Unlink, AfterUnlink, Hand, WillRemain, Undecided, Idle, Doing
      <3>2. Shown(c)' = "absent" \/ Shown(c)' = Shown(c)
        BY <1>5, <2>2 DEF Unlink, Shown
      <3> QED
        BY <2>1, <3>1, <3>2 DEF Moves
    <2>3. CASE c # d
      <3>1. Shown(c)' = Shown(c)
        BY <1>5, <2>3 DEF Unlink, Shown
      <3>2. Hand(c)' = Hand(c)
        BY <1>5, <2>3 DEF Unlink, AfterUnlink, Hand, WillRemain, Undecided,
                          TypeOK, Work, Idle, Doing
      <3> QED
        BY <2>1, <3>1, <3>2 DEF Moves, Same
    <2> QED
      BY <2>2, <2>3
  <1>6. CASE ReadDir
    <2>1. Channel(c)' = Channel(c) /\ Shown(c)' = Shown(c)
      BY <1>6 DEF ReadDir, Channel, Shown
    <2>2. CASE Undecided(c) /\ c \notin dir
      <3>1. Hand(c) = "absent" /\ Shown(c) = "absent" /\ Hand(c)' = "other"
        BY <1>6, <2>2 DEF ReadDir, AfterUnlink, Hand, Shown, WillRemain, Undecided,
                          Idle, Doing
      <3> QED
        BY <2>1, <3>1 DEF Moves
    <2>3. CASE ~(Undecided(c) /\ c \notin dir)
      <3>1. Hand(c)' = Hand(c)
        BY <1>6, <2>3, Zenon DEF ReadDir, AfterUnlink, Hand, WillRemain, Undecided,
                          WorkOK, Idle, Doing
      <3> QED
        BY <2>1, <3>1 DEF Moves, Same
    <2> QED
      BY <2>2, <2>3
  <1>7. CASE Abandon
    <2>1. Channel(c)' = Channel(c) /\ Shown(c)' = Shown(c) /\ Hand(c)' = "other"
      BY <1>7, Zenon DEF Abandon, Channel, Shown, Hand, Undecided, Idle, Doing
    <2> QED
      BY <2>1 DEF Moves, Same
  <1>8. CASE Crash
    <2>1. Shown(c)' = Shown(c) /\ Hand(c)' = "other"
      BY <1>8 DEF Crash, Shown, Hand, Undecided, Idle, Doing
    <2>2. Channel(c)' = <<>>
      BY <1>8 DEF Crash, Channel
    <2> QED
      BY <2>1, <2>2 DEF Moves
  <1>9. CASE UNCHANGED mvars
    BY <1>9, Zenon DEF mvars, Moves, Same, Shown, Hand, Channel, WillRemain, Undecided
  <1>10. CASE Calls
    <2>1. ASSUME NEW d \in Container, NEW ok \in BOOLEAN, Upsert(d, ok) PROVE Moves(c)
      BY <1>1, <2>1, ItemTypes DEF Upsert
    <2>2. ASSUME NEW d \in Container, Delete(d) PROVE Moves(c)
      BY <1>1, <2>2, ItemTypes DEF Delete
    <2>3. ASSUME NEW infos \in SUBSET Container, Synchronize(infos) PROVE Moves(c)
      BY <1>1, <2>3, ItemTypes DEF Synchronize
    <2> QED
      BY <1>2, <1>10, <2>1, <2>2, <2>3 DEF Calls
  <1> QED
    BY <1>3, <1>4, <1>5, <1>6, <1>7, <1>8, <1>9, <1>10 DEF Next, Worker

(* The directory shows each container only values its calls asked for, in  *)
(* the order they asked: events.Processor with fsstore.Writer is a lossy   *)
(* first-in first-out register per container, through partly applied       *)
(* Replaces, failed file operations and crashes.                           *)
THEOREM HandoffImplementsRegisters == Spec => ImplementsRegisters
  <1>1. Init => R!Init
    <2>1. ASSUME Init, NEW c \in Container
          PROVE  Shown(c) = "absent" /\ Hand(c) = "other"
      BY <2>1 DEF Init, Shown, Hand, Undecided, Idle, Doing
    <2>2. ASSUME Init, NEW c \in Container
          PROVE  Channel(c) = <<>>
      BY <2>2 DEF Init, Channel
    <2> QED
      BY <2>1, <2>2 DEF R!Init, R!Other
  <1>2. Init => TypeOK /\ WorkOK
    BY MappingAssumption DEF Init, TypeOK, WorkOK, Work, Idle, Doing
  <1>3. TypeOK /\ WorkOK /\ [Next]_mvars => R!Next
    BY RegistersStep, MovesRefine
  <1> QED
    BY <1>1, <1>2, <1>3, TypeStep, PTL DEF Spec, ImplementsRegisters, R!Spec
=============================================================================
