------------------------------ MODULE Mapping ------------------------------
(***************************************************************************)
(* The container->pod mapping handoff, write side: events.Processor (a     *)
(* bounded queue drained by one goroutine) and fsstore.Writer (one file    *)
(* per container, in a host directory that outlives the process).          *)
(*                                                                         *)
(* The NRI callbacks call Upsert, Delete and Synchronize, which never      *)
(* block: an event that finds the queue full is dropped.  Flush does       *)
(* block.  The goroutine applies one event at a time; a Replace is many    *)
(* file operations, and the reader, a failing operation or a crash can     *)
(* come between any two of them.                                           *)
(*                                                                         *)
(* A file is its container id (writeRecord replaces it atomically by a     *)
(* rename), and the adapter's verdict is taken when the event is made: it  *)
(* only reads the objects the event captured.                              *)
(***************************************************************************)
EXTENDS Naturals, Sequences

CONSTANTS Container,   \* container ids
          QueueDepth,  \* events.defaultQueueDepth
          Flusher,     \* goroutines that call Flush
          NoFlusher,   \* item.done = nil
          DiskFaults   \* whether file operations can fail

ASSUME MappingAssumption ==
  QueueDepth \in Nat \ {0} /\ NoFlusher \notin Flusher /\ DiskFaults \in BOOLEAN

VARIABLES
  dir,    \* the containers with a file in the mapping directory
  queue,  \* Processor.queue
  work,   \* the event the run goroutine is applying
  sendq,  \* flushers blocked sending their barrier, first come first served
  flush,  \* whether each flusher is in Flush
  want,   \* history: the mapping the calls so far ask for
  lost,   \* history: containers whose last call was lost on the way to dir
  since   \* history: containers named by calls since each flusher called Flush

mvars == <<dir, queue, work, sendq, flush, want, lost, since>>

-----------------------------------------------------------------------------
(* Items of the queue: an event, or a flush barrier (done is set).         *)

Item == [kind  : {"upsert", "remove", "replace", "barrier"},
         infos : SUBSET Container,
         done  : Flusher \cup {NoFlusher}]

Event(k, infos) == [kind |-> k, infos |-> infos, done |-> NoFlusher]

Barrier(f) == [kind |-> "barrier", infos |-> {}, done |-> f]

(* The containers whose file an item decides, and the ones it leaves with  *)
(* a file.  An upsert the adapter dropped and an empty resync decide none. *)
Concerns(e) == IF e.kind = "replace" /\ e.infos # {} THEN Container ELSE e.infos

Leaves(e) == IF e.kind = "remove" THEN {} ELSE e.infos

QueuedIn(q, c) == \E i \in 1..Len(q) : c \in Concerns(q[i])

Queued(c) == QueuedIn(queue, c)

-----------------------------------------------------------------------------
(* The run goroutine.  write: files of todo still to write; list: about to *)
(* read the directory; unlink: files of todo still to unlink.              *)

Work == [phase   : {"idle", "write", "list", "unlink"},
         todo    : SUBSET Container,
         desired : SUBSET Container,
         prune   : BOOLEAN]

Doing(phase, todo, desired, prune) ==
  [phase |-> phase, todo |-> todo, desired |-> desired, prune |-> prune]

Idle == Doing("idle", {}, {}, FALSE)

(* Whether the work in hand has still to decide the file of c.             *)
Undecided(c) ==
  \/ work.phase \in {"write", "unlink"} /\ c \in work.todo
  \/ work.phase \in {"write", "list"} /\ work.prune /\ c \notin work.desired

(* Whether c has a file once the work in hand is done.                     *)
WillRemain(c) == IF Undecided(c) THEN work.phase = "write" /\ c \in work.todo
                 ELSE c \in dir

TypeOK ==
  /\ dir \in SUBSET Container
  /\ queue \in Seq(Item)
  /\ Len(queue) <= QueueDepth
  /\ work \in Work
  /\ sendq \in Seq(Flusher)
  /\ flush \in [Flusher -> {"idle", "waiting"}]
  /\ want \in SUBSET Container
  /\ lost \in SUBSET Container
  /\ since \in [Flusher -> SUBSET Container]

Init ==
  /\ dir = {}
  /\ queue = <<>>
  /\ work = Idle
  /\ sendq = <<>>
  /\ flush = [f \in Flusher |-> "idle"]
  /\ want = {}
  /\ lost = {}
  /\ since = [f \in Flusher |-> {}]

-----------------------------------------------------------------------------
(* The producer's side.                                                    *)

EnqueueMutant(e) ==
  /\ IF Len(queue) <= QueueDepth
     THEN queue' = Append(queue, e) /\ lost' = lost \ Concerns(e)
     ELSE queue' = queue /\ lost' = lost \cup Concerns(e)
  /\ want' = (want \ Concerns(e)) \cup (Concerns(e) \cap Leaves(e))
  /\ since' = [f \in Flusher |->
                IF flush[f] = "idle" THEN {} ELSE since[f] \cup Concerns(e)]
  /\ UNCHANGED <<dir, work, sendq, flush>>

Enqueue(e) ==
  /\ IF Len(queue) < QueueDepth
     THEN queue' = Append(queue, e) /\ lost' = lost \ Concerns(e)
     ELSE queue' = queue /\ lost' = lost \cup Concerns(e)
  /\ want' = (want \ Concerns(e)) \cup (Concerns(e) \cap Leaves(e))
  /\ since' = [f \in Flusher |->
                IF flush[f] = "idle" THEN {} ELSE since[f] \cup Concerns(e)]
  /\ UNCHANGED <<dir, work, sendq, flush>>

Upsert(c, ok) == Enqueue(Event("upsert", IF ok THEN {c} ELSE {}))

Delete(c) == Enqueue(Event("remove", {c}))

Synchronize(infos) == Enqueue(Event("replace", infos))

FlushOvertakesMutant(f) ==
  /\ flush[f] = "idle"
  /\ queue' = <<Barrier(f)>> \o queue
  /\ flush' = [flush EXCEPT ![f] = "waiting"]
  /\ UNCHANGED <<dir, work, sendq, want, lost, since>>

FlushDropsMutant(f) ==
  /\ flush[f] = "idle"
  /\ queue' = IF Len(queue) < QueueDepth THEN Append(queue, Barrier(f)) ELSE queue
  /\ flush' = [flush EXCEPT ![f] = "waiting"]
  /\ UNCHANGED <<dir, work, sendq, want, lost, since>>

(* Flush sends its barrier when there is room and waits to send otherwise. *)
Flush(f) ==
  /\ flush[f] = "idle"
  /\ IF Len(queue) < QueueDepth
     THEN queue' = Append(queue, Barrier(f)) /\ sendq' = sendq
     ELSE queue' = queue /\ sendq' = Append(sendq, f)
  /\ flush' = [flush EXCEPT ![f] = "waiting"]
  /\ UNCHANGED <<dir, work, want, lost, since>>

-----------------------------------------------------------------------------
(* The worker's side.                                                      *)

(* Receiving from a full channel with senders blocked on it puts the item  *)
(* of the first of them at the tail in the same step.                      *)
Dequeue ==
  IF sendq = <<>>
  THEN queue' = Tail(queue) /\ sendq' = sendq
  ELSE queue' = Append(Tail(queue), Barrier(Head(sendq))) /\ sendq' = Tail(sendq)

StartNoPruneMutant(e) ==
  IF e.infos = {} THEN Idle
  ELSE IF e.kind = "remove" THEN Doing("unlink", e.infos, {}, FALSE)
  ELSE Doing("write", e.infos, e.infos, FALSE)

StartEmptyMutant(e) ==
  IF e.kind = "replace" /\ e.infos = {} THEN Doing("list", {}, {}, TRUE)
  ELSE IF e.infos = {} THEN Idle
  ELSE IF e.kind = "remove" THEN Doing("unlink", e.infos, {}, FALSE)
  ELSE Doing("write", e.infos, e.infos, e.kind = "replace")

(* run and apply up to the first file operation.  A barrier, an upsert the *)
(* adapter dropped and an empty resync need none.                          *)
Start(e) ==
  IF e.infos = {} THEN Idle
  ELSE IF e.kind = "remove" THEN Doing("unlink", e.infos, {}, FALSE)
  ELSE Doing("write", e.infos, e.infos, e.kind = "replace")

Receive ==
  /\ work.phase = "idle"
  /\ queue # <<>>
  /\ work' = Start(Head(queue))
  /\ flush' = [f \in Flusher |-> IF Head(queue) = Barrier(f) THEN "idle" ELSE flush[f]]
  /\ since' = [f \in Flusher |-> IF Head(queue) = Barrier(f) THEN {} ELSE since[f]]
  /\ Dequeue
  /\ UNCHANGED <<dir, want, lost>>

(* A failed operation on c is only logged.  It is lost unless a later      *)
(* event about c is queued already.                                        *)
Fail(C) == DiskFaults /\ lost' = lost \cup {c \in C : ~Queued(c)}

AfterWrite(todo) ==
  IF todo # {} THEN Doing("write", todo, work.desired, work.prune)
  ELSE IF work.prune THEN Doing("list", {}, work.desired, TRUE)
  ELSE Idle

WriteRecord(c) ==
  /\ work.phase = "write"
  /\ c \in work.todo
  /\ work' = AfterWrite(work.todo \ {c})
  /\ \/ dir' = dir \cup {c} /\ lost' = lost
     \/ dir' = dir /\ Fail({c})
  /\ UNCHANGED <<queue, sendq, flush, want, since>>

AfterUnlink(todo) ==
  IF todo # {} THEN Doing("unlink", todo, work.desired, work.prune) ELSE Idle

ReadDirMutant ==
  /\ work.phase = "list"
  /\ work' = AfterUnlink(dir)
  /\ UNCHANGED <<dir, queue, sendq, flush, want, lost, since>>

ReadDir ==
  /\ work.phase = "list"
  /\ work' = AfterUnlink(dir \ work.desired)
  /\ UNCHANGED <<dir, queue, sendq, flush, want, lost, since>>

Unlink(c) ==
  /\ work.phase = "unlink"
  /\ c \in work.todo
  /\ work' = AfterUnlink(work.todo \ {c})
  /\ \/ dir' = dir \ {c} /\ lost' = lost
     \/ dir' = dir /\ Fail({c})
  /\ UNCHANGED <<queue, sendq, flush, want, since>>

(* The event is given up: Replace cannot make or list the directory, or    *)
(* safeApply recovers a panic.                                             *)
Abandon ==
  /\ work.phase # "idle"
  /\ work' = Idle
  /\ Fail({c \in Container : Undecided(c)})
  /\ UNCHANGED <<dir, queue, sendq, flush, want, since>>

Worker ==
  \/ Receive
  \/ \E c \in Container : WriteRecord(c) \/ Unlink(c)
  \/ ReadDir
  \/ Abandon

-----------------------------------------------------------------------------
(* The process dies; the directory stays, what was queued does not.        *)
Crash ==
  /\ queue' = <<>>
  /\ work' = Idle
  /\ sendq' = <<>>
  /\ flush' = [f \in Flusher |-> "idle"]
  /\ lost' = lost \cup {c \in Container : Queued(c) \/ Undecided(c)}
  /\ since' = [f \in Flusher |-> {}]
  /\ UNCHANGED <<dir, want>>

Calls ==
  \/ \E c \in Container : Delete(c) \/ \E ok \in BOOLEAN : Upsert(c, ok)
  \/ \E infos \in SUBSET Container : Synchronize(infos)
  \/ \E f \in Flusher : Flush(f)

Next == Calls \/ Worker \/ Crash

Spec == Init /\ [][Next]_mvars

FairSpec == Spec /\ WF_mvars(Worker)

-----------------------------------------------------------------------------
Quiescent == queue = <<>> /\ work.phase = "idle"

(* The last item of q that concerns c leaves it as w has it.               *)
LastLeaves(q, c, w) ==
  \E i \in 1..Len(q) :
    /\ c \in Concerns(q[i])
    /\ \A j \in 1..Len(q) : j > i => c \notin Concerns(q[j])
    /\ c \in Leaves(q[i]) <=> c \in w

(* At every moment, pending work included, the last call about a container *)
(* wins: the queue, the event being applied and the directory together     *)
(* hold what the calls asked for, for every container that is not lost.    *)
LastCallWins ==
  \A c \in Container \ lost :
    IF Queued(c) THEN LastLeaves(queue, c, want)
    ELSE WillRemain(c) <=> c \in want

(* When nothing is queued or being applied, the directory is exactly what  *)
(* the calls asked for, call after call in their order, but for containers *)
(* whose last call was dropped at a full queue (enqueue), failed on disk   *)
(* (writeRecord, os.Remove, Replace's early returns) or was still pending  *)
(* when the process died.  A later call heals such a container.            *)
Converged ==
  Quiescent => \A c \in Container \ lost : c \in dir <=> c \in want

KeepsDesired ==
  \A c \in dir : c \notin dir' => work.phase = "unlink" /\ c \notin work.desired

(* A file only disappears for an event that says its container is gone: a  *)
(* Replace never passes through a directory without a container it keeps,  *)
(* so the metrics reader sees no gap (Writer.Replace writes first and      *)
(* unlinks only what the snapshot lacks; an empty resync unlinks nothing). *)
NoGap == [][KeepsDesired]_mvars

FlushedIsApplied ==
  \A f \in Flusher :
    Receive /\ flush[f] = "waiting" /\ flush'[f] = "idle" =>
      \A c \in Container \ (since[f] \cup lost) : c \in dir' <=> c \in want'

(* When Flush returns, the effect of every call made before it is on disk, *)
(* so a graceful shutdown loses none of them (Processor.Flush: "blocks     *)
(* until every event queued so far has been applied").                     *)
FlushDrains == [][FlushedIsApplied]_mvars

(* The handoff as a register per container: what a reader sees, the value  *)
(* the event in hand has still to give it, and what the queue will.        *)
Shown(c) == IF c \in dir THEN "present" ELSE "absent"

Hand(c) == IF ~Undecided(c) THEN "other"
           ELSE IF WillRemain(c) THEN "present" ELSE "absent"

Says(e, c) == IF c \notin Concerns(e) THEN "other"
              ELSE IF c \in Leaves(e) THEN "present" ELSE "absent"

Channel(c) == [i \in 1..Len(queue) |-> Says(queue[i], c)]

R == INSTANCE Registers WITH
       shown   <- [c \in Container |-> Shown(c)],
       hand    <- [c \in Container |-> Hand(c)],
       channel <- [c \in Container |-> Channel(c)]

(* The queue, the worker and the directory implement a lossy first-in      *)
(* first-out register per container: a reader sees a container's file      *)
(* change only to values the calls asked for, in the order they asked,     *)
(* even while a Replace is half applied or after a crash                   *)
(* (events.Processor.run applies one event at a time).                     *)
ImplementsRegisters == R!Spec

(* Flush always returns, even when it finds the queue full: the worker     *)
(* never waits on anything but the queue.                                  *)
FlushReturns ==
  \A f \in Flusher : flush[f] # "idle" ~> flush[f] = "idle"
=============================================================================
