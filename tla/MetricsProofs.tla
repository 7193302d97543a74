--------------------------- MODULE MetricsProofs ---------------------------
(***************************************************************************)
(* Proofs about metricsd for any containers, pods, GPUs, numbering of the  *)
(* GPUs, processes, concurrent scrapes and failures.                       *)
(***************************************************************************)
EXTENDS Metrics, FiniteSetTheorems, TLAPS

-----------------------------------------------------------------------------
(* The inductive invariant.                                                *)

(* r may be counted under k, now and for as long as r is remembered.       *)
Sound(k, r) ==
  k.uuid /\ k.index = r.gpu /\ (Ran(r, k.pod) \/ r.pid \in reused)

SoundMetrics(metrics) ==
  \A k \in DOMAIN metrics : \A r \in metrics[k] : Sound(k, r)

(* Every copy of the metrics on its way from the engine to the exporter.   *)
SoundInv ==
  /\ SoundMetrics(published.metrics)
  /\ \A s \in scrapes : SoundMetrics(s.metrics)
  /\ SoundMetrics(gauges)

(* A process of a container that uses a GPU uses one it was given.         *)
Placed(r) == r.owner \in Container /\ r.gpu \in Gpu => r.gpu \in Given(r.owner)

(* Processes keep to the GPUs of their container, and no two that run have *)
(* the same pid.                                                           *)
NodeInv ==
  /\ dir \subseteq Container
  /\ \A r \in up : r.pid \in used /\ Placed(r)
  /\ \A q, r \in up : q.pid = r.pid => q = r

(* A process the last poll listed runs on, has ended, or has lost its pid  *)
(* to another; a GPU whose minor number is known has a known UUID.         *)
EngineInv ==
  /\ \A q \in polled.procs :
       /\ q.gpu \in Gpu /\ q.pid \in used /\ Placed(q)
       /\ \A r \in up : r.pid = q.pid => r = q \/ q.pid \in reused
  /\ polled.minors \subseteq polled.uuids
  /\ entries \subseteq Container /\ mapping \subseteq Container
  /\ minors \subseteq uuids

IInv == NodeInv /\ EngineInv /\ SoundInv

-----------------------------------------------------------------------------
(* The join.                                                               *)

(* A process is joined with the container that owns it, or that owns the   *)
(* process that took its pid.                                              *)
LEMMA UsedSound ==
  ASSUME EngineInv, NEW u \in Used
  PROVE  /\ u[1] \in polled.procs /\ u[2] \in mapping
         /\ u[3] = [pod |-> PodOf[u[2]], uuid |-> TRUE, index |-> u[1].gpu]
         /\ u[1].owner = u[2] \/ u[1].pid \in reused
  <1>1. PICK q \in polled.procs : \E c \in ResolveProcess(q.pid) :
               u = <<q, c, [pod |-> PodOf[c], uuid |-> TRUE, index |-> q.gpu]>>
    BY DEF Used
  <1>2. PICK c \in ResolveProcess(q.pid) : u = <<q, c, [pod |-> PodOf[c], uuid |-> TRUE, index |-> q.gpu]>>
    BY <1>1, Zenon
  <1>3. c \in mapping /\ c \in CgroupPaths(q.pid)
    BY DEF ResolveProcess, CgroupPathMatchesContainer, CgroupPathContains, CgroupPathContainsContainerID
  <1>4. PICK r \in up : r.pid = q.pid /\ r.owner = c
    BY <1>3 DEF CgroupPaths
  <1>5. q.owner = c \/ q.pid \in reused
    BY <1>4 DEF EngineInv
  <1> QED
    BY <1>2, <1>3, <1>5

(* So the metrics of a collection are sound.                               *)
LEMMA EnrichSound ==
  ASSUME EngineInv, NEW ids, NEW numbers
  PROVE  SoundMetrics(Enrich(ids, numbers))
  <1> SUFFICES ASSUME NEW k \in DOMAIN Enrich(ids, numbers), NEW r \in Enrich(ids, numbers)[k]
               PROVE  Sound(k, r)
    BY DEF SoundMetrics
  <1>1. r \in {u[1] : u \in {v \in Used : v[3] = k}}
    BY DEF Enrich
  <1>2. PICK u \in Used : u[1] = r /\ u[3] = k
    BY <1>1
  <1>3. /\ u[2] \in Container
        /\ k = [pod |-> PodOf[u[2]], uuid |-> TRUE, index |-> r.gpu]
        /\ r.owner = u[2] \/ r.pid \in reused
    BY <1>2, UsedSound, Zenon DEF EngineInv
  <1>4. k.uuid = TRUE /\ k.pod = PodOf[u[2]] /\ k.index = r.gpu
    BY <1>3
  <1> QED
    BY <1>3, <1>4 DEF Sound, Ran

(* The idle entries of a container under a key whose number is known.      *)
LEMMA IdleKnown ==
  ASSUME EngineInv, NEW ids, NEW numbers, numbers \subseteq ids, NEW k, k.index \in numbers, NEW c \in mapping
  PROVE  (<<c, k>> \in Idle(ids, numbers)) <=>
           /\ k = [pod |-> PodOf[c], uuid |-> TRUE, index |-> k.index]
           /\ k.index \in Given(c)
  <1>1. (<<c, k>> \in Idle(ids, numbers)) <=> \E d \in Devices[c] : k \in IdlePodGPUKey(c, d, ids, numbers)
    BY DEF Idle
  <1>2. ASSUME NEW d \in Devices[c]
        PROVE  k \in IdlePodGPUKey(c, d, ids, numbers) <=>
                 /\ k = [pod |-> PodOf[c], uuid |-> TRUE, index |-> k.index]
                 /\ k.index = IndexOf[Minor(d)]
    <2>1. k \in IdlePodGPUKey(c, d, ids, numbers) <=>
            \E g \in {IndexOf[Minor(d)]} \cap numbers : k = [pod |-> PodOf[c], uuid |-> g \in ids, index |-> g]
      BY DEF IdlePodGPUKey
    <2>2. \A g \in numbers : [pod |-> PodOf[c], uuid |-> g \in ids, index |-> g] =
                             [pod |-> PodOf[c], uuid |-> TRUE, index |-> g]
      <3> SUFFICES ASSUME NEW g \in numbers
                   PROVE  [pod |-> PodOf[c], uuid |-> g \in ids, index |-> g] =
                          [pod |-> PodOf[c], uuid |-> TRUE, index |-> g]
        OBVIOUS
      <3>1. (g \in ids) = TRUE
        OBVIOUS
      <3> QED
        BY <3>1, Zenon
    <2>3. ASSUME k \in IdlePodGPUKey(c, d, ids, numbers)
          PROVE  /\ k = [pod |-> PodOf[c], uuid |-> TRUE, index |-> k.index]
                 /\ k.index = IndexOf[Minor(d)]
      <3>1. PICK g \in {IndexOf[Minor(d)]} \cap numbers : k = [pod |-> PodOf[c], uuid |-> g \in ids, index |-> g]
        BY <2>1, <2>3
      <3>2. k = [pod |-> PodOf[c], uuid |-> TRUE, index |-> g]
        BY <2>2, <3>1
      <3>3. k.index = g
        BY <3>2
      <3>4. k = [pod |-> PodOf[c], uuid |-> TRUE, index |-> k.index]
        BY <3>2, <3>3, Zenon
      <3> QED
        BY <3>1, <3>3, <3>4
    <2>4. ASSUME k = [pod |-> PodOf[c], uuid |-> TRUE, index |-> k.index], k.index = IndexOf[Minor(d)]
          PROVE  k \in IdlePodGPUKey(c, d, ids, numbers)
      <3>1. k = [pod |-> PodOf[c], uuid |-> k.index \in ids, index |-> k.index]
        BY <2>2, <2>4, Zenon
      <3>2. k.index \in {IndexOf[Minor(d)]} \cap numbers
        BY <2>4
      <3> QED
        BY <2>1, <3>1, <3>2, Zenon
    <2> QED
      BY <2>3, <2>4
  <1> QED
    BY <1>1, <1>2 DEF Given

(* The containers whose request counts under a key of the join.            *)
Counted(k, ids, numbers) ==
  {u[2] : u \in {v \in Used : v[3] = k}} \cup {i[1] : i \in {j \in Idle(ids, numbers) : j[2] = k}}

LEMMA FractionOfKey ==
  ASSUME NodeInv, EngineInv, NEW ids, NEW numbers, numbers \subseteq ids,
         NEW k \in DOMAIN Enrich(ids, numbers), k.index \in numbers,
         \A u \in Used : u[3] = k => u[1].pid \notin reused
  PROVE  Counted(k, ids, numbers) = {c \in mapping : PodOf[c] = k.pod /\ k.index \in Given(c)}
  <1>1. \/ \E u \in Used : u[3] = k
        \/ \E i \in Idle(ids, numbers) : i[2] = k
    BY DEF Enrich
  <1>2. \A i \in Idle(ids, numbers) : i[1] \in mapping /\ i = <<i[1], i[2]>>
    BY DEF Idle
  <1>3. k = [pod |-> k.pod, uuid |-> TRUE, index |-> k.index]
    <2>1. CASE \E u \in Used : u[3] = k
      <3>1. PICK u \in Used : u[3] = k
        BY <2>1
      <3>2. k = [pod |-> PodOf[u[2]], uuid |-> TRUE, index |-> u[1].gpu]
        BY <3>1, UsedSound, Zenon
      <3>3. k.pod = PodOf[u[2]] /\ k.index = u[1].gpu
        BY <3>2
      <3> QED
        BY <3>2, <3>3, Zenon
    <2>2. CASE \E i \in Idle(ids, numbers) : i[2] = k
      <3>1. PICK i \in Idle(ids, numbers) : i[2] = k
        BY <2>2
      <3>2. k = [pod |-> PodOf[i[1]], uuid |-> TRUE, index |-> k.index]
        BY <1>2, <3>1, IdleKnown
      <3>3. k.pod = PodOf[i[1]]
        BY <3>2
      <3> QED
        BY <3>2, <3>3, Zenon
    <2> QED
      BY <1>1, <2>1, <2>2
  <1>4. ASSUME NEW c \in Counted(k, ids, numbers)
        PROVE  c \in mapping /\ PodOf[c] = k.pod /\ k.index \in Given(c)
    <2>1. CASE \E u \in Used : u[3] = k /\ u[2] = c
      <3>1. PICK u \in Used : u[3] = k /\ u[2] = c
        BY <2>1
      <3>2. /\ u[1] \in polled.procs /\ c \in mapping /\ u[1].owner = c
            /\ k = [pod |-> PodOf[c], uuid |-> TRUE, index |-> u[1].gpu]
        BY <3>1, UsedSound, Zenon
      <3>3. k.pod = PodOf[c] /\ k.index = u[1].gpu
        BY <3>2
      <3>4. u[1].gpu \in Given(c)
        BY <3>2 DEF EngineInv, Placed
      <3> QED
        BY <3>2, <3>3, <3>4
    <2>2. CASE \E i \in Idle(ids, numbers) : i[2] = k /\ i[1] = c
      <3>1. PICK i \in Idle(ids, numbers) : i[2] = k /\ i[1] = c
        BY <2>2
      <3>2. /\ c \in mapping /\ k.index \in Given(c)
            /\ k = [pod |-> PodOf[c], uuid |-> TRUE, index |-> k.index]
        BY <1>2, <3>1, IdleKnown
      <3>3. k.pod = PodOf[c]
        BY <3>2
      <3> QED
        BY <3>2, <3>3
    <2> QED
      BY <2>1, <2>2 DEF Counted
  <1>5. ASSUME NEW c \in mapping, PodOf[c] = k.pod, k.index \in Given(c)
        PROVE  c \in Counted(k, ids, numbers)
    <2>1. k = [pod |-> PodOf[c], uuid |-> TRUE, index |-> k.index]
      BY <1>3, <1>5, Zenon
    <2>2. <<c, k>> \in Idle(ids, numbers)
      BY <1>5, <2>1, IdleKnown
    <2>3. <<c, k>>[1] = c /\ <<c, k>>[2] = k
      OBVIOUS
    <2> QED
      BY <2>2, <2>3 DEF Counted
  <1> QED
    BY <1>4, <1>5

-----------------------------------------------------------------------------
(* The steps.                                                              *)

(* The node's containers and records are those of the constants.           *)
LEMMA NodeMovesType ==
  ASSUME NodeMoves, dir \subseteq Container
  PROVE  dir' \subseteq Container /\ up' \subseteq up
  BY DEF NodeMoves, W!Next, W!Step, W!Start, W!Stop, W!Write, W!Unlink

(* Processes start on a GPU of their container, with a pid of their own.   *)
LEMMA NodeStep == NodeInv /\ [Next]_vars => NodeInv'
  <1> SUFFICES ASSUME NodeInv, [Next]_vars PROVE NodeInv'
    OBVIOUS
  <1> USE DEF NodeInv, Placed
  <1>1. UNCHANGED node => NodeInv'
    BY DEF node
  <1>2. CASE NodeMoves
    BY <1>2, NodeMovesType DEF NodeMoves
  <1>3. ASSUME NEW p \in Pid, NEW c \in Container \cup Host, NEW g \in Gpu \cup {NoGpu}, StartProcess(p, c, g)
        PROVE  NodeInv'
    <2>1. PICK r : r = [pid |-> p, owner |-> c, gpu |-> g]
      BY Zenon
    <2>2. up' = up \cup {r} /\ r.pid = p /\ r.owner = c /\ r.gpu = g /\ \A q \in up : q.pid # p
      BY <1>3, <2>1 DEF StartProcess
    <2>3. c \in Container /\ g \in Gpu => g \in Given(c)
      BY <1>3, MetricsAssumption DEF StartProcess
    <2>4. used \subseteq used' /\ p \in used' /\ dir' = dir
      BY <1>3 DEF StartProcess
    <2> QED
      BY <2>2, <2>3, <2>4
  <1>4. ASSUME NEW r \in up, ExitProcess(r) PROVE NodeInv'
    BY <1>4 DEF ExitProcess
  <1>5. CASE Poll \/ PollFails \/ Collect \/ Fetch \/ Restart \/ UNCHANGED vars
    BY <1>1, <1>5 DEF Poll, PollFails, Collect, ScanDir, ReadFiles, Join, Fetch, Restart, vars
  <1>6. CASE \E s \in scrapes : Observe(s)
    BY <1>1, <1>6 DEF Observe
  <1> QED
    BY <1>2, <1>3, <1>4, <1>5, <1>6 DEF Next, Processes

(* What the engine has read is of containers; a process it has read of is  *)
(* the one with that pid unless the pid was given again; and a GPU number  *)
(* it knows comes with a UUID it knows.                                    *)
LEMMA EngineStep == NodeInv /\ EngineInv /\ [Next]_vars => EngineInv'
  <1> SUFFICES ASSUME NodeInv, EngineInv, [Next]_vars PROVE EngineInv'
    OBVIOUS
  <1> USE DEF EngineInv
  <1>1. ASSUME UNCHANGED <<polled, engine>>, up' \subseteq up, used \subseteq used', reused \subseteq reused'
        PROVE  EngineInv'
    BY <1>1 DEF engine, Placed
  <1>2. CASE NodeMoves
    BY <1>1, <1>2, NodeMovesType DEF NodeMoves, NodeInv
  <1>3. ASSUME NEW p \in Pid, NEW c \in Container \cup Host, NEW g \in Gpu \cup {NoGpu}, StartProcess(p, c, g)
        PROVE  EngineInv'
    <2>1. PICK r : r = [pid |-> p, owner |-> c, gpu |-> g]
      BY Zenon
    <2>2. up' = up \cup {r} /\ r.pid = p /\ UNCHANGED <<polled, engine>>
      BY <1>3, <2>1 DEF StartProcess
    <2>3. used \subseteq used' /\ reused \subseteq reused' /\ (p \in used => p \in reused')
      BY <1>3 DEF StartProcess
    <2> QED
      BY <2>2, <2>3 DEF engine, Placed
  <1>4. CASE (\E r \in up : ExitProcess(r)) \/ Fetch \/ (\E s \in scrapes : Observe(s)) \/ UNCHANGED vars
    BY <1>1, <1>4, Zenon DEF ExitProcess, Fetch, Observe, vars, node
  <1>5. ASSUME NEW failed
        PROVE  /\ \A q \in Answer(failed).procs : q \in up /\ q.gpu \in Gpu
               /\ Answer(failed).minors \subseteq Answer(failed).uuids
    BY DEF Answer, Answering
  <1>6. CASE Poll \/ PollFails
    <2>1. UNCHANGED <<up, used, reused, entries, mapping, minors, uuids>>
      BY <1>6 DEF Poll, PollFails, node, engine
    <2>2. polled' = polled \/ \E failed : polled' = Answer(failed)
      BY <1>6 DEF Poll, PollFails
    <2>3. CASE polled' = polled
      BY <2>1, <2>3 DEF Placed
    <2>4. CASE \E failed : polled' = Answer(failed)
      <3>1. /\ \A q \in polled'.procs : q \in up /\ q.gpu \in Gpu
            /\ polled'.minors \subseteq polled'.uuids
        BY <1>5, <2>4
      <3> QED
        BY <2>1, <3>1 DEF NodeInv, Placed
    <2> QED
      BY <2>2, <2>3, <2>4
  <1>7. CASE ScanDir \/ ReadFiles
    <2>1. UNCHANGED <<node, polled, minors, uuids>>
      BY <1>7 DEF ScanDir, ReadFiles
    <2>2. entries' \subseteq Container /\ mapping' \subseteq Container
      BY <1>7 DEF ScanDir, ReadFiles, SetSnapshot, NodeInv
    <2> QED
      BY <2>1, <2>2 DEF node, Placed
  <1>8. CASE Join
    BY <1>8 DEF Join, SetSnapshot, node, Placed
  <1>9. CASE Restart
    BY <1>9 DEF Restart, SetSnapshot, NoDevices
  <1> QED
    BY <1>2, <1>3, <1>4, <1>6, <1>7, <1>8, <1>9 DEF Next, Processes, Collect

(* What is reused stays reused.                                            *)
LEMMA SoundKept ==
  ASSUME [Next]_vars, NEW k, NEW r, Sound(k, r)
  PROVE  Sound(k, r)'
  <1>1. reused \subseteq reused'
    <2>1. CASE UNCHANGED reused
      BY <2>1
    <2>2. CASE Processes
      BY <2>2 DEF Processes, StartProcess, ExitProcess
    <2>3. CASE NodeMoves \/ Poll \/ PollFails \/ Collect \/ Fetch \/ Restart \/ UNCHANGED vars
      BY <2>1, <2>3, Zenon DEF NodeMoves, Poll, PollFails, Collect, ScanDir, ReadFiles, Join, Fetch, Restart, vars, node
    <2>4. CASE \E s \in scrapes : Observe(s)
      BY <2>1, <2>4, Zenon DEF Observe, node
    <2> QED
      BY <2>2, <2>3, <2>4 DEF Next
  <1> QED
    BY <1>1 DEF Sound, Ran

(* No step between the engine and the exporter misplaces a process.        *)
LEMMA SoundStep == NodeInv /\ EngineInv /\ SoundInv /\ [Next]_vars => SoundInv'
  <1> SUFFICES ASSUME NodeInv, EngineInv, SoundInv, [Next]_vars PROVE SoundInv'
    OBVIOUS
  <1>0. \A k, r : Sound(k, r) => Sound(k, r)'
    BY SoundKept
  <1>1. /\ published' = published => SoundMetrics(published.metrics)'
        /\ scrapes' \subseteq scrapes => \A s \in scrapes' : SoundMetrics(s.metrics)'
        /\ gauges' = gauges => SoundMetrics(gauges)'
    BY <1>0 DEF SoundInv, SoundMetrics
  <1>2. DOMAIN Empty = {}
    BY DEF Empty
  <1>3. CASE UNCHANGED <<published, exporter>>
    BY <1>1, <1>3 DEF SoundInv, exporter
  <1>4. CASE NodeMoves \/ Processes \/ UNCHANGED vars
    BY <1>3, <1>4 DEF NodeMoves, Processes, StartProcess, ExitProcess, vars, engine
  <1>5. CASE Poll \/ PollFails
    BY <1>3, <1>5 DEF Poll, PollFails, engine
  <1>6. CASE ScanDir \/ ReadFiles
    <2>1. UNCHANGED exporter /\ (published' = published \/ published'.metrics = Empty)
      BY <1>6 DEF ScanDir, ReadFiles, SetSnapshot
    <2>2. SoundMetrics(published.metrics)'
      BY <1>1, <1>2, <2>1 DEF SoundMetrics
    <2> QED
      BY <1>1, <2>1, <2>2 DEF SoundInv, exporter
  <1>7. CASE Join
    <2>1. UNCHANGED exporter /\ published'.metrics = Enrich(uuids', minors')
      BY <1>7 DEF Join, SetSnapshot
    <2>2. SoundMetrics(Enrich(uuids', minors'))
      BY EnrichSound
    <2>3. SoundMetrics(published.metrics)'
      BY <1>0, <2>1, <2>2 DEF SoundMetrics
    <2> QED
      BY <1>1, <2>1, <2>3 DEF SoundInv, exporter
  <1>8. CASE Fetch
    <2>1. published' = published /\ gauges' = gauges /\ scrapes' = scrapes \cup {published}
      BY <1>8 DEF Fetch, engine
    <2>2. \A s \in scrapes' : SoundMetrics(s.metrics)'
      BY <1>0, <2>1 DEF SoundInv, SoundMetrics
    <2> QED
      BY <1>1, <2>1, <2>2 DEF SoundInv
  <1>9. ASSUME NEW s \in scrapes, Observe(s) PROVE SoundInv'
    <2>1. published' = published /\ scrapes' \subseteq scrapes
      BY <1>9 DEF Observe, engine
    <2>2. \A k \in DOMAIN gauges' : \A r \in gauges'[k] : k \in DOMAIN s.metrics /\ r \in s.metrics[k]
      BY <1>9 DEF Observe
    <2>3. SoundMetrics(s.metrics)
      BY DEF SoundInv
    <2>4. SoundMetrics(gauges)'
      BY <1>0, <2>2, <2>3 DEF SoundMetrics
    <2> QED
      BY <1>1, <2>1, <2>4 DEF SoundInv
  <1>10. CASE Restart
    <2>1. published'.metrics = Empty /\ scrapes' = {} /\ gauges' = Empty
      BY <1>10 DEF Restart, SetSnapshot
    <2> QED
      BY <1>2, <2>1 DEF SoundInv, SoundMetrics
  <1> QED
    BY <1>4, <1>5, <1>6, <1>7, <1>8, <1>9, <1>10 DEF Next, Collect

-----------------------------------------------------------------------------
(* The directory, as the engine reads it.                                  *)

(* A retired container is gone and has no file; a listed file of a         *)
(* container that is still there is still there.                           *)
ReadInv ==
  /\ alive \cap gone = {} /\ dir \cup entries \subseteq alive \cup gone
  /\ retired \subseteq gone \ dir
  /\ pc = "read" => entries \cap alive \subseteq dir
  /\ faults \in Nat

(* A poll fails in finitely many ways.                                     *)
LEMMA FailuresFinite ==
  \A failed \in SUBSET (Gpu \X Query) : Cardinality(failed) \in Nat
  <1>1. IsFiniteSet({"handle"} \cup {"minor"} \cup {"memory"} \cup {"processes"})
    BY FS_Singleton, FS_Union, Zenon
  <1>2. Query = {"handle"} \cup {"minor"} \cup {"memory"} \cup {"processes"}
    BY DEF Query
  <1>3. IsFiniteSet(Gpu \X Query)
    BY <1>1, <1>2, MetricsAssumption, FS_Product
  <1> QED
    BY <1>3, FS_Subset, FS_CardinalityType

(* The node takes no file away from a container the runtime has.           *)
LEMMA ReadStep == ReadInv /\ [Next]_vars => ReadInv'
  <1> SUFFICES ASSUME ReadInv, [Next]_vars PROVE ReadInv'
    OBVIOUS
  <1> USE DEF ReadInv
  <1>1. CASE UNCHANGED <<alive, gone, dir, retired, pc, entries, faults>>
    BY <1>1
  <1>2. CASE NodeMoves
    <2>1. UNCHANGED <<pc, entries, faults>> /\ retired' \subseteq gone' \ dir'
      BY <1>2 DEF NodeMoves, engine, W!Next, W!Retire
    <2>2. CASE UNCHANGED <<alive, gone, dir>>
      BY <2>1, <2>2
    <2>3. ASSUME NEW c \in Container, W!Step(c) PROVE ReadInv'
      BY <2>1, <2>3 DEF W!Step, W!Start, W!Stop, W!Write, W!Unlink
    <2> QED
      BY <1>2, <2>2, <2>3 DEF NodeMoves, W!Next
  <1>3. CASE Processes
    BY <1>1, <1>3 DEF Processes, StartProcess, ExitProcess, engine
  <1>4. CASE Collect \/ Restart
    <2>1. CASE ScanDir
      BY <2>1 DEF ScanDir, SetSnapshot, Fault, node
    <2>2. CASE ReadFiles
      BY <2>2 DEF ReadFiles, SetSnapshot, Fault, node
    <2>3. CASE Join \/ Restart
      BY <2>3 DEF Join, Restart, SetSnapshot, Fault, node
    <2> QED
      BY <1>4, <2>1, <2>2, <2>3 DEF Collect
  <1>5. CASE Poll \/ Fetch \/ UNCHANGED vars
    BY <1>1, <1>5 DEF Poll, Fetch, node, engine, vars
  <1>6. CASE PollFails
    <2>1. faults' \in Nat
      BY <1>6, FailuresFinite DEF PollFails, Fault
    <2> QED
      BY <1>6, <2>1 DEF PollFails, node, engine
  <1>7. CASE \E s \in scrapes : Observe(s)
    BY <1>1, <1>7 DEF Observe, node, engine
  <1> QED
    BY <1>2, <1>3, <1>4, <1>5, <1>6, <1>7 DEF Next

(* What a read of the listed files finds, unless one cannot be read: every *)
(* container that is still there.                                          *)
ReadsEveryLive ==
  ReadFiles /\ UNCHANGED faults => \A c \in entries \cap alive : pc' = "join" /\ c \in mapping'

-----------------------------------------------------------------------------
(* What is left of a pod that has gone.                                    *)

Names(keys, pod) == \E k \in keys : k.pod = pod

(* No container of the pod has a record or will have one, and no copy of   *)
(* one, of the metrics or of the gauges names it.                          *)
Forgotten(pod) ==
  /\ \A c \in Container : PodOf[c] = pod => c \in retired /\ c \notin entries \cup mapping
  /\ \A s \in scrapes \cup {published} : ~Names(DOMAIN s.metrics, pod)
  /\ ~Names(DOMAIN gauges, pod)

(* A collection has series of the pods in the mapping only.                *)
LEMMA EnrichNames ==
  ASSUME EngineInv, NEW ids, NEW numbers, NEW k \in DOMAIN Enrich(ids, numbers)
  PROVE  \E c \in mapping : PodOf[c] = k.pod
  <1>1. k \in {u[3] : u \in Used} \cup {i[2] : i \in Idle(ids, numbers)}
    BY DEF Enrich
  <1>2. CASE k \in {u[3] : u \in Used}
    <2>1. PICK u \in Used : u[3] = k
      BY <1>2
    <2>2. u[2] \in mapping /\ k = [pod |-> PodOf[u[2]], uuid |-> TRUE, index |-> u[1].gpu]
      BY <2>1, UsedSound, Zenon
    <2> QED
      BY <2>2
  <1>3. CASE k \in {i[2] : i \in Idle(ids, numbers)}
    <2>1. PICK i \in Idle(ids, numbers) : i[2] = k
      BY <1>3
    <2>2. PICK c \in mapping :
                 i \in {<<c, j>> : j \in UNION {IdlePodGPUKey(c, d, ids, numbers) : d \in Devices[c]}}
      BY DEF Idle
    <2>3. PICK d \in Devices[c] : k \in IdlePodGPUKey(c, d, ids, numbers)
      BY <2>1, <2>2
    <2>4. k.pod = PodOf[c]
      BY <2>3 DEF IdlePodGPUKey
    <2> QED
      BY <2>4
  <1> QED
    BY <1>1, <1>2, <1>3

(* A forgotten pod stays so: none of its records can be written or listed  *)
(* again, and every copy is made of copies that do not name it.            *)
LEMMA ForgottenStep ==
  ASSUME ReadInv, EngineInv, [Next]_vars, NEW pod \in Pod, Forgotten(pod)
  PROVE  Forgotten(pod)'
  <1> USE DEF Forgotten
  <1>1. CASE UNCHANGED <<engine, exporter>> /\ retired \subseteq retired'
    BY <1>1 DEF engine, exporter, Names
  <1>2. CASE NodeMoves
    BY <1>1, <1>2 DEF NodeMoves, W!Next, W!Retire
  <1>3. CASE Processes
    BY <1>1, <1>3, Zenon DEF Processes, StartProcess, ExitProcess
  <1>5. CASE Poll \/ PollFails \/ UNCHANGED vars
    BY <1>1, <1>5 DEF Poll, PollFails, vars, node
  <1>6. ~Names(DOMAIN Empty, pod)
    BY DEF Names, Empty
  <1>7. ASSUME NEW metrics, NEW active, SetSnapshot(metrics, active), ~Names(DOMAIN metrics, pod),
               UNCHANGED <<retired, exporter>>
        PROVE  Forgotten(pod)'
    <2>1. /\ UNCHANGED <<retired, scrapes, gauges>>
          /\ entries' = {} /\ mapping' = {} /\ published'.metrics = metrics
      BY <1>7 DEF SetSnapshot, exporter
    <2>2. ~Names(DOMAIN gauges', pod) /\ \A s \in scrapes' : ~Names(DOMAIN s.metrics, pod)
      BY <2>1
    <2>3. ~Names(DOMAIN published'.metrics, pod)
      BY <1>7, <2>1
    <2> QED
      BY <2>1, <2>2, <2>3 DEF Names
  <1>8. CASE ScanDir
    <2>1. CASE entries' = dir /\ UNCHANGED <<mapping, published>>
      BY <1>8, <2>1, Zenon DEF ScanDir, ReadInv, node, exporter, Names
    <2>2. CASE SetSnapshot(Empty, {})
      BY <1>6, <1>7, <1>8, <2>2, Zenon DEF ScanDir, node
    <2> QED
      BY <1>8, <2>1, <2>2, Zenon DEF ScanDir
  <1>9. CASE ReadFiles
    <2>1. PICK found \in SUBSET entries :
                 IF found = {} THEN SetSnapshot(Empty, {})
                 ELSE mapping' = found /\ entries' = {} /\ pc' = "join" /\ UNCHANGED published
      BY <1>9 DEF ReadFiles
    <2>2. CASE found = {}
      BY <1>6, <1>7, <1>9, <2>1, <2>2 DEF ReadFiles, node
    <2>3. CASE found # {}
      BY <1>9, <2>1, <2>3 DEF ReadFiles, node, exporter, Names
    <2> QED
      BY <2>2, <2>3
  <1>10. CASE Join
    <2>1. PICK metrics : metrics = Enrich(uuids', minors')
      OBVIOUS
    <2>2. ~Names(DOMAIN metrics, pod)
      <3>1. PICK ids, numbers : ids = uuids' /\ numbers = minors'
        OBVIOUS
      <3>2. metrics = Enrich(ids, numbers)
        BY <2>1, <3>1
      <3> QED
        BY <3>2, EnrichNames DEF Names, EngineInv
    <2>3. SetSnapshot(metrics, {PodOf[c] : c \in mapping}) /\ UNCHANGED <<retired, exporter>>
      BY <1>10, <2>1, Zenon DEF Join, node
    <2> QED
      BY <1>7, <2>2, <2>3
  <1>11. CASE Fetch
    BY <1>11 DEF Fetch, node, engine, Names
  <1>12. ASSUME NEW s \in scrapes, Observe(s) PROVE Forgotten(pod)'
    <2>1. DOMAIN gauges' \subseteq DOMAIN gauges \cup DOMAIN s.metrics
      BY <1>12 DEF Observe, PruneDeletedPods
    <2>2. ~Names(DOMAIN gauges', pod)
      BY <2>1 DEF Names
    <2>3. scrapes' \subseteq scrapes /\ UNCHANGED <<retired, entries, mapping, published>>
      BY <1>12 DEF Observe, node, engine
    <2> QED
      BY <2>2, <2>3 DEF Names
  <1>13. CASE Restart
    BY <1>6, <1>13 DEF Restart, SetSnapshot, node, Names
  <1> QED
    BY <1>2, <1>3, <1>5, <1>8, <1>9, <1>10, <1>11, <1>12, <1>13, Zenon DEF Next, Collect

-----------------------------------------------------------------------------
(* The theorems.                                                           *)

(* Every copy of a measurement names the pod and the GPU of its processes  *)
(* or of a process whose pid was given again, processes keep to their      *)
(* container's GPUs, and no GPU's minor number is known before its UUID,   *)
(* at every step of the collector, the engine, the scrapes and the node.   *)
THEOREM MetricsInvariant == Spec => []IInv
  <1>1. Init => IInv
    <2> SUFFICES ASSUME Init PROVE IInv
      OBVIOUS
    <2>1. NodeInv
      BY DEF Init, W!Init, NodeInv
    <2>2. EngineInv
      BY DEF Init, EngineInv, NoDevices
    <2>3. SoundInv
      BY DEF Init, SoundInv, SoundMetrics, Empty
    <2> QED
      BY <2>1, <2>2, <2>3 DEF IInv
  <1>2. IInv /\ [Next]_vars => IInv'
    BY NodeStep, EngineStep, SoundStep DEF IInv
  <1> QED
    BY <1>1, <1>2, PTL DEF Spec

(* No exported value counts a process of another pod or on another GPU     *)
(* (enrich, resolveProcess, observe), whatever happens between the reads   *)
(* of the processes, of the mapping and of the cgroups, and however late a *)
(* scrape writes its snapshot, unless its pid was given to another.        *)
THEOREM AttributionAlwaysSound == Spec => []AttributionSound
  <1>1. IInv => AttributionSound
    BY DEF IInv, SoundInv, SoundMetrics, Sound, AttributionSound
  <1> QED
    BY <1>1, MetricsInvariant, PTL

(* The divisor of the normalized utilization is the request of every       *)
(* container of the pod that was given the GPU, once each, for any         *)
(* numbering of the GPUs and records of either format, once the minor      *)
(* number and the memory of the GPU are known, and the whole GPU before    *)
(* (enrich, gpuFraction, normalizedSMUtil).                                *)
THEOREM FractionAlwaysComplete == Spec => []FractionComplete
  <1>1. IInv => FractionComplete
    <2> SUFFICES ASSUME IInv, pc = "join", NEW ids, ids = uuids \cup polled.uuids,
                        NEW numbers, numbers = minors \cup polled.minors,
                        NEW known, known = totals \cup polled.totals,
                        NEW k \in DOMAIN Enrich(ids, numbers), k.index \in numbers,
                        \A u \in Used : u[3] = k => u[1].pid \notin reused,
                        NEW request,
                        request = SumRequestedMemory({c \in mapping : PodOf[c] = k.pod /\ k.index \in Given(c)})
                 PROVE  Divisor(GpuFraction(k.index, Requested(k, ids, numbers), known)) =
                          IF k.index \in known /\ request > 0 THEN request ELSE Whole
      BY Zenon DEF FractionComplete
    <2>1. numbers \subseteq ids
      BY DEF IInv, EngineInv
    <2>2. Counted(k, ids, numbers) = {c \in mapping : PodOf[c] = k.pod /\ k.index \in Given(c)}
      BY <2>1, FractionOfKey DEF IInv
    <2>3. Requested(k, ids, numbers) = SumRequestedMemory(Counted(k, ids, numbers))
      BY Zenon DEF Requested, Counted
    <2>4. Requested(k, ids, numbers) = request
      BY <2>2, <2>3, Zenon
    <2>5. request > 0 => request # 0
      OBVIOUS
    <2> QED
      BY <2>4, <2>5, Zenon DEF Divisor, GpuFraction
  <1> QED
    BY <1>1, MetricsInvariant, PTL

(* A collect that meets no failure finds every container that had a record *)
(* when it listed the directory and is still there (engine.go, scan): it   *)
(* drops no such container's pod from the active ones, for which the       *)
(* exporter would delete its series, and never reports an empty node.      *)
THEOREM NoGapForReader == Spec => [][ReadsEveryLive]_vars
  <1>1. Init => ReadInv
    BY DEF Init, W!Init, ReadInv
  <1>2. ReadInv /\ [Next]_vars => [ReadsEveryLive]_vars
    BY DEF ReadInv, ReadsEveryLive, ReadFiles, Fault, SetSnapshot
  <1> QED
    BY <1>1, <1>2, ReadStep, PTL DEF Spec

(* Once a pod that has gone is forgotten (its records unlinked or lost, no *)
(* scan, snapshot or scrape in flight naming it, its series pruned), no    *)
(* late record, collection or scrape brings a series of it back.  This is  *)
(* the half of GonePodPruned that needs no fairness: pruneDeletedPods has  *)
(* to succeed once only.                                                   *)
THEOREM GonePodNeverReturns ==
  Spec => [][\A pod \in Pod : Forgotten(pod) => Forgotten(pod)']_vars
  <1>1. Init => ReadInv
    BY DEF Init, W!Init, ReadInv
  <1>2. IInv /\ ReadInv /\ [Next]_vars => [\A pod \in Pod : Forgotten(pod) => Forgotten(pod)']_vars
    BY ForgottenStep DEF IInv
  <1> QED
    BY <1>1, <1>2, ReadStep, MetricsInvariant, PTL DEF Spec
=============================================================================
