------------------------------ MODULE Metrics ------------------------------
(***************************************************************************)
(* metricsd: the collector polls NVML for GPU processes, the engine joins  *)
(* them with the mapping directory that fractiond writes, and each scrape  *)
(* copies the engine's last snapshot into the exported gauges.  The three  *)
(* run on their own clocks, and scrapes run concurrently.                  *)
(*                                                                         *)
(* A measured value is the set of processes it sums over; the averaging    *)
(* window is off, as it is by default.  A pid may be given to a second     *)
(* process; a fraction of a GPU is written as memory, of Whole.            *)
(***************************************************************************)
EXTENDS Naturals, FiniteSets, FiniteSetsExt

CONSTANTS
  Container, Pid,
  Recycled,   \* pids that the kernel may give to a second process
  Gpu,        \* NVML indices
  PodOf,      \* container -> pod
  Devices,    \* container -> its GPUDevices, records of minor and index
  Memory,     \* container -> its RequestedMemoryMiB
  Whole,      \* the memory of a GPU
  IndexOf,    \* Linux minor number -> NVML index
  Pathless,   \* containers recorded without a usable cgroup path
  Host,       \* owners of processes of no container
  NoGpu,      \* of a process that uses none
  Nil,        \* no ActivePodUIDs yet
  MaxScrapes, \* bound on concurrent scrapes
  MaxFaults   \* bound on failures

ASSUME MetricsAssumption ==
  /\ MaxScrapes \in Nat /\ MaxFaults \in Nat
  /\ IsFiniteSet(Gpu) /\ NoGpu \notin Gpu
  /\ IndexOf \in [DOMAIN IndexOf -> Gpu]
  /\ Host \cap Container = {}
  /\ \A c \in Container : \A d \in Devices[c] : {d.minor, d.index} \subseteq DOMAIN IndexOf

VARIABLES
  alive, gone, dir, retired,   \* Directory: the runtime's containers and their files
  up,                          \* the running processes
  used, reused,                \* pids given out so far; given out again
  polled,                      \* nvmlProcessCollector.snapshot
  pc, entries, mapping,        \* metricsEngine.collect and its local variables
  uuids, minors, totals,       \* deviceUUIDs, minorToNVMLIndex and
                               \* deviceTotalMemoryBytes, by NVML index
  published,                   \* metricsEngine.snapshot
  scrapes,                     \* the snapshots that scrapes in flight hold
  gauges,                      \* the exported series and their values
  faults

node == <<alive, gone, dir, retired, up, used, reused>>
engine == <<pc, entries, mapping, uuids, minors, totals, published>>
exporter == <<scrapes, gauges>>
vars == <<node, polled, engine, exporter, faults>>

(* The containers and records of the node.                                 *)
W == INSTANCE Directory

Pod == {PodOf[c] : c \in Container}
Key == [pod : Pod, uuid : BOOLEAN, index : Gpu]

(* The minor number of a device, whichever fractiond recorded it.          *)
Minor(d) == IF d.minor = 0 /\ d.index # 0 THEN d.index ELSE d.minor

(* The GPUs a container was given.                                         *)
Given(c) == {IndexOf[Minor(d)] : d \in Devices[c]}

(* A process: its pid, the container (or the host) it runs in, its GPU.    *)
Process == [pid : Pid, owner : Container \cup Host, gpu : Gpu \cup {NoGpu}]

NoDevices == [procs |-> {}, uuids |-> {}, minors |-> {}, totals |-> {}]

TypeOK ==
  /\ alive \cup gone \cup dir \cup retired \subseteq Container
  /\ up \subseteq Process /\ reused \subseteq used /\ used \subseteq Pid
  /\ polled \in [procs : SUBSET Process, uuids : SUBSET Gpu, minors : SUBSET Gpu, totals : SUBSET Gpu]
  /\ pc \in {"idle", "read", "join"}
  /\ entries \subseteq Container /\ mapping \subseteq Container
  /\ minors \cup totals \subseteq uuids /\ uuids \subseteq Gpu
  /\ \A s \in {published} \cup scrapes :
       /\ DOMAIN s.metrics \subseteq Key
       /\ \A k \in DOMAIN s.metrics : s.metrics[k] \subseteq Process
       /\ s.active = Nil \/ s.active \subseteq Pod
  /\ DOMAIN gauges \subseteq Key /\ \A k \in DOMAIN gauges : gauges[k] \subseteq Process
  /\ faults \in 0 .. MaxFaults

Empty == [k \in {} |-> {}]

Init ==
  /\ W!Init
  /\ up = {} /\ used = {} /\ reused = {}
  /\ polled = NoDevices
  /\ pc = "idle" /\ entries = {} /\ mapping = {}
  /\ uuids = {} /\ minors = {} /\ totals = {}
  /\ published = [metrics |-> Empty, active |-> Nil]
  /\ scrapes = {} /\ gauges = Empty
  /\ faults = 0

Fault == faults < MaxFaults /\ faults' = faults + 1

-----------------------------------------------------------------------------
(* The node: containers, their records and their processes.                *)

(* Containers and records come and go as Directory allows, nothing less:   *)
(* fractiond's node implements it.  A container takes its processes with   *)
(* it.                                                                     *)
NodeMoves ==
  /\ W!Next
  /\ up' = {r \in up : r.owner \notin gone'}
  /\ UNCHANGED <<used, reused, polled, engine, exporter, faults>>

(* A process uses a GPU its container was given; the host's may use any.   *)
(* One that uses none matters only when it takes the pid of one that did.  *)
StartProcess(p, c, g) ==
  /\ \A r \in up : r.pid # p
  /\ c \notin Host => c \in alive /\ g \in Given(c) \cup {NoGpu}
  /\ up' = up \cup {[pid |-> p, owner |-> c, gpu |-> g]}
  /\ \/ p \notin used /\ g # NoGpu /\ used' = used \cup {p} /\ UNCHANGED reused
     \/ p \in (used \cap Recycled) \ reused /\ reused' = reused \cup {p} /\ UNCHANGED used
  /\ UNCHANGED <<alive, gone, dir, retired, polled, engine, exporter, faults>>

ExitProcess(r) ==
  /\ r \in up
  /\ up' = up \ {r}
  /\ UNCHANGED <<alive, gone, dir, retired, used, reused, polled, engine, exporter, faults>>

-----------------------------------------------------------------------------
(* nvmlProcessCollector.collect: every device answers every query; or some *)
(* fail, and the poll is published without what they would have told; or   *)
(* the count fails and the previous poll stays.  Without its handle or its *)
(* UUID a device is left out altogether.                                   *)

Query == {"handle", "minor", "memory", "processes"}

Answering(query, failed) == {g \in Gpu : {<<g, "handle">>, <<g, query>>} \cap failed = {}}

Answer(failed) ==
  [procs  |-> {r \in up : r.gpu \in Answering("processes", failed)},
   uuids  |-> Answering("handle", failed),
   minors |-> Answering("minor", failed),
   totals |-> Answering("memory", failed)]

Poll ==
  /\ polled' = Answer({})
  /\ UNCHANGED <<node, engine, exporter, faults>>

PollFails ==
  /\ faults < MaxFaults
  /\ \/ \E failed \in SUBSET (Gpu \X Query) :
          /\ failed # {}
          /\ faults' = faults + Cardinality(failed)
          /\ faults' <= MaxFaults
          /\ polled' = Answer(failed)
     \/ Fault /\ UNCHANGED polled
  /\ UNCHANGED <<node, engine, exporter>>

-----------------------------------------------------------------------------
(* metricsEngine.collect.                                                  *)

SetSnapshotMutant(metrics, active) ==
  /\ published' = [metrics |-> published.metrics, active |-> active]
  /\ pc' = "idle" /\ entries' = {} /\ mapping' = {}

SetSnapshot(metrics, active) ==
  /\ published' = [metrics |-> metrics, active |-> active]
  /\ pc' = "idle" /\ entries' = {} /\ mapping' = {}

(* scan lists the directory, or fails and is empty.                        *)
ScanDir ==
  /\ pc = "idle"
  /\ \/ entries' = dir /\ pc' = "read" /\ UNCHANGED <<mapping, published, faults>>
     \/ Fault /\ SetSnapshot(Empty, {})
  /\ UNCHANGED <<node, polled, uuids, minors, totals, exporter>>

ReadFilesMutant ==
  /\ pc = "read"
  /\ \E found \in SUBSET entries :
       /\ IF entries \cap dir \subseteq found THEN UNCHANGED faults ELSE Fault
       /\ entries' = {} /\ mapping' = found
       /\ pc' = IF found = {} THEN "idle" ELSE "join"
  /\ UNCHANGED <<node, polled, uuids, minors, totals, published, exporter>>

(* A file that is gone by the time it is read is skipped, like one that    *)
(* cannot be read.  Without a container there is nothing to collect.       *)
ReadFiles ==
  /\ pc = "read"
  /\ \E found \in SUBSET entries :
       /\ IF entries \cap dir \subseteq found THEN UNCHANGED faults ELSE Fault
       /\ IF found = {}
          THEN SetSnapshot(Empty, {})
          ELSE mapping' = found /\ entries' = {} /\ pc' = "join" /\ UNCHANGED published
  /\ UNCHANGED <<node, polled, uuids, minors, totals, exporter>>

(* What /proc/<pid>/cgroup says, if there is such a process: it may not be *)
(* the one the poll listed.                                                *)
CgroupPaths(p) == {r.owner : r \in {q \in up : q.pid = p}}

CgroupPathContainsMutant(p, c) == c \in Pathless \/ c \in CgroupPaths(p)

(* The cgroup is the one recorded for the container, or is below it.       *)
CgroupPathContains(p, c) == c \notin Pathless /\ c \in CgroupPaths(p)

(* The path of a container's cgroup, recorded or not, names the container. *)
CgroupPathContainsContainerID(p, c) == c \in CgroupPaths(p)

CgroupPathMatchesContainer(p, c) ==
  CgroupPathContains(p, c) \/ CgroupPathContainsContainerID(p, c)

ResolveProcess(p) == {c \in mapping : CgroupPathMatchesContainer(p, c)}

(* The key of a device, from the record and what is known of the GPUs (ids *)
(* and numbers of them).                                                   *)
IdlePodGPUKey(c, d, ids, numbers) ==
  IF numbers # {}
  THEN {[pod |-> PodOf[c], uuid |-> g \in ids, index |-> g] : g \in {IndexOf[Minor(d)]} \cap numbers}
  ELSE {[pod |-> PodOf[c], uuid |-> d.index \in ids, index |-> d.index]}

(* Every listed process with its container and key.                        *)
Used ==
  UNION {{<<r, c, [pod |-> PodOf[c], uuid |-> TRUE, index |-> r.gpu]>> : c \in ResolveProcess(r.pid)} :
           r \in polled.procs}

Idle(ids, numbers) ==
  UNION {{<<c, k>> : k \in UNION {IdlePodGPUKey(c, d, ids, numbers) : d \in Devices[c]}} : c \in mapping}

SumRequestedMemory(containers) == MapThenSumSet(LAMBDA c : Memory[c], containers)

RequestedMutant(k, ids, numbers) ==
  MapThenSumSet(LAMBDA u : Memory[u[2]], {u \in Used : u[3] = k})
    + MapThenSumSet(LAMBDA i : Memory[i[1]], {i \in Idle(ids, numbers) : i[2] = k})

(* memByKey: what is requested under a key, by processes and by records,   *)
(* counted once per container.                                             *)
Requested(k, ids, numbers) ==
  SumRequestedMemory({u[2] : u \in {v \in Used : v[3] = k}}
                       \cup {i[1] : i \in {j \in Idle(ids, numbers) : j[2] = k}})

(* Zero when nothing is requested or the memory of the GPU is not known.   *)
GpuFraction(g, requested, known) == IF requested > 0 /\ g \in known THEN requested ELSE 0

(* What normalizedSMUtil divides by.                                       *)
Divisor(fraction) == IF fraction = 0 THEN Whole ELSE fraction

(* Processes are summed per pod and GPU; a device of a pod none of whose   *)
(* processes was seen on it gets a series of its own.                      *)
Enrich(ids, numbers) ==
  LET busy == {u[3] : u \in Used}
      idle == {i[2] : i \in Idle(ids, numbers)}
      keys == busy \cup {k \in idle : \A b \in busy : b.pod # k.pod \/ b.index # k.index}
  IN  [k \in keys |-> {u[1] : u \in {v \in Used : v[3] = k}}]

(* The poll is read, and what it leaves out remembered from earlier ones;  *)
(* it is joined with the mapping and published.                            *)
Join ==
  /\ pc = "join"
  /\ uuids' = uuids \cup polled.uuids
  /\ minors' = minors \cup polled.minors
  /\ totals' = totals \cup polled.totals
  /\ SetSnapshot(Enrich(uuids', minors'), {PodOf[c] : c \in mapping})
  /\ UNCHANGED <<node, polled, exporter, faults>>

-----------------------------------------------------------------------------
(* A scrape: refresh fetches the snapshot, then observe takes the lock.    *)

Fetch ==
  /\ Cardinality(scrapes) < MaxScrapes
  /\ scrapes' = scrapes \cup {published}
  /\ UNCHANGED <<node, polled, engine, gauges, faults>>

PruneDeletedPods(known, active) == {k \in known : active = Nil \/ k.pod \in active}

IdleLabelsForObservedGPUMutant(keys) == {k \in keys : ~k.uuid}

(* The idle placeholders of the GPUs a snapshot names by their UUID.       *)
IdleLabelsForObservedGPU(keys) ==
  {[pod |-> k.pod, uuid |-> FALSE, index |-> k.index] : k \in {j \in keys : j.uuid}}

ObserveMutant(snapshot) ==
  /\ snapshot \in scrapes
  /\ LET metrics == snapshot.metrics
         kept    == PruneDeletedPods(DOMAIN gauges, snapshot.active)
         known   == (kept \ IdleLabelsForObservedGPU(DOMAIN metrics)) \cup DOMAIN metrics
     IN  gauges' = [k \in known |-> IF k \in DOMAIN metrics THEN metrics[k] ELSE gauges[k]]
  /\ scrapes' = scrapes \ {snapshot}
  /\ UNCHANGED <<node, polled, engine, faults>>

(* A known series that the snapshot does not have is set to zero.          *)
Observe(snapshot) ==
  /\ snapshot \in scrapes
  /\ LET metrics == snapshot.metrics
         kept    == PruneDeletedPods(DOMAIN gauges, snapshot.active)
         known   == (kept \ IdleLabelsForObservedGPU(DOMAIN metrics)) \cup DOMAIN metrics
     IN  gauges' = [k \in known |-> IF k \in DOMAIN metrics THEN metrics[k] ELSE {}]
  /\ scrapes' = scrapes \ {snapshot}
  /\ UNCHANGED <<node, polled, engine, faults>>

-----------------------------------------------------------------------------
(* metricsd is restarted: only the node survives.                          *)
Restart ==
  /\ Fault
  /\ polled' = NoDevices
  /\ SetSnapshot(Empty, Nil)
  /\ uuids' = {} /\ minors' = {} /\ totals' = {}
  /\ scrapes' = {} /\ gauges' = Empty
  /\ UNCHANGED node

Processes ==
  \/ \E p \in Pid, c \in Container \cup Host, g \in Gpu \cup {NoGpu} : StartProcess(p, c, g)
  \/ \E r \in up : ExitProcess(r)

Collect == ScanDir \/ ReadFiles \/ Join

Next ==
  \/ NodeMoves \/ Processes
  \/ Poll \/ PollFails
  \/ Collect
  \/ Fetch \/ (\E s \in scrapes : Observe(s))
  \/ Restart

Spec == Init /\ [][Next]_vars

(* Both tickers fire, and Prometheus scrapes again and again, though any   *)
(* one scrape may hang.  Nothing is assumed of fractiond: a record may     *)
(* never be written, and may stay for ever.                                *)
FairSpec ==
  /\ Spec
  /\ WF_polled(Poll)
  /\ WF_engine(Collect)
  /\ WF_exporter(Fetch \/ \E s \in scrapes : Observe(s))

-----------------------------------------------------------------------------
(* Ran(r, pod): what is measured of r belongs to the pod.                  *)
Ran(r, pod) == r.owner \in Container /\ PodOf[r.owner] = pod

(* A process counts on the GPU it uses and for the pod it runs in, and for *)
(* no other, although the process list, the mapping and the cgroups are    *)
(* read at three different moments and containers and processes come and   *)
(* go in between.  Only a pid that was given to another process can        *)
(* mislead, since the cgroup is looked up by the pid.                      *)
AttributionSound ==
  \A k \in DOMAIN gauges : \A r \in gauges[k] :
    /\ k.uuid /\ k.index = r.gpu
    /\ Ran(r, k.pod) \/ r.pid \in reused

(* And not for long: the next poll lists the new process in the place of   *)
(* the old one.                                                            *)
MisattributionHeals ==
  ~<>[](\E k \in DOMAIN gauges : \E r \in gauges[k] : ~Ran(r, k.pod))

(* The divisor of the normalized utilization (enrich, gpuFraction) is the  *)
(* request of every container of the pod that was given the GPU, busy or   *)
(* idle, each once, as soon as the GPU's minor number and memory are       *)
(* known, and the whole GPU before its memory is, never a part of the      *)
(* request.  A process that took another one's pid may add its container.  *)
FractionComplete ==
  pc = "join" =>
    LET ids == uuids \cup polled.uuids
        numbers == minors \cup polled.minors
        known == totals \cup polled.totals
        request(k) == SumRequestedMemory({c \in mapping : PodOf[c] = k.pod /\ k.index \in Given(c)})
    IN  \A k \in DOMAIN Enrich(ids, numbers) :
          k.index \in numbers /\ (\A u \in Used : u[3] = k => u[1].pid \notin reused) =>
            Divisor(GpuFraction(k.index, Requested(k, ids, numbers), known)) =
              IF k.index \in known /\ request(k) > 0 THEN request(k) ELSE Whole

(* The series of a pod without records are not exported for ever: the last *)
(* container's collect publishes an empty set of pods, and pruneDeletedPods*)
(* follows, whatever old snapshot a slow scrape writes back.  A record     *)
(* that fractiond leaves behind keeps its pod's series.                    *)
GonePodPruned ==
  \A pod \in Pod :
    ~<>[](/\ \E k \in DOMAIN gauges : k.pod = pod
          /\ \A c \in dir : PodOf[c] # pod)

(* A process that goes on using a GPU in a container with a record appears *)
(* in its pod's series, once a poll has listed it and its cgroup has been  *)
(* matched, whichever of them fails first.                                 *)
BusyReported ==
  \A p \in Pid, c \in Container :
    ~<>[](\E r \in up :
            /\ r.pid = p /\ r.owner = c /\ c \in dir
            /\ \A k \in DOMAIN gauges : r \notin gauges[k])

(* deleteIdleLabelsForObservedGPU: a placeholder without a UUID does not   *)
(* stay next to the series of the same pod and NVML index.                 *)
PlaceholderReplaced ==
  \A pod \in Pod, g \in Gpu :
    ~<>[](/\ \A u \in BOOLEAN : [pod |-> pod, uuid |-> u, index |-> g] \in DOMAIN gauges
          /\ \E c \in dir : PodOf[c] = pod /\ g \in Given(c))

(* engine.go, of a GPU not enumerated yet: the caller "skips this device   *)
(* entirely rather than writing an empty-label idle metric".  A collect    *)
(* that precedes the first poll takes the number 0 of every new record for *)
(* the NVML index instead, and no later series of the pod replaces the     *)
(* placeholder if the pod was given another GPU.                           *)
NoPlaceholderForEver ==
  \A pod \in Pod, g \in Gpu :
    ~<>[]([pod |-> pod, uuid |-> FALSE, index |-> g] \in DOMAIN gauges)
=============================================================================
