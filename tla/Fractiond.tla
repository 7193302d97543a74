----------------------------- MODULE Fractiond -----------------------------
(***************************************************************************)
(* One node: the container runtime, and the fractiond process beside it    *)
(* with its NRI session, its callbacks, its retry loop, its mapping        *)
(* pipeline (Mapping), its audit of Synchronize snapshots (Injection) and  *)
(* its readiness flag.                                                     *)
(*                                                                         *)
(* The NRI callbacks, the retry loop, the mapping worker and the           *)
(* remediation goroutines run concurrently; the session drops at any time, *)
(* in the middle of a Synchronize callback too, and the process is killed, *)
(* terminated or restarted with other flags while containers come and go.  *)
(*                                                                         *)
(* External, from how fractiond uses it: the runtime calls the hook before *)
(* a container exists and reports a removal after it; while it runs a      *)
(* Synchronize it creates and removes no container; a snapshot is either   *)
(* complete or, right after the runtime restarted, empty; container ids    *)
(* are never reused.                                                       *)
(***************************************************************************)
EXTENDS Injection, Sequences

CONSTANTS Container, QueueDepth, DiskFaults,
          Configs,      \* the flag sets fractiond may be started with
          NoHook,       \* no hook ran for the container: no session
          PodSpecs,     \* what the containers ask for: functions from Container
          MaxSessions,  \* bound on NRI sessions
          MaxStarts,    \* bound on process restarts
          Faults        \* which of FaultKinds can happen

FaultKinds == {"emptyReplay", "failedStop", "giveUp", "goodbye", "terminate", "kill"}

Flusher == {"shutdown", "main"}
NoFlusher == "none"

ASSUME FractiondAssumption ==
  /\ QueueDepth \in Nat \ {0}
  /\ DiskFaults \in BOOLEAN
  /\ MaxSessions \in Nat
  /\ MaxStarts \in Nat
  /\ Faults \subseteq FaultKinds
  /\ NoHook \notin Configs

VARIABLES dir, queue, work, sendq, flush, want, lost, since

M == INSTANCE Mapping

VARIABLES
  spec,     \* what each container asks for
  state,    \* where each container is in its life
  env,      \* its environment entries
  mounts,   \* its mounts
  hook,     \* the flags the create hook ran with for it, or NoHook
  cfg,      \* the flags of the running process
  nri,      \* the session: down, registered (Synchronize runs), active
  session,  \* number of sessions so far
  loop,     \* runWithRetry, and main after it
  handler,  \* the Synchronize callback of each session
  audits,   \* the violators each remediation goroutine has still to stop
  shut,     \* the Shutdown callback
  ready,    \* readiness.State
  tracked,  \* history: this session's snapshot named a fractional container
  starts    \* number of restarts so far

mvars == <<dir, queue, work, sendq, flush, want, lost, since>>
cvars == <<state, env, mounts, hook>>
pvars == <<cfg, loop, ready, shut, starts>>
svars == <<nri, session, handler, audits, tracked>>
vars == <<mvars, spec, cvars, pvars, svars>>

Session == 1..MaxSessions

NoHandler == [pc |-> "none", running |-> {}]

Live == {c \in Container : state[c] \in {"running", "exited"}}

Fractional == {c \in Container : IsFractionalGPUContainer(spec[c])}

Violators(C) == {c \in C : IsViolator(cfg, spec[c], env[c], mounts[c])}

TypeOK ==
  /\ M!TypeOK
  /\ spec \in PodSpecs
  /\ state \in [Container -> {"absent", "running", "exited", "removed", "refused"}]
  /\ hook \in [Container -> Configs \cup {NoHook}]
  /\ cfg \in Configs
  /\ nri \in {"down", "registered", "active"}
  /\ session \in 0..MaxSessions
  /\ loop \in {"connecting", "serving", "backoff", "draining", "exiting", "dead"}
  /\ handler \in [Session -> [pc : {"none", "ready", "audit"}, running : SUBSET Container]]
  /\ audits \in [Session -> SUBSET Container]
  /\ shut \in {"idle", "called", "flushing"}
  /\ ready \in BOOLEAN
  /\ tracked \in BOOLEAN
  /\ starts \in 0..MaxStarts

Init ==
  /\ M!Init
  /\ spec \in PodSpecs
  /\ state = [c \in Container |-> "absent"]
  /\ env = [c \in Container |-> {}]
  /\ mounts = [c \in Container |-> {}]
  /\ hook = [c \in Container |-> NoHook]
  /\ cfg \in Configs
  /\ nri = "down"
  /\ session = 0
  /\ loop = "connecting"
  /\ handler = [s \in Session |-> NoHandler]
  /\ audits = [s \in Session |-> {}]
  /\ shut = "idle"
  /\ ready = FALSE
  /\ tracked = FALSE
  /\ starts = 0

-----------------------------------------------------------------------------
(* Containers.                                                             *)

Started(c, e, m, h) ==
  /\ state' = [state EXCEPT ![c] = "running"]
  /\ env' = [env EXCEPT ![c] = e]
  /\ mounts' = [mounts EXCEPT ![c] = m]
  /\ hook' = [hook EXCEPT ![c] = h]

(* The create hook: the creation is refused, or goes ahead, adjusted or    *)
(* not, and the container is handed to the mapping.                        *)
CreateContainer(c) ==
  LET adj == BuildAdjustment(cfg, spec[c])
  IN  /\ nri = "active"
      /\ state[c] = "absent"
      /\ \/ /\ adj.outcome = "error"
            /\ state' = [state EXCEPT ![c] = "refused"]
            /\ UNCHANGED <<mvars, env, mounts, hook>>
         \/ /\ adj.outcome # "error"
            /\ Started(c, AdjustedEnv(spec[c], adj), adj.mounts, cfg)
            /\ M!Upsert(c, IsFractionalGPUContainer(spec[c]))
      /\ UNCHANGED <<spec, pvars, svars>>

(* Without a session the runtime creates the container all the same.       *)
CreateUnhooked(c) ==
  /\ nri = "down"
  /\ state[c] = "absent"
  /\ Started(c, spec[c].env, {}, NoHook)
  /\ UNCHANGED <<mvars, spec, pvars, svars>>

Exit(c) ==
  /\ state[c] = "running"
  /\ state' = [state EXCEPT ![c] = "exited"]
  /\ UNCHANGED <<mvars, spec, env, mounts, hook, pvars, svars>>

RemoveContainerMutant(c) ==
  /\ state[c] = "exited"
  /\ state' = [state EXCEPT ![c] = "removed"]
  /\ UNCHANGED <<mvars, spec, env, mounts, hook, pvars, svars>>

RemoveContainer(c) ==
  /\ state[c] = "exited"
  /\ state' = [state EXCEPT ![c] = "removed"]
  /\ \/ nri = "active" /\ M!Delete(c)
     \/ nri = "down" /\ UNCHANGED mvars
  /\ UNCHANGED <<spec, env, mounts, hook, pvars, svars>>

-----------------------------------------------------------------------------
(* The session.  Synchronize hands the snapshot to the mapping, sets the   *)
(* readiness, then audits the snapshot; the session may be gone by then.   *)
(* The hand-over is taken to be immediate: the call of the runtime and the *)
(* send to the queue, the callback's first statement but for a log line,   *)
(* are one step, so no snapshot is handed over after that of a later       *)
(* session.                                                                *)

Snapshots == {Live} \cup (IF "emptyReplay" \in Faults THEN {{}} ELSE {})

SynchronizeMutant ==
  /\ loop = "connecting"
  /\ session < MaxSessions
  /\ loop' = "serving"
  /\ nri' = "registered"
  /\ session' = session + 1
  /\ \E snap \in Snapshots :
       /\ M!Synchronize((snap \cup {c \in Container : state[c] = "removed"}) \cap Fractional)
       /\ tracked' = (snap \cap Fractional # {})
       /\ handler' = [handler EXCEPT ![session + 1] =
                        [pc |-> "ready", running |-> {c \in snap : state[c] = "running"}]]
  /\ UNCHANGED <<spec, cvars, cfg, ready, shut, starts, audits>>

Synchronize ==
  /\ loop = "connecting"
  /\ session < MaxSessions
  /\ loop' = "serving"
  /\ nri' = "registered"
  /\ session' = session + 1
  /\ \E snap \in Snapshots :
       /\ M!Synchronize(snap \cap Fractional)
       /\ tracked' = (snap \cap Fractional # {})
       /\ handler' = [handler EXCEPT ![session + 1] =
                        [pc |-> "ready", running |-> {c \in snap : state[c] = "running"}]]
  /\ UNCHANGED <<spec, cvars, cfg, ready, shut, starts, audits>>

SynchronizeReady(s) ==
  /\ handler[s].pc = "ready"
  /\ ready' = TRUE
  /\ handler' = [handler EXCEPT ![s] = [pc |-> "audit", running |-> handler[s].running]]
  /\ UNCHANGED <<mvars, spec, cvars, cfg, loop, shut, starts, nri, session, audits, tracked>>

(* Audit finds the violators before it returns; a goroutine stops them.    *)
SynchronizeAudit(s) ==
  /\ handler[s].pc = "audit"
  /\ handler' = [handler EXCEPT ![s] = NoHandler]
  /\ audits' = [audits EXCEPT ![s] = IF cfg.enforce THEN Violators(handler[s].running) ELSE {}]
  /\ nri' = IF nri = "registered" /\ s = session THEN "active" ELSE nri
  /\ UNCHANGED <<mvars, spec, cvars, pvars, session, tracked>>

(* One StopContainer call of remediate; a failure is logged and passed by. *)
Stop(s, c) ==
  /\ c \in audits[s]
  /\ audits' = [audits EXCEPT ![s] = audits[s] \ {c}]
  /\ \/ state' = [state EXCEPT ![c] = IF state[c] = "running" THEN "exited" ELSE state[c]]
     \/ "failedStop" \in Faults /\ state' = state
  /\ UNCHANGED <<mvars, spec, env, mounts, hook, pvars, nri, session, handler, tracked>>

Disconnect ==
  /\ nri # "down"
  /\ nri' = "down"
  /\ tracked' = FALSE
  /\ UNCHANGED <<mvars, spec, cvars, pvars, session, handler, audits>>

(* The runtime says goodbye first; the Shutdown callback may outlive the   *)
(* session.                                                                *)
RuntimeShutdown ==
  /\ "goodbye" \in Faults
  /\ nri = "active"
  /\ shut = "idle"
  /\ nri' = "down"
  /\ shut' = "called"
  /\ tracked' = FALSE
  /\ UNCHANGED <<mvars, spec, cvars, cfg, loop, ready, starts, session, handler, audits>>

Shutdown ==
  /\ shut = "called"
  /\ shut' = "flushing"
  /\ ready' = FALSE
  /\ M!Flush("shutdown")
  /\ UNCHANGED <<spec, cvars, cfg, loop, starts, svars>>

NoAudits == \A s \in Session : audits[s] = {}

ShutdownReturn ==
  /\ shut = "flushing"
  /\ flush["shutdown"] = "idle"
  /\ NoAudits
  /\ shut' = "idle"
  /\ UNCHANGED <<mvars, spec, cvars, cfg, loop, ready, starts, svars>>

-----------------------------------------------------------------------------
(* The process: runWithRetry, then main.                                   *)

RunReturnsMutant ==
  /\ loop = "connecting" \/ (loop = "serving" /\ nri = "down")
  /\ loop' = "backoff"
  /\ UNCHANGED <<mvars, ready, spec, cvars, cfg, shut, starts, svars>>

(* stub.Run returns because the session is gone or never came up.  Out of  *)
(* retries (RetryLoop has the budget), main flushes and exits.             *)
RunReturns ==
  /\ loop = "connecting" \/ (loop = "serving" /\ nri = "down")
  /\ ready' = FALSE
  /\ \/ loop' = "backoff" /\ UNCHANGED mvars
     \/ "giveUp" \in Faults /\ loop' = "draining" /\ M!Flush("main")
  /\ UNCHANGED <<spec, cvars, cfg, shut, starts, svars>>

Reconnect ==
  /\ loop = "backoff"
  /\ loop' = "connecting"
  /\ UNCHANGED <<mvars, spec, cvars, cfg, ready, shut, starts, svars>>

(* SIGTERM: Run returns, or the backoff is cut short, and main flushes.    *)
Terminate ==
  /\ "terminate" \in Faults
  /\ loop \in {"connecting", "serving", "backoff"}
  /\ loop' = "draining"
  /\ nri' = "down"
  /\ tracked' = FALSE
  /\ ready' = IF loop = "backoff" THEN ready ELSE FALSE
  /\ M!Flush("main")
  /\ UNCHANGED <<spec, cvars, cfg, shut, starts, session, handler, audits>>

Die ==
  /\ loop' = "dead"
  /\ nri' = "down"
  /\ tracked' = FALSE
  /\ ready' = FALSE
  /\ shut' = "idle"
  /\ handler' = [s \in Session |-> NoHandler]
  /\ audits' = [s \in Session |-> {}]
  /\ M!Crash
  /\ UNCHANGED <<spec, cvars, cfg, starts, session>>

FlushReturnsMutant ==
  /\ loop = "draining"
  /\ flush["main"] = "idle"
  /\ loop' = "exiting"
  /\ UNCHANGED <<mvars, spec, cvars, cfg, ready, shut, starts, svars>>

(* main's Plugin.Flush returns; a callback still running is not waited for. *)
FlushReturns ==
  /\ loop = "draining"
  /\ flush["main"] = "idle"
  /\ NoAudits
  /\ loop' = "exiting"
  /\ UNCHANGED <<mvars, spec, cvars, cfg, ready, shut, starts, svars>>

ExitProcess == loop = "exiting" /\ Die

Kill == "kill" \in Faults /\ loop # "dead" /\ Die

Restart ==
  /\ loop = "dead"
  /\ starts < MaxStarts
  /\ starts' = starts + 1
  /\ loop' = "connecting"
  /\ cfg' \in Configs
  /\ UNCHANGED <<mvars, spec, cvars, ready, shut, svars>>

MappingWorker == M!Worker /\ UNCHANGED <<spec, cvars, pvars, svars>>

Next ==
  \/ \E c \in Container :
       CreateContainer(c) \/ CreateUnhooked(c) \/ Exit(c) \/ RemoveContainer(c)
  \/ Synchronize
  \/ \E s \in Session :
       \/ SynchronizeReady(s)
       \/ SynchronizeAudit(s)
       \/ \E c \in Container : Stop(s, c)
  \/ Disconnect \/ RuntimeShutdown \/ Shutdown \/ ShutdownReturn
  \/ RunReturns \/ Reconnect \/ Terminate \/ FlushReturns \/ ExitProcess \/ Kill \/ Restart
  \/ MappingWorker

Spec == Init /\ [][Next]_vars

(* Every goroutine of the process runs on: the worker, the callbacks, main *)
(* with its retry loop (unlimited by default), and the stops, each of      *)
(* which the CRI client bounds by a timeout.  Nothing is assumed of the    *)
(* runtime.                                                                *)
FairSpec ==
  /\ Spec
  /\ WF_vars(MappingWorker)
  /\ WF_vars(Shutdown \/ ShutdownReturn)
  /\ WF_vars(RunReturns \/ Reconnect \/ FlushReturns \/ ExitProcess)
  /\ \A s \in Session :
       /\ WF_vars(SynchronizeReady(s) \/ SynchronizeAudit(s))
       /\ WF_vars(\E c \in Container : Stop(s, c))

-----------------------------------------------------------------------------
(* The audit never stops a container that the create hook of the running   *)
(* configuration let through: detector.check agrees with buildAdjustment,  *)
(* over every annotation and flag, however old the snapshot is when the    *)
(* stop happens and however many sessions and restarts came between.       *)
StopsOnlyUnhooked ==
  \A s \in Session : \A c \in audits[s] : hook[c] # cfg

AuditExact ==
  \A s \in Session : SynchronizeAudit(s) /\ cfg.enforce =>
    \A c \in handler[s].running : hook[c] = NoHook =>
      (c \in audits'[s] <=> BuildAdjustment(cfg, spec[c]).outcome = "adjust")

(* Of the containers that no hook ever saw the audit picks exactly the     *)
(* ones the hook would have mutated: none it would have refused or left    *)
(* alone, and all it would have changed, an unusable compute mode under    *)
(* fail-open included.                                                     *)
AuditFindsUnhooked == [][AuditExact]_vars

(* A running process's mapping follows the runtime: once a session's       *)
(* snapshot has been taken up, and with nothing pending, the directory     *)
(* holds exactly the fractional containers the runtime still has, but for  *)
(* those the pipeline lost.                                                *)
MappingTracksRuntime ==
  tracked /\ M!Quiescent =>
    \A c \in Container \ lost : c \in dir <=> c \in Live \cap Fractional

(* A container the runtime still has never loses its mapping file, not in  *)
(* a resync, a crash in the middle of one, an empty replay or a session    *)
(* that ends before its snapshot is applied: metricsd's attribution has no *)
(* gap.                                                                    *)
LiveNeverUnlinked ==
  [][\A c \in dir : c \notin dir' => c \notin Live]_vars

Gone == {c \in Container : state[c] = "removed"}

(* The containers that have a file, or get one from the event in hand.     *)
Held == dir \cup (IF work.phase = "write" THEN work.todo ELSE {})

(* Gone, without a file, and with none on the way.                         *)
Retired ==
  {c \in Gone \ Held : \A i \in 1..Len(queue) : c \notin M!Leaves(queue[i])}

D == INSTANCE Directory WITH alive <- Live, gone <- Gone, retired <- Retired

(* The node is the writer that metricsd relies on: it unlinks no record of *)
(* a container the runtime has, and brings none back that it has unlinked, *)
(* although a late event may write the record of a container that has gone *)
(* (RemoveContainer's delete waits behind the writes of the same queue).   *)
ImplementsDirectory == D!Spec

(* Of the containers the hook let through, the mapping asks for exactly    *)
(* the ones it mutated: isFractionalGPUContainer and buildAdjustment, two  *)
(* readings of the annotations, select the same containers under every     *)
(* policy.                                                                 *)
HookedRecordedIffMutated ==
  \A c \in Live : hook[c] # NoHook => (c \in want <=> mounts[c] # {})

(* A violator the audit set out to stop is stopped, even when the session  *)
(* drops, the callback returns or the process is told to terminate first   *)
(* (Audit detaches the stop from the callback; Shutdown and main wait).    *)
(* Three stops are not promised: one that the CRI call fails, which is     *)
(* logged and passed by; one of a process that is killed; and one of an    *)
(* audit that begins after main has waited.  Faults leaves out the first   *)
(* two where this is checked, loop # "exiting" the third.                  *)
RemediationCompletes ==
  \A c \in Container :
    (\E s \in Session : c \in audits[s]) /\ loop # "exiting" ~> state[c] # "running"

(* A terminating process exits: neither a full queue nor a remediation in  *)
(* flight can hold main's Flush for ever.                                  *)
DrainTerminates == ~<>[](loop \in {"draining", "exiting"})

(* A readiness left over from a callback that outlived its session does    *)
(* not last: the retry loop clears it or a new session makes it true.      *)
FalseReadyHeals == ~<>[](ready /\ nri = "down")
=============================================================================
