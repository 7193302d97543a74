----------------------------- MODULE Supervisor ----------------------------
(***************************************************************************)
(* mpsd: the process that labels its node with the driver version, then    *)
(* starts the MPS control daemon and keeps it up.  The kubelet restarts    *)
(* the container when the process exits, until the pod is deleted.  The    *)
(* daemon lives in the same container, so it dies with the process; its    *)
(* control socket is on the host and outlives both.  The operator takes    *)
(* the label off again while it deletes the GpuFractioningConfig.          *)
(***************************************************************************)
EXTENDS RetryLoop

CONSTANTS Driver,     \* driver major versions
          Unlabelled, \* no label on the node
          MaxFaults   \* bound on failures

ASSUME SupervisorAssumption == Unlabelled \notin Driver /\ MaxFaults \in Nat

VARIABLES
  proc,     \* where the process is: down, labelling, setup, running
  daemon,   \* none, starting, up (bound to the socket), quitting
  socket,   \* the control socket exists
  removed,  \* history: the last removeStaleSocket succeeded
  driver,   \* the version NVML reports
  label,    \* the node's driver-major label
  changed,  \* history: the driver was replaced since mpsd last labelled
  resource, \* the GpuFractioningConfig: present, deleting
  deleted,  \* the pod is deleted
  faults    \* failures so far

nvars == <<driver, label, changed, resource>>
svars == <<proc, daemon, socket, removed, nvars, deleted, faults>>
vars == <<rvars, svars>>

TypeOK ==
  /\ RetryTypeOK
  /\ proc \in {"down", "labelling", "setup", "running"}
  /\ daemon \in {"none", "starting", "up", "quitting"}
  /\ socket \in BOOLEAN
  /\ removed \in BOOLEAN
  /\ driver \in Driver
  /\ label \in Driver \cup {Unlabelled}
  /\ changed \in BOOLEAN
  /\ resource \in {"present", "deleting"}
  /\ deleted \in BOOLEAN
  /\ faults \in 0 .. MaxFaults

(* A node on which nothing has run, or a previous pod has left its socket. *)
Init ==
  /\ RetryInit
  /\ proc = "down"
  /\ daemon = "none"
  /\ socket \in BOOLEAN
  /\ removed = FALSE
  /\ driver \in Driver
  /\ label \in Driver \cup {Unlabelled}
  /\ changed = FALSE
  /\ resource = "present"
  /\ deleted = FALSE
  /\ faults = 0

Fault ==
  /\ faults < MaxFaults
  /\ faults' = faults + 1

-----------------------------------------------------------------------------
(* The kubelet starts the container; main reaches LabelCurrentNode.        *)
Boot ==
  /\ proc = "down"
  /\ ~deleted
  /\ proc' = "labelling"
  /\ phase' = Entered.phase
  /\ attempt' = Entered.attempt
  /\ backoff' = Entered.backoff
  /\ failures' = Entered.failures
  /\ waits' = Entered.waits
  /\ cancelled' = FALSE
  /\ UNCHANGED <<daemon, socket, removed, nvars, deleted, faults>>

LabelCurrentNodeMutant ==
  /\ proc = "labelling"
  /\ \/ /\ ~cancelled
        /\ label' = IF label = Unlabelled THEN driver ELSE label
        /\ changed' = FALSE
        /\ proc' = "setup"
        /\ UNCHANGED faults
     \/ /\ (cancelled /\ UNCHANGED faults) \/ Fault
        /\ label' \in {label, driver}
        /\ proc' = "down"
        /\ UNCHANGED changed
  /\ UNCHANGED <<rvars, daemon, socket, removed, driver, resource, deleted>>

(* NVML and the patch succeed, or mpsd exits: NVML or the API server       *)
(* failed, or the signal cancelled the request.  A patch that mpsd saw     *)
(* fail may have reached the node.                                         *)
LabelCurrentNode ==
  /\ proc = "labelling"
  /\ \/ /\ ~cancelled
        /\ label' = driver
        /\ changed' = FALSE
        /\ proc' = "setup"
        /\ UNCHANGED faults
     \/ /\ (cancelled /\ UNCHANGED faults) \/ Fault
        /\ label' \in {label, driver}
        /\ proc' = "down"
        /\ UNCHANGED changed
  /\ UNCHANGED <<rvars, daemon, socket, removed, driver, resource, deleted>>

RemoveStaleSocketMutant(n) == socket' = socket /\ removed' = TRUE /\ faults' = n

(* A failure to remove is logged and otherwise ignored; n failures have    *)
(* happened before it.                                                     *)
RemoveStaleSocket(n) ==
  \/ socket' = FALSE /\ removed' = TRUE /\ faults' = n
  \/ socket /\ n < MaxFaults /\ socket' = TRUE /\ removed' = FALSE /\ faults' = n + 1

(* exec does not start a command whose context is done.                    *)
StartMPS == daemon' = IF cancelled THEN "none" ELSE "starting"

SetupMutant ==
  /\ proc = "setup"
  /\ proc' = "running" /\ StartMPS
  /\ UNCHANGED <<rvars, nvars, deleted, socket, removed, faults>>

(* Directories, config, stale socket; then the first try of Run.           *)
Setup ==
  /\ proc = "setup"
  /\ \/ proc' = "running" /\ RemoveStaleSocket(faults) /\ StartMPS
     \/ proc' = "down" /\ Fault /\ UNCHANGED <<daemon, socket, removed>>
  /\ UNCHANGED <<rvars, nvars, deleted>>

(* cmd.Run returns and the loop goes on: the socket goes before the wait.  *)
AfterTry(u, n) ==
  /\ TryEnds(u)
  /\ daemon' = "none"
  /\ IF phase' = "waiting"
     THEN RemoveStaleSocket(n)
     ELSE faults' = n /\ UNCHANGED <<socket, removed>>
  /\ UNCHANGED <<proc, nvars, deleted>>

(* The daemon binds its socket.                                            *)
DaemonBinds ==
  /\ daemon = "starting"
  /\ ~socket
  /\ daemon' = "up"
  /\ socket' = TRUE
  /\ UNCHANGED <<rvars, proc, removed, nvars, deleted, faults>>

(* It finds the path taken and exits at once.                              *)
BindFails ==
  /\ daemon = "starting"
  /\ socket
  /\ \E u \in Uptimes : u < StableThreshold /\ AfterTry(u, faults)

(* It crashes, or exits without being asked, and leaves its socket.        *)
DaemonExits ==
  /\ daemon \in {"starting", "up"}
  /\ faults < MaxFaults
  /\ \E u \in Uptimes : AfterTry(u, faults + 1)

(* It has drained its clients, or WaitDelay has passed and exec kills it.  *)
DaemonQuits ==
  /\ daemon = "quitting"
  /\ \E u \in Uptimes : TryEnds(u)
  /\ daemon' = "none"
  /\ socket' \in {socket, FALSE}
  /\ UNCHANGED <<proc, removed, nvars, deleted, faults>>

(* cmd.Run returned at once: the context was done before the try.          *)
NotStarted ==
  /\ proc = "running"
  /\ daemon = "none"
  /\ \E u \in Uptimes : AfterTry(u, faults)

RetryMPS ==
  /\ proc = "running"
  /\ WaitEnds
  /\ StartMPS
  /\ UNCHANGED <<proc, socket, removed, nvars, deleted, faults>>

StopWaiting ==
  /\ proc = "running"
  /\ WaitCancelled
  /\ UNCHANGED svars

(* Run has returned; main exits.                                           *)
ExitProcess ==
  /\ proc = "running"
  /\ phase \in {"stopped", "gaveUp"}
  /\ proc' = "down"
  /\ UNCHANGED <<rvars, daemon, socket, removed, nvars, deleted, faults>>

SigtermMutant ==
  /\ proc # "down"
  /\ Cancel
  /\ deleted' = TRUE
  /\ UNCHANGED <<proc, daemon, socket, removed, nvars, faults>>

(* The pod is deleted: SIGTERM cancels the context, and exec's Cancel      *)
(* writes "quit" to a running daemon.                                      *)
Sigterm ==
  /\ proc # "down"
  /\ Cancel
  /\ deleted' = TRUE
  /\ daemon' = IF daemon = "none" THEN "none" ELSE "quitting"
  /\ UNCHANGED <<proc, socket, removed, nvars, faults>>

(* The container is killed, with all its processes.                        *)
Kill ==
  /\ proc # "down"
  /\ Fault
  /\ proc' = "down"
  /\ daemon' = "none"
  /\ UNCHANGED <<rvars, socket, removed, nvars, deleted>>

(* A new mpsd pod takes the place of the deleted one.                      *)
Replace ==
  /\ deleted
  /\ proc = "down"
  /\ Fault
  /\ deleted' = FALSE
  /\ UNCHANGED <<rvars, proc, daemon, socket, removed, nvars>>

(* The driver is replaced: by the GPU Operator, which drains the node      *)
(* first, or out of band at any time.                                      *)
DriverChanges ==
  /\ Fault
  /\ driver' \in Driver \ {driver}
  /\ changed' = TRUE
  /\ UNCHANGED <<rvars, proc, daemon, socket, removed, label, resource, deleted>>

(* The GpuFractioningConfig is deleted; its finalizer keeps it, and the    *)
(* DaemonSets it owns, until the operator has cleaned up.                  *)
DeleteResource ==
  /\ resource = "present"
  /\ resource' = "deleting"
  /\ UNCHANGED <<rvars, proc, daemon, socket, removed, driver, label, changed, deleted, faults>>

(* The operator's clean-up, once or again when a later part of it failed:  *)
(* mpsd still runs, and may be labelling.                                  *)
RemoveDriverMajorLabels ==
  /\ resource = "deleting"
  /\ label # Unlabelled
  /\ label' = Unlabelled
  /\ UNCHANGED <<rvars, proc, daemon, socket, removed, driver, changed, resource, deleted, faults>>

Progress ==
  \/ Boot \/ LabelCurrentNode \/ Setup
  \/ DaemonBinds \/ BindFails \/ DaemonQuits \/ NotStarted
  \/ RetryMPS \/ StopWaiting \/ ExitProcess

Next ==
  \/ Progress
  \/ DaemonExits \/ Sigterm \/ Kill \/ Replace
  \/ DriverChanges \/ DeleteResource \/ RemoveDriverMajorLabels

Spec == Init /\ [][Next]_vars

(* Every step of mpsd, the kubelet and the daemon that is not a failure    *)
(* happens: the process runs, WaitDelay bounds the daemon's exit, timers   *)
(* fire.                                                                   *)
FairSpec == Spec /\ WF_vars(Progress)

-----------------------------------------------------------------------------
(* Whatever crashed before it (the daemon, mpsd, the pod), a daemon starts *)
(* on a free socket path, so that no try of the budget is wasted, unless   *)
(* the file could not be removed.                                          *)
StartsOnFreeSocket == daemon = "starting" /\ removed => ~socket

(* While the daemon runs the label is the version of the driver mpsd found *)
(* when it started, although drivers change and labels outlive pods, with  *)
(* two exceptions: a driver replaced under a running mpsd, which leaves    *)
(* the label stale until a new process labels the node, and the operator's *)
(* clean-up, which removes the label and never leaves an older one.        *)
LabelMatchesDriver ==
  daemon # "none" /\ ~changed =>
    label = driver \/ (label = Unlabelled /\ resource = "deleting")

(* A deleted pod's process ends: the daemon is asked to quit wherever it   *)
(* is, and the loop does not start another.                                *)
SigtermEnds == deleted ~> (proc = "down")

(* Once failures cease the daemon serves again, or the pod is deleted.     *)
Recovers == []<>(daemon = "up" \/ deleted)
=============================================================================
