-------------------------- MODULE SupervisorProofs -------------------------
(***************************************************************************)
(* Proofs about the retry loop and about mpsd built on it.                 *)
(***************************************************************************)
EXTENDS Supervisor, TLAPS

-----------------------------------------------------------------------------
(* attempt counts the try that is running, failures those that ended.      *)
RetryInv ==
  /\ RetryTypeOK
  /\ phase = "trying" => attempt = failures + 1
  /\ phase \in {"waiting", "gaveUp"} => attempt = failures
  /\ BudgetExact
  /\ BackoffBounded

(* Entering the loop.                                                      *)
LEMMA RetryEntered ==
  ASSUME phase = Entered.phase, attempt = Entered.attempt, backoff = Entered.backoff,
         failures = Entered.failures, waits = Entered.waits, cancelled \in BOOLEAN
  PROVE  RetryInv
  BY RetryAssumption DEF Entered, RetryInv, RetryTypeOK, BudgetExact, BackoffBounded

(* An attempt that ends.                                                   *)
LEMMA TryEndsKeeps ==
  ASSUME RetryInv, NEW u \in Uptimes, TryEnds(u)
  PROVE  RetryInv'
  <1>1. CASE cancelled
    BY <1>1, RetryAssumption DEF TryEnds, RetryInv, RetryTypeOK, BudgetExact, BackoffBounded
  <1>2. CASE ~cancelled
    <2>1. u \in Nat
      BY RetryAssumption
    <2>2. RetryTypeOK'
      BY <1>2, <2>1, RetryAssumption DEF TryEnds, RetryInv, RetryTypeOK
    <2>3. (phase' = "trying" => attempt' = failures' + 1)
          /\ (phase' \in {"waiting", "gaveUp"} => attempt' = failures')
      BY <1>2, <2>1, RetryAssumption DEF TryEnds, RetryInv, RetryTypeOK
    <2>4. BudgetExact'
      BY <1>2, <2>1, RetryAssumption DEF TryEnds, RetryInv, RetryTypeOK, BudgetExact, OutOfRetries
    <2>5. BackoffBounded'
      BY <1>2, <2>1, RetryAssumption DEF TryEnds, RetryInv, RetryTypeOK, BackoffBounded
    <2> QED
      BY <2>2, <2>3, <2>4, <2>5 DEF RetryInv
  <1> QED
    BY <1>1, <1>2

(* A backoff that ends.                                                    *)
LEMMA WaitEndsKeeps ==
  ASSUME RetryInv, WaitEnds
  PROVE  RetryInv'
  BY RetryAssumption
  DEF WaitEnds, Doubled, RetryInv, RetryTypeOK, BudgetExact, BackoffBounded

(* A cancelled loop.                                                       *)
LEMMA StopKeeps ==
  ASSUME RetryInv, CannotTry \/ WaitCancelled \/ Cancel \/ UNCHANGED rvars
  PROVE  RetryInv'
  BY Zenon DEF CannotTry, WaitCancelled, Cancel, rvars, RetryInv, RetryTypeOK, BudgetExact, BackoffBounded

(* The invariant of the loop, in every reachable state.                    *)
LEMMA RetryInvariant == RetrySpec => []RetryInv
  <1>1. RetryInit => RetryInv
    BY RetryEntered, Zenon DEF RetryInit
  <1>2. RetryInv /\ [RetryNext]_rvars => RetryInv'
    BY TryEndsKeeps, WaitEndsKeeps, StopKeeps DEF RetryNext
  <1> QED
    BY <1>1, <1>2, PTL DEF RetrySpec

(* For every interval, cap, threshold and budget: runWithRetry and         *)
(* Supervisor.Run give up exactly when MaxRetries tries in a row failed.   *)
THEOREM GivesUpExactly == RetrySpec => []BudgetExact
  <1>1. RetryInv => BudgetExact
    BY DEF RetryInv
  <1> QED
    BY <1>1, RetryInvariant, PTL

(* For every interval and cap: the wait stays between the two.             *)
THEOREM WaitStaysBounded == RetrySpec => []BackoffBounded
  <1>1. RetryInv => BackoffBounded
    BY DEF RetryInv
  <1> QED
    BY <1>1, RetryInvariant, PTL

-----------------------------------------------------------------------------
(* A daemon exists only inside a try of a running process; a process past  *)
(* LabelCurrentNode has labelled its node, and only a later driver or the  *)
(* operator's clean-up takes that back; the socket is gone before the wait *)
(* that precedes a start.                                                  *)
SupervisorInv ==
  /\ TypeOK
  /\ RetryInv
  /\ daemon # "none" => proc = "running" /\ phase = "trying"
  /\ daemon = "quitting" => cancelled
  /\ proc \in {"labelling", "setup"} => phase = "trying"
  /\ proc \in {"setup", "running"} /\ ~changed =>
       label = driver \/ (label = Unlabelled /\ resource = "deleting")
  /\ daemon = "starting" /\ removed => ~socket
  /\ proc = "running" /\ phase = "waiting" /\ removed => ~socket

(* The invariant holds before the first try.                               *)
LEMMA SupervisorInit == Init => SupervisorInv
  <1> SUFFICES ASSUME Init PROVE SupervisorInv
    OBVIOUS
  <1>1. RetryInv
    BY RetryEntered, Zenon DEF Init, RetryInit
  <1>2. TypeOK
    <2>1. RetryTypeOK
      BY <1>1 DEF RetryInv
    <2>2. faults \in 0 .. MaxFaults
      BY SupervisorAssumption DEF Init
    <2> QED
      BY <2>1, <2>2, Zenon DEF Init, TypeOK
  <1> QED
    BY <1>1, <1>2 DEF Init, RetryInit, Entered, SupervisorInv

(* The end of a try, and the socket it leaves.                             *)
LEMMA AfterTryKeeps ==
  ASSUME SupervisorInv, proc = "running",
         NEW u \in Uptimes, NEW n \in 0 .. MaxFaults, AfterTry(u, n)
  PROVE  SupervisorInv'
  <1>1. RetryInv'
    BY TryEndsKeeps DEF SupervisorInv, AfterTry
  <1>2. TypeOK'
    <2>1. RetryTypeOK'
      BY <1>1 DEF RetryInv
    <2>2. faults' \in 0 .. MaxFaults
      BY SupervisorAssumption DEF AfterTry, RemoveStaleSocket
    <2>3. socket' \in BOOLEAN /\ removed' \in BOOLEAN
      BY Zenon DEF AfterTry, nvars, RemoveStaleSocket, SupervisorInv, TypeOK
    <2> QED
      BY <2>1, <2>2, <2>3 DEF SupervisorInv, AfterTry, nvars, TypeOK
  <1>3. (proc' = "running" /\ phase' = "waiting" /\ removed' => ~socket')
    BY DEF AfterTry, RemoveStaleSocket
  <1> QED
    BY <1>1, <1>2, <1>3 DEF SupervisorInv, AfterTry, nvars

(* Every step of the process, of the daemon it supervises and of the node  *)
(* keeps the invariant.                                                    *)
LEMMA SupervisorStep ==
  ASSUME SupervisorInv, [Next]_vars
  PROVE  SupervisorInv'
  <1>1. CASE Boot
    <2>1. RetryInv'
      <3>1. /\ phase' = "trying" /\ attempt' = 1 /\ backoff' = Interval
            /\ failures' = 0 /\ waits' = 0 /\ cancelled' \in BOOLEAN
        BY <1>1, Zenon DEF Boot, nvars, Entered
      <3> QED
        BY <3>1, RetryAssumption DEF RetryInv, RetryTypeOK, BudgetExact, BackoffBounded
    <2>2. TypeOK'
      <3>1. RetryTypeOK'
        BY <2>1 DEF RetryInv
      <3>2. faults' \in 0 .. MaxFaults
        BY <1>1, SupervisorAssumption DEF Boot, nvars, SupervisorInv, TypeOK
      <3> QED
        BY <1>1, <3>1, <3>2 DEF Boot, nvars, SupervisorInv, TypeOK
    <2> QED
      BY <1>1, <2>1, <2>2 DEF Boot, nvars, Entered, SupervisorInv
  <1>2. CASE LabelCurrentNode
    <2>1. RetryInv'
      BY <1>2, StopKeeps DEF LabelCurrentNode, SupervisorInv
    <2>2. TypeOK'
      <3>1. RetryTypeOK'
        BY <2>1 DEF RetryInv
      <3>2. faults' \in 0 .. MaxFaults
        BY <1>2, SupervisorAssumption DEF LabelCurrentNode, Fault, SupervisorInv, TypeOK
      <3> QED
        BY <1>2, <3>1, <3>2, Zenon DEF LabelCurrentNode, Fault, SupervisorInv, TypeOK
    <2> QED
      BY <1>2, <2>1, <2>2 DEF LabelCurrentNode, Fault, rvars, SupervisorInv
  <1>3. CASE Setup
    <2>1. RetryInv'
      BY <1>3, StopKeeps DEF Setup, nvars, SupervisorInv
    <2>2. TypeOK'
      <3>1. RetryTypeOK'
        BY <2>1 DEF RetryInv
      <3>2. faults' \in 0 .. MaxFaults
        BY <1>3, SupervisorAssumption DEF Setup, nvars, StartMPS, RemoveStaleSocket, Fault, SupervisorInv, TypeOK
      <3> QED
        BY <1>3, <3>1, <3>2, Zenon DEF Setup, nvars, StartMPS, RemoveStaleSocket, Fault, SupervisorInv, TypeOK
    <2> QED
      BY <1>3, <2>1, <2>2 DEF Setup, nvars, StartMPS, RemoveStaleSocket, Fault, rvars, SupervisorInv
  <1>4. CASE DaemonBinds
    <2>1. RetryInv'
      BY <1>4, StopKeeps DEF DaemonBinds, nvars, SupervisorInv
    <2>2. TypeOK'
      <3>1. RetryTypeOK'
        BY <2>1 DEF RetryInv
      <3>2. faults' \in 0 .. MaxFaults
        BY <1>4, SupervisorAssumption DEF DaemonBinds, nvars, SupervisorInv, TypeOK
      <3> QED
        BY <1>4, <3>1, <3>2 DEF DaemonBinds, nvars, SupervisorInv, TypeOK
    <2> QED
      BY <1>4, <2>1, <2>2 DEF DaemonBinds, nvars, rvars, SupervisorInv
  <1>5. CASE BindFails
    BY <1>5, AfterTryKeeps DEF BindFails, SupervisorInv, TypeOK
  <1>6. CASE DaemonExits
    <2>1. faults + 1 \in 0 .. MaxFaults
      BY <1>6, SupervisorAssumption DEF DaemonExits, SupervisorInv, TypeOK
    <2> QED
      BY <1>6, <2>1, AfterTryKeeps DEF DaemonExits, SupervisorInv
  <1>7. CASE DaemonQuits
    <2>1. RetryInv'
      BY <1>7, TryEndsKeeps DEF DaemonQuits, nvars, SupervisorInv
    <2>2. TypeOK'
      <3>1. RetryTypeOK'
        BY <2>1 DEF RetryInv
      <3>2. faults' \in 0 .. MaxFaults
        BY <1>7, SupervisorAssumption DEF DaemonQuits, nvars, SupervisorInv, TypeOK
      <3> QED
        BY <1>7, <3>1, <3>2, Zenon DEF DaemonQuits, nvars, SupervisorInv, TypeOK
    <2> QED
      BY <1>7, <2>1, <2>2 DEF DaemonQuits, nvars, TryEnds, SupervisorInv
  <1>8. CASE NotStarted
    BY <1>8, AfterTryKeeps DEF NotStarted, SupervisorInv, TypeOK
  <1>9. CASE RetryMPS
    <2>1. RetryInv'
      BY <1>9, WaitEndsKeeps DEF RetryMPS, nvars, SupervisorInv
    <2>2. TypeOK'
      <3>1. RetryTypeOK'
        BY <2>1 DEF RetryInv
      <3>2. faults' \in 0 .. MaxFaults
        BY <1>9, SupervisorAssumption DEF RetryMPS, nvars, StartMPS, SupervisorInv, TypeOK
      <3> QED
        BY <1>9, <3>1, <3>2 DEF RetryMPS, nvars, StartMPS, SupervisorInv, TypeOK
    <2> QED
      BY <1>9, <2>1, <2>2 DEF RetryMPS, nvars, StartMPS, WaitEnds, SupervisorInv
  <1>10. CASE StopWaiting
    <2>1. RetryInv'
      BY <1>10, StopKeeps DEF StopWaiting, SupervisorInv
    <2>2. TypeOK'
      <3>1. RetryTypeOK'
        BY <2>1 DEF RetryInv
      <3>2. faults' \in 0 .. MaxFaults
        BY <1>10, SupervisorAssumption DEF StopWaiting, svars, nvars, SupervisorInv, TypeOK
      <3> QED
        BY <1>10, <3>1, <3>2 DEF StopWaiting, svars, nvars, SupervisorInv, TypeOK
    <2> QED
      BY <1>10, <2>1, <2>2 DEF StopWaiting, svars, nvars, WaitCancelled, SupervisorInv
  <1>11. CASE ExitProcess
    <2>1. RetryInv'
      BY <1>11, StopKeeps DEF ExitProcess, nvars, SupervisorInv
    <2>2. TypeOK'
      <3>1. RetryTypeOK'
        BY <2>1 DEF RetryInv
      <3>2. faults' \in 0 .. MaxFaults
        BY <1>11, SupervisorAssumption DEF ExitProcess, nvars, SupervisorInv, TypeOK
      <3> QED
        BY <1>11, <3>1, <3>2 DEF ExitProcess, nvars, SupervisorInv, TypeOK
    <2> QED
      BY <1>11, <2>1, <2>2 DEF ExitProcess, nvars, rvars, SupervisorInv
  <1>12. CASE Kill
    <2>1. RetryInv'
      BY <1>12, StopKeeps DEF Kill, nvars, SupervisorInv
    <2>2. TypeOK'
      <3>1. RetryTypeOK'
        BY <2>1 DEF RetryInv
      <3>2. faults' \in 0 .. MaxFaults
        BY <1>12, SupervisorAssumption DEF Kill, nvars, Fault, SupervisorInv, TypeOK
      <3> QED
        BY <1>12, <3>1, <3>2 DEF Kill, nvars, Fault, SupervisorInv, TypeOK
    <2> QED
      BY <1>12, <2>1, <2>2 DEF Kill, nvars, Fault, rvars, SupervisorInv
  <1>13. CASE Replace
    <2>1. RetryInv'
      BY <1>13, StopKeeps DEF Replace, nvars, SupervisorInv
    <2>2. TypeOK'
      <3>1. RetryTypeOK'
        BY <2>1 DEF RetryInv
      <3>2. faults' \in 0 .. MaxFaults
        BY <1>13, SupervisorAssumption DEF Replace, nvars, Fault, SupervisorInv, TypeOK
      <3> QED
        BY <1>13, <3>1, <3>2, Zenon DEF Replace, nvars, Fault, SupervisorInv, TypeOK
    <2> QED
      BY <1>13, <2>1, <2>2 DEF Replace, nvars, Fault, rvars, SupervisorInv
  <1>14. CASE DriverChanges
    <2>1. RetryInv'
      BY <1>14, StopKeeps DEF DriverChanges, SupervisorInv
    <2>2. TypeOK'
      <3>1. RetryTypeOK'
        BY <2>1 DEF RetryInv
      <3>2. faults' \in 0 .. MaxFaults
        BY <1>14, SupervisorAssumption DEF DriverChanges, Fault, SupervisorInv, TypeOK
      <3> QED
        BY <1>14, <3>1, <3>2 DEF DriverChanges, Fault, SupervisorInv, TypeOK
    <2> QED
      BY <1>14, <2>1, <2>2 DEF DriverChanges, Fault, rvars, SupervisorInv
  <1>15. CASE Sigterm
    <2>1. RetryInv'
      BY <1>15, StopKeeps DEF Sigterm, nvars, SupervisorInv
    <2>2. TypeOK'
      <3>1. RetryTypeOK'
        BY <2>1 DEF RetryInv
      <3>2. faults' \in 0 .. MaxFaults
        BY <1>15, SupervisorAssumption DEF Sigterm, nvars, SupervisorInv, TypeOK
      <3> QED
        BY <1>15, <3>1, <3>2 DEF Sigterm, nvars, SupervisorInv, TypeOK
    <2> QED
      BY <1>15, <2>1, <2>2 DEF Sigterm, nvars, Cancel, SupervisorInv
  <1>16. CASE DeleteResource
    <2>1. RetryInv'
      BY <1>16, StopKeeps DEF DeleteResource, SupervisorInv
    <2>2. TypeOK'
      <3>1. RetryTypeOK'
        BY <2>1 DEF RetryInv
      <3>2. faults' \in 0 .. MaxFaults
        BY <1>16, SupervisorAssumption DEF DeleteResource, SupervisorInv, TypeOK
      <3> QED
        BY <1>16, <3>1, <3>2 DEF DeleteResource, SupervisorInv, TypeOK
    <2> QED
      BY <1>16, <2>1, <2>2 DEF DeleteResource, rvars, SupervisorInv
  <1>17. CASE RemoveDriverMajorLabels
    <2>1. RetryInv'
      BY <1>17, StopKeeps DEF RemoveDriverMajorLabels, SupervisorInv
    <2>2. TypeOK'
      <3>1. RetryTypeOK'
        BY <2>1 DEF RetryInv
      <3>2. faults' \in 0 .. MaxFaults
        BY <1>17, SupervisorAssumption DEF RemoveDriverMajorLabels, SupervisorInv, TypeOK
      <3> QED
        BY <1>17, <3>1, <3>2 DEF RemoveDriverMajorLabels, SupervisorInv, TypeOK
    <2> QED
      BY <1>17, <2>1, <2>2 DEF RemoveDriverMajorLabels, rvars, SupervisorInv
  <1>18. CASE UNCHANGED vars
    <2>1. RetryInv'
      BY <1>18, StopKeeps DEF vars, SupervisorInv
    <2>2. TypeOK'
      <3>1. RetryTypeOK'
        BY <2>1 DEF RetryInv
      <3>2. faults' \in 0 .. MaxFaults
        BY <1>18, SupervisorAssumption DEF vars, svars, nvars, SupervisorInv, TypeOK
      <3> QED
        BY <1>18, <3>1, <3>2 DEF vars, svars, nvars, SupervisorInv, TypeOK
    <2> QED
      BY <1>18, <2>1, <2>2 DEF vars, svars, nvars, rvars, SupervisorInv
  <1> QED
    BY <1>1, <1>2, <1>3, <1>4, <1>5, <1>6, <1>7, <1>8, <1>9, <1>10, <1>11, <1>12, <1>13, <1>14, <1>15,
       <1>16, <1>17, <1>18
    DEF Next, Progress

(* The invariant the theorems of the supervisor rest on.                   *)
LEMMA SupervisorInvariant == Spec => []SupervisorInv
  BY SupervisorInit, SupervisorStep, PTL DEF Spec

(* The type invariant of mpsd.                                             *)
THEOREM SupervisorTypeCorrect == Spec => []TypeOK
  <1>1. SupervisorInv => TypeOK
    BY DEF SupervisorInv
  <1> QED
    BY <1>1, SupervisorInvariant, PTL

(* removeStaleSocket in setup and in the loop is enough: a daemon starts   *)
(* on a free path for every number and order of crashes.                   *)
THEOREM NeverStartsOverStaleSocket == Spec => []StartsOnFreeSocket
  <1>1. SupervisorInv => StartsOnFreeSocket
    BY DEF SupervisorInv, StartsOnFreeSocket
  <1> QED
    BY <1>1, SupervisorInvariant, PTL

(* LabelCurrentNode before the first start is enough, for every order of   *)
(* crashes, replacements of the pod, driver changes and clean-ups: no      *)
(* daemon runs beside the label of a driver that was gone when its mpsd    *)
(* started.                                                                *)
THEOREM LabelIsCurrent == Spec => []LabelMatchesDriver
  <1>1. SupervisorInv => LabelMatchesDriver
    BY DEF SupervisorInv, LabelMatchesDriver
  <1> QED
    BY <1>1, SupervisorInvariant, PTL

(* The budget is exact across restarts of the process.                     *)
THEOREM BudgetSurvivesRestarts == Spec => []BudgetExact
  <1>1. SupervisorInv => BudgetExact
    BY DEF SupervisorInv, RetryInv, BudgetExact
  <1> QED
    BY <1>1, SupervisorInvariant, PTL
=============================================================================
