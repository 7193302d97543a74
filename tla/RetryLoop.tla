----------------------------- MODULE RetryLoop -----------------------------
(***************************************************************************)
(* The loop that keeps a connection (fractiond, runWithRetry) or a child   *)
(* process (mpsd, Supervisor.Run) up.  A try ends; the loop gives up,      *)
(* stops because it was cancelled, or waits and tries again, longer after  *)
(* each failure; a try that lasted long enough resets budget and wait.     *)
(*                                                                         *)
(* Durations are numbers of one unit (both programs cap the wait at 60 s). *)
(***************************************************************************)
EXTENDS Integers

CONSTANTS Interval,         \* retryInterval, Backoff
          MaxBackoff,       \* maxBackoff
          MaxRetries,       \* maxRetries; 0: unlimited
          StableThreshold,  \* stableThreshold
          Uptimes           \* how long a try may last

ASSUME RetryAssumption ==
  /\ Interval \in Nat
  /\ MaxBackoff \in Nat \ {0}
  /\ MaxRetries \in Nat
  /\ StableThreshold \in Nat
  /\ Uptimes \subseteq Nat

VARIABLES
  phase,      \* trying, waiting, or why the loop has ended
  attempt,    \* attempt
  backoff,    \* backoff
  cancelled,  \* ctx is done
  failures,   \* history: tries since the last stable one, this one excluded
  waits       \* history: waits since the loop began or a try was stable

rvars == <<phase, attempt, backoff, cancelled, failures, waits>>

RetryTypeOK ==
  /\ phase \in {"trying", "waiting", "stopped", "gaveUp", "failed"}
  /\ attempt \in Nat
  /\ backoff \in Nat
  /\ cancelled \in BOOLEAN
  /\ failures \in Nat
  /\ waits \in Nat

Entered ==
  [phase |-> "trying", attempt |-> 1, backoff |-> Interval, failures |-> 0, waits |-> 0]

RetryInit ==
  /\ phase = Entered.phase
  /\ attempt = Entered.attempt
  /\ backoff = Entered.backoff
  /\ cancelled = FALSE
  /\ failures = Entered.failures
  /\ waits = Entered.waits

-----------------------------------------------------------------------------
Doubled(b) == IF b * 2 < MaxBackoff THEN b * 2 ELSE MaxBackoff

OutOfRetriesMutant(n) == MaxRetries > 0 /\ n > MaxRetries

OutOfRetries(n) == MaxRetries > 0 /\ n >= MaxRetries

TryEndsMutant(u) ==
  LET stable == u >= StableThreshold
      n      == IF stable THEN -1 ELSE attempt
  IN  /\ phase = "trying"
      /\ IF cancelled
         THEN phase' = "stopped" /\ UNCHANGED <<attempt, backoff, failures, waits>>
         ELSE /\ attempt' = n
              /\ backoff' = IF stable THEN Interval ELSE backoff
              /\ waits' = IF stable THEN 0 ELSE waits
              /\ failures' = IF stable THEN 0 ELSE failures + 1
              /\ phase' = IF OutOfRetries(n) THEN "gaveUp" ELSE "waiting"
      /\ UNCHANGED cancelled

(* The try ends after u.                                                   *)
TryEnds(u) ==
  LET stable == u >= StableThreshold
      n      == IF stable THEN 0 ELSE attempt
  IN  /\ phase = "trying"
      /\ IF cancelled
         THEN phase' = "stopped" /\ UNCHANGED <<attempt, backoff, failures, waits>>
         ELSE /\ attempt' = n
              /\ backoff' = IF stable THEN Interval ELSE backoff
              /\ waits' = IF stable THEN 0 ELSE waits
              /\ failures' = IF stable THEN 0 ELSE failures + 1
              /\ phase' = IF OutOfRetries(n) THEN "gaveUp" ELSE "waiting"
      /\ UNCHANGED cancelled

(* The NRI stub cannot be created: runWithRetry returns without a retry.   *)
CannotTry ==
  /\ phase = "trying"
  /\ phase' = "failed"
  /\ UNCHANGED <<attempt, backoff, cancelled, failures, waits>>

WaitEnds ==
  /\ phase = "waiting"
  /\ phase' = "trying"
  /\ attempt' = attempt + 1
  /\ backoff' = Doubled(backoff)
  /\ waits' = waits + 1
  /\ UNCHANGED <<cancelled, failures>>

(* The wait is cut short.                                                  *)
WaitCancelled ==
  /\ phase = "waiting"
  /\ cancelled
  /\ phase' = "stopped"
  /\ UNCHANGED <<attempt, backoff, cancelled, failures, waits>>

Cancel ==
  /\ ~cancelled
  /\ cancelled' = TRUE
  /\ UNCHANGED <<phase, attempt, backoff, failures, waits>>

RetryNext ==
  \/ \E u \in Uptimes : TryEnds(u)
  \/ CannotTry
  \/ WaitEnds
  \/ WaitCancelled
  \/ Cancel

RetrySpec == RetryInit /\ [][RetryNext]_rvars

-----------------------------------------------------------------------------
(* The loop gives up exactly when MaxRetries tries in a row have failed,   *)
(* never early and never late, whatever stable tries came before, and not  *)
(* at all when MaxRetries is 0.                                            *)
BudgetExact ==
  /\ phase = "gaveUp" => MaxRetries > 0 /\ failures = MaxRetries
  /\ phase \in {"trying", "waiting"} /\ MaxRetries > 0 => failures < MaxRetries

(* The wait never falls below the smaller of the interval and the cap (no  *)
(* busy loop), never exceeds the larger, and exceeds the cap only in the   *)
(* first wait after a reset.                                               *)
BackoffBounded ==
  /\ backoff >= Interval \/ backoff = MaxBackoff
  /\ backoff <= MaxBackoff \/ (backoff = Interval /\ waits = 0)
=============================================================================
