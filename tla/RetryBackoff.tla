----------------------------- MODULE RetryBackoff ------------------------------
(***************************************************************************)
(* How the retry loops of Client.Read and Client.Scan pass the time: a     *)
(* policy is normalised when the client is made, and each call then waits  *)
(* between its attempts.  What an attempt does is the subject of           *)
(* RecordReads and ScanPages; here it just succeeds, fails for good, or    *)
(* asks for another.                                                       *)
(***************************************************************************)
EXTENDS RetryPolicy

VARIABLES
    pc,       \* "new", "refused", "ready", "attempt" or "wait"
    policy,   \* clientConfig.readRetry or scanRetry
    attempt,  \* number of the attempt, from 1
    backoff,  \* the loop's variable backoff
    delay,    \* the jittered delay being waited for
    waited    \* history: time spent waiting in this call

vars == <<pc, policy, attempt, backoff, delay, waited>>

Init ==
    /\ pc = "new" /\ policy = WithDefaults(ZeroPolicy)
    /\ attempt = 0 /\ backoff = 0 /\ delay = 0 /\ waited = 0

\* The policy passes normalizeRetryPolicy and is the client's.
Configure ==
    /\ pc \in {"new", "refused"} /\ pc' = "ready"
    /\ \E p \in Policies : Accepted(p) /\ policy' = WithDefaults(p)
    /\ UNCHANGED <<attempt, backoff, delay, waited>>

\* It does not; no client is made.
Refuse ==
    /\ pc = "new" /\ pc' = "refused"
    /\ \E p \in Policies : ~Accepted(p)
    /\ UNCHANGED <<policy, attempt, backoff, delay, waited>>

\* A call begins its first attempt.
Begin ==
    /\ pc = "ready" /\ pc' = "attempt"
    /\ attempt' = 1 /\ backoff' = policy.InitialBackoff
    /\ delay' = 0 /\ waited' = 0
    /\ UNCHANGED policy

\* The attempt ends the call: success, an error that is not retried, or the
\* last attempt.
Finish ==
    /\ pc = "attempt" /\ pc' = "ready"
    /\ UNCHANGED <<policy, attempt, backoff, delay, waited>>

\* The attempt is to be retried and is not the last: a timer is started.
Retry ==
    /\ pc = "attempt" /\ attempt < policy.MaxAttempts
    /\ pc' = "wait"
    /\ delay' \in JitteredBackoffs(backoff, policy.Jitter)
    /\ UNCHANGED <<policy, attempt, backoff, waited>>

\* The timer has fired, at once if the delay is not positive; the backoff grows
\* and the next attempt begins.
Elapse ==
    /\ pc = "wait" /\ pc' = "attempt"
    /\ waited' = waited + (IF delay > 0 THEN delay ELSE 0)
    /\ backoff' \in NextBackoffs(backoff, policy)
    /\ attempt' = attempt + 1
    /\ UNCHANGED <<policy, delay>>

\* The context is done first; the call returns its error.
Cancelled ==
    /\ pc = "wait" /\ pc' = "ready"
    /\ UNCHANGED <<policy, attempt, backoff, delay, waited>>

Next == Configure \/ Refuse \/ Begin \/ Finish \/ Retry \/ Elapse \/ Cancelled

Spec == Init /\ [][Next]_vars

-------------------------------------------------------------------------------
(***************************************************************************)
(* Correctness.                                                            *)
(***************************************************************************)

TypeOK ==
    /\ pc \in {"new", "refused", "ready", "attempt", "wait"}
    /\ policy \in RetryPolicies
    /\ policy.MaxAttempts \in Nat \ {0}
    /\ policy.InitialBackoff \in Nat \ {0} /\ policy.MaxBackoff \in Nat \ {0}
    /\ attempt \in 0 .. policy.MaxAttempts
    /\ backoff \in Int /\ delay \in Int /\ waited \in Nat

InCall == pc \in {"attempt", "wait"}

\* A policy without NaN.
Numeric == policy.Multiplier # NaN /\ policy.Jitter # NaN

\* Whatever policy was accepted and however many attempts were made, the
\* backoff lies between InitialBackoff and MaxBackoff: the defaults that
\* normalizeRetryPolicy fills in never undercut a field the caller gave.
BackoffBounded ==
    InCall /\ Numeric =>
        policy.InitialBackoff <= backoff /\ backoff <= policy.MaxBackoff

\* A call spends, in all its waits together, at most the cap plus its jitter
\* for every retry: what the retry loops add to a call's duration is bounded.
WaitBounded ==
    InCall /\ Numeric =>
        waited * Scale <= (attempt - 1) * (policy.MaxBackoff * (Scale + policy.Jitter))

\* Normalising is settled: the policy in use would be accepted and come out the
\* same, so that a caller may pass a normalised policy on.
NormalizeSettled == Accepted(policy) /\ WithDefaults(policy) = policy

\* Within a call the backoff never shrinks, although the product is truncated.
BackoffMonotone ==
    [][InCall /\ InCall' /\ Numeric => backoff' >= backoff]_vars

\* With the default jitter, and a start above one nanosecond, no retry follows
\* its predecessor at once: the loops back off, as the README says of reads.
RetriesSpaced ==
    pc = "wait" /\ policy.Jitter = DefaultJitter /\ policy.InitialBackoff > 1 =>
        delay > 0

================================================================================
