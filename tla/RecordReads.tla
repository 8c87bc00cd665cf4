------------------------------ MODULE RecordReads ------------------------------
(***************************************************************************)
(* One call of Client.Read: the collection is validated, split into        *)
(* batches of at most MaxOperations, and every batch is read with retries  *)
(* (readOperationsWithRetry).  The server is external: an attempt ends in  *)
(* any response it may give, well formed or not, or in a gRPC error.  A    *)
(* server that answers index i of a request answers the operation the      *)
(* client put there; which answer it gives is free.                        *)
(***************************************************************************)
EXTENDS Results

CONSTANTS
    MaxCount,       \* bound on the number of addresses in a call
    MaxOperations,  \* clientConfig.maxOperations
    MaxAttempts     \* clientConfig.readRetry.MaxAttempts

\* newClientConfig and normalizeRetryPolicy replace zero and refuse negatives.
ASSUME ReadAssumption ==
    /\ MaxCount \in Nat
    /\ MaxOperations \in Nat \ {0}
    /\ MaxAttempts \in Nat \ {0}

VARIABLES
    pc,        \* "idle", "call" (an attempt), "backoff" or "done"
    ctxDone,   \* the caller's context is cancelled or past its deadline
    count,     \* len(addresses)
    start,     \* first operation of the current batch
    attempt,   \* attempts begun for the current batch
    pending,   \* batch indexes of the operations still to be read, in order
    batch,     \* results of the current batch, by batch index
    results,   \* results of the finished batches
    outcome,   \* how the call ended
    sent       \* history: requests in which each operation was sent

vars == <<pc, ctxDone, count, start, attempt, pending, batch, results, outcome, sent>>

\* The zero ReadResult of an operation nobody has answered yet.
Unanswered ==
    [OperationIndex |-> 0, Status |-> "unspecified", Document |-> FALSE,
     Failure |-> NoFailure, of |-> -1]

BatchLen(first) ==
    IF first + MaxOperations <= count THEN MaxOperations ELSE count - first

Retryable(result) == result.Failure.Retryable

Init ==
    /\ pc = "idle" /\ ctxDone = FALSE
    /\ count = 0 /\ start = 0 /\ attempt = 0
    /\ pending = [i \in {} |-> 0]
    /\ batch = [i \in {} |-> Unanswered]
    /\ results = [i \in {} |-> Unanswered]
    /\ outcome = "none"
    /\ sent = [i \in Slice(MaxCount) |-> 0]

-------------------------------------------------------------------------------

\* Begin readOperationsWithRetry for the n operations from first on.
BeginBatch(first, n) ==
    /\ pc' = "call"
    /\ start' = first
    /\ attempt' = 1
    /\ pending' = [i \in Slice(n) |-> i]
    /\ batch' = [i \in Slice(n) |-> Unanswered]

Return(how) == pc' = "done" /\ outcome' = how

\* Read with no address, or with one that is not canonical, sends nothing.
Reject ==
    /\ pc = "idle"
    /\ \E n \in 0 .. MaxCount :
          \E invalid \in SUBSET Slice(n) :
             /\ n = 0 \/ invalid # {}
             /\ count' = n
    /\ Return("rejected")
    /\ UNCHANGED <<ctxDone, start, attempt, pending, batch, results, sent>>

Call ==
    /\ pc = "idle"
    /\ \E n \in 1 .. MaxCount :
          /\ count' = n
          /\ BeginBatch(0, IF MaxOperations <= n THEN MaxOperations ELSE n)
    /\ UNCHANGED <<ctxDone, results, outcome, sent>>

\* One request carries exactly the pending operations.
SendPending ==
    sent' = [i \in Slice(MaxCount) |->
               IF \E k \in DOMAIN pending : start + pending[k] = i
               THEN sent[i] + 1 ELSE sent[i]]

\* The attempt fails with Unavailable and another one is left.
RetryUnavailable ==
    /\ pc = "call" /\ attempt < MaxAttempts
    /\ SendPending
    /\ pc' = "backoff"
    /\ UNCHANGED <<ctxDone, count, start, attempt, pending, batch, results, outcome>>

\* The attempt fails for good: another code, or Unavailable at the last one.
FailAttempt ==
    /\ pc = "call"
    /\ SendPending
    /\ Return("transport")
    /\ UNCHANGED <<ctxDone, count, start, attempt, pending, batch, results>>

\* What one result of a response may say; the last three are malformed.
Bodies ==
    { <<"found", "valid", "nil">>, <<"notFound", "nil", "nil">>,
      <<"failed", "nil", "retryable">>, <<"failed", "nil", "permanent">>,
      <<"found", "invalid", "nil">>, <<"failed", "nil", "invalid">>,
      <<"unspecified", "nil", "nil">> }

\* A result for index i of the request; index n is out of range.
WireResults(n) ==
    { [operationIndex |-> i,
       status |-> body[1], document |-> body[2], failure |-> body[3],
       of |-> IF i < n THEN start + pending[i] ELSE -1] :
      i \in 0 .. n, body \in Bodies }

\* Responses with the right number of results or one too few.
Responses(n) ==
    [Slice(n) -> WireResults(n)] \cup [Slice(n - 1) -> WireResults(n)]

Requested == Cardinality(DOMAIN pending)

\* The response does not decode: a ProtocolError, and the batch is dropped.
MalformedResponse ==
    /\ pc = "call"
    /\ \E response \in Responses(Requested) :
          ~ ReadDecodable(response, Requested)
    /\ SendPending
    /\ Return("protocol")
    /\ UNCHANGED <<ctxDone, count, start, attempt, pending, batch, results>>

\* results[work.index] = result, under the operation's index in the batch.
Merge(decoded) ==
    [i \in DOMAIN batch |->
        IF \E k \in DOMAIN pending : pending[k] = i
        THEN Renumber(decoded[CHOOSE k \in DOMAIN pending : pending[k] = i], i)
        ELSE batch[i]]

\* Faulty variant: one retryable failure sends the whole request again.
RetriedTogether(decoded) ==
    { k \in DOMAIN pending :
        attempt < MaxAttempts /\ \E j \in DOMAIN pending : Retryable(decoded[j]) }

\* Faulty variant: the last attempt is not used for retryable failures.
RetriedTooRarely(decoded) ==
    { k \in DOMAIN pending : attempt + 1 < MaxAttempts /\ Retryable(decoded[k]) }

\* Request positions whose operation is read again.
Retried(decoded) ==
    { k \in DOMAIN pending : attempt < MaxAttempts /\ Retryable(decoded[k]) }

\* The increasing enumeration of a finite set of naturals, as a slice.
InOrder(S) ==
    { e \in [Slice(Cardinality(S)) -> S] :
        \A j, k \in Slice(Cardinality(S)) : j < k => e[j] < e[k] }

\* Some operations failed retryably: only those are pending after a backoff.
PartialResponse ==
    /\ pc = "call"
    /\ \E response \in Responses(Requested) :
          /\ ReadDecodable(response, Requested)
          /\ LET decoded == Decoded(response, Requested)
             IN  /\ Retried(decoded) # {}
                 /\ batch' = Merge(decoded)
                 /\ \E e \in InOrder(Retried(decoded)) :
                       pending' = [k \in DOMAIN e |-> pending[e[k]]]
    /\ SendPending
    /\ pc' = "backoff"
    /\ UNCHANGED <<ctxDone, count, start, attempt, results, outcome>>

\* Faulty variant: the last, shorter batch is left out.
FinishBatchDropsTail(finished) ==
    LET n    == BatchLen(start)
        next == start + MaxOperations
    IN  /\ results' = AppendSlice(results, start, RemapIndexes(finished, start), n)
        /\ \/ /\ next + MaxOperations <= count
              /\ BeginBatch(next, BatchLen(next))
              /\ UNCHANGED outcome
           \/ /\ next + MaxOperations > count
              /\ Return("ok")
              /\ start' = count
              /\ batch' = finished
              /\ UNCHANGED <<attempt, pending>>

\* The batch is finished: its results are renumbered and appended, and the
\* next batch begins, if there is one.
FinishBatch(finished) ==
    LET n    == BatchLen(start)
        next == start + MaxOperations
    IN  /\ results' = AppendSlice(results, start, RemapIndexes(finished, start), n)
        /\ \/ /\ next < count
              /\ BeginBatch(next, BatchLen(next))
              /\ UNCHANGED outcome
           \/ /\ next >= count
              /\ Return("ok")
              /\ start' = count
              /\ batch' = finished
              /\ UNCHANGED <<attempt, pending>>

FinalResponse ==
    /\ pc = "call"
    /\ \E response \in Responses(Requested) :
          /\ ReadDecodable(response, Requested)
          /\ LET decoded == Decoded(response, Requested)
             IN  Retried(decoded) = {} /\ FinishBatch(Merge(decoded))
    /\ SendPending
    /\ UNCHANGED <<ctxDone, count>>

\* Faulty variant: one timer serves every wait of a batch and is never reset,
\* so that its channel delivers for the first wait only.
BackoffElapsesOnce ==
    /\ pc = "backoff" /\ attempt = 1
    /\ pc' = "call"
    /\ attempt' = attempt + 1
    /\ UNCHANGED <<ctxDone, count, start, pending, batch, results, outcome, sent>>

\* waitForBackoff: the delay passes, or the context ends first.
BackoffElapses ==
    /\ pc = "backoff"
    /\ pc' = "call"
    /\ attempt' = attempt + 1
    /\ UNCHANGED <<ctxDone, count, start, pending, batch, results, outcome, sent>>

BackoffCancelled ==
    /\ pc = "backoff" /\ ctxDone
    /\ Return("cancelled")
    /\ UNCHANGED <<ctxDone, count, start, attempt, pending, batch, results, sent>>

\* The caller cancels, or its deadline passes.
CancelContext ==
    /\ pc \in {"call", "backoff"} /\ ~ctxDone
    /\ ctxDone' = TRUE
    /\ UNCHANGED <<pc, count, start, attempt, pending, batch, results, outcome, sent>>

Attempt ==
    \/ RetryUnavailable \/ FailAttempt
    \/ MalformedResponse \/ PartialResponse \/ FinalResponse

Next ==
    \/ Reject \/ Call \/ Attempt
    \/ BackoffElapses \/ BackoffCancelled \/ CancelContext

Spec == Init /\ [][Next]_vars

\* An RPC ends and a backoff passes.
Fairness == WF_vars(Attempt) /\ WF_vars(BackoffElapses)

FairSpec == Spec /\ Fairness

-------------------------------------------------------------------------------
(***************************************************************************)
(* Correctness.                                                            *)
(***************************************************************************)

\* Result i of Read is the server's answer to address i, and both its index
\* and that of its failure say so, whatever the order of the server's
\* results, the split into batches and the attempts it took.
ResultsAligned ==
    \A i \in DOMAIN results :
        /\ results[i].of = i
        /\ results[i].OperationIndex = i
        /\ results[i].Failure # NoFailure => results[i].Failure.OperationIndex = i

\* No address is sent more often than MaxAttempts, whether the attempts were
\* used up by Unavailable or by retryable failures; and a retryable failure
\* is returned only when all of them were used.
RetryBudget ==
    /\ \A i \in DOMAIN sent : sent[i] <= MaxAttempts
    /\ \A i \in DOMAIN results :
          Retryable(results[i]) => sent[i] = MaxAttempts

\* An operation is sent again only if it has no answer yet or its last answer
\* was a retryable failure: a found, absent or permanently failed record is
\* never read twice because another record of its batch must be.
SettledNotResent ==
    [][pc = "call" =>
          \A i \in DOMAIN batch :
              sent'[start + i] > sent[start + i] =>
                  batch[i].Status = "unspecified" \/ Retryable(batch[i])]_vars

\* A call that succeeds has a result for every address; one that fails has
\* the results of exactly the batches before the failed one, and has sent
\* nothing of the batches after it.
PrefixReturned ==
    /\ outcome = "ok" => DOMAIN results = Slice(count)
    /\ outcome # "ok" =>
          /\ DOMAIN results = Slice(start)
          /\ start % MaxOperations = 0
          /\ \A i \in DOMAIN sent : i >= start + MaxOperations => sent[i] = 0

\* Read returns, whatever the server answers.
ReadReturns == pc = "call" ~> pc = "done"

\* What OperationError and the README say: one bad record does not hide
\* successful records from the same batch.  Every record the server answered
\* with success is among the results of the call.
SuccessesReturned ==
    pc = "done" /\ outcome # "ok" =>
        \A i \in DOMAIN batch :
            batch[i].Status \in {"found", "notFound"} =>
                start + i \in DOMAIN results

================================================================================
