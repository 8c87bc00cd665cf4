-------------------------- MODULE DatasetReadsProofs ---------------------------
(***************************************************************************)
(* The invariants of RecordReads and DatasetReads, proved for any number   *)
(* of addresses, any batch size and any number of attempts.                *)
(***************************************************************************)
EXTENDS DatasetReads, FiniteSetTheorems, TLAPS

\* A slice has as many indexes as its length says.
LEMMA SliceCardinality ==
    ASSUME NEW n \in Nat
    PROVE  IsFiniteSet(Slice(n)) /\ Cardinality(Slice(n)) = n
  BY FS_Interval DEF Slice

\* The check of validateResultIndex makes the response a permutation: every
\* operation has an answer.
LEMMA EveryIndexAnswered ==
    ASSUME NEW n \in Nat, NEW response, OneResultEach(response, n), NEW i \in Slice(n)
    PROVE  \E k \in Slice(n) : response[k].operationIndex = i
<1> DEFINE f == [k \in Slice(n) |-> response[k].operationIndex]
<1>1. f \in Injection(Slice(n), Slice(n))
  BY DEF OneResultEach, ValidIndexes, Injection, IsInjective
<1>2. f \in Surjection(Slice(n), Slice(n))
  <2> HIDE DEF f
  <2> QED BY <1>1, SliceCardinality, FS_Injection
<1>3. PICK k \in Slice(n) : f[k] = i
  BY <1>2 DEF Surjection
<1> QED BY <1>3

\* The next batch begins at a multiple of the batch size, too.
LEMMA NextMultiple ==
    ASSUME NEW s \in Nat, NEW m \in Nat \ {0}, s % m = 0
    PROVE  (s + m) % m = 0
<1> DEFINE q == s \div m
           t == (s + m) \div m
           r == (s + m) % m
<1>1. q \in Int /\ s = m * q
  OBVIOUS
<1>2. t \in Int /\ r \in Int /\ s + m = m * t + r /\ 0 <= r /\ r < m
  OBVIOUS
<1> HIDE DEF q, t, r
<1> DEFINE d == q + 1 - t
<1>3. d \in Int /\ m * d = r
  BY <1>1, <1>2
<1> HIDE DEF d
<1>4. ~(d >= 1)
  BY <1>2, <1>3
<1>5. ~(d <= -1)
  BY <1>2, <1>3
<1>6. d = 0
  BY <1>3, <1>4, <1>5
<1>7. r = 0
  BY <1>3, <1>6
<1> QED BY <1>7 DEF r

-------------------------------------------------------------------------------
(* The inductive invariant of Client.Read. *)

Active == pc \in {"call", "backoff"}

TypeInv ==
    /\ pc \in {"idle", "call", "backoff", "done"}
    /\ count \in 0 .. MaxCount /\ start \in 0 .. count /\ attempt \in Nat
    /\ outcome \in {"none", "rejected", "ok", "transport", "protocol", "cancelled"}
    /\ DOMAIN results = Slice(start)
    /\ sent \in [Slice(MaxCount) -> Nat]

PhaseInv ==
    /\ pc = "done" <=> outcome # "none"
    /\ pc = "idle" => start = 0 /\ \A i \in Slice(MaxCount) : sent[i] = 0
    /\ Active => start < count /\ attempt \in 1 .. MaxAttempts
    /\ pc = "backoff" => attempt < MaxAttempts
    /\ outcome = "ok" => start = count /\ count > 0
    /\ outcome # "ok" => start % MaxOperations = 0

\* r is the answer to operation op, under an index.
Answers(r, op, index) ==
    /\ r \in [OperationIndex : Int, Status : {"found", "notFound", "failed"},
              Document : BOOLEAN, Failure : [OperationIndex : Int, Retryable : BOOLEAN],
              of : Int]
    /\ r.of = op /\ r.OperationIndex = index
    /\ r.Status = "failed" <=> r.Failure # NoFailure
    /\ r.Failure # NoFailure => r.Failure.OperationIndex = index

IsPending(i) == \E k \in DOMAIN pending : pending[k] = i

\* Every operation of the batch is settled, or is sent with the next attempt.
BatchInv ==
    Active =>
        /\ DOMAIN batch = Slice(BatchLen(start))
        /\ \E m \in Nat : pending \in Injection(Slice(m), DOMAIN batch)
        /\ \A i \in DOMAIN batch :
              IF IsPending(i)
              THEN batch[i].Status = "unspecified" \/ Retryable(batch[i])
              ELSE Answers(batch[i], start + i, i) /\ ~Retryable(batch[i])

\* How often the pending operations have been sent.
Tries == IF pc = "call" THEN attempt - 1 ELSE attempt

SentInv ==
    /\ \A i \in Slice(MaxCount) : sent[i] <= MaxAttempts
    /\ outcome # "ok" =>
          \A i \in Slice(MaxCount) : i >= start + MaxOperations => sent[i] = 0
    /\ Active => \A i \in Slice(MaxCount) : i >= start => sent[i] <= Tries
    /\ Active => \A k \in DOMAIN pending : sent[start + pending[k]] = Tries

ResultsInv ==
    \A i \in DOMAIN results :
        Answers(results[i], i, i) /\ (Retryable(results[i]) => sent[i] = MaxAttempts)

IInv == TypeInv /\ PhaseInv /\ BatchInv /\ SentInv /\ ResultsInv

-------------------------------------------------------------------------------
(* A response and its batch. *)

\* Where the batch that begins at start ends.
LEMMA BatchRange ==
    ASSUME TypeInv, start < count
    PROVE  /\ BatchLen(start) \in 1 .. MaxOperations
           /\ start + BatchLen(start) <= count
           /\ start + MaxOperations < count => BatchLen(start) = MaxOperations
           /\ start + MaxOperations >= count => start + BatchLen(start) = count
  BY ReadAssumption DEF TypeInv, BatchLen

\* What the pending operations of a running call are.
LEMMA PendingRange ==
    ASSUME IInv, Active
    PROVE  /\ Requested \in Nat /\ DOMAIN pending = Slice(Requested)
           /\ \A k \in DOMAIN pending :
                 /\ pending[k] \in DOMAIN batch /\ pending[k] \in Nat
                 /\ pending[k] < BatchLen(start)
                 /\ start + pending[k] \in Slice(MaxCount)
           /\ \A j, k \in DOMAIN pending : pending[j] = pending[k] => j = k
<1>1. PICK m \in Nat : pending \in Injection(Slice(m), DOMAIN batch)
  BY DEF IInv, BatchInv
<1>2. DOMAIN pending = Slice(m) /\ Requested = m
  BY <1>1, SliceCardinality DEF Requested, Injection
<1>3. start < count /\ DOMAIN batch = Slice(BatchLen(start)) /\ TypeInv
  BY DEF IInv, PhaseInv, BatchInv
<1>4. ASSUME NEW k \in DOMAIN pending
      PROVE  /\ pending[k] \in DOMAIN batch /\ pending[k] \in Nat
             /\ pending[k] < BatchLen(start)
             /\ start + pending[k] \in Slice(MaxCount)
  <2>1. pending[k] \in 0 .. BatchLen(start) - 1
    BY <1>1, <1>3 DEF Injection, Slice
  <2>2. BatchLen(start) \in Nat /\ start + BatchLen(start) <= count
    BY <1>3, BatchRange, ReadAssumption
  <2> QED BY <1>3, <2>1, <2>2, ReadAssumption DEF TypeInv, Slice
<1> QED BY <1>1, <1>2, <1>4 DEF Injection, IsInjective

\* A response that is taken answers, at every index of the request, the
\* operation the client put there.
LEMMA DecodedAnswers ==
    ASSUME IInv, Active, NEW response \in Responses(Requested),
           ReadDecodable(response, Requested), NEW k \in DOMAIN pending
    PROVE  Answers(Decoded(response, Requested)[k], start + pending[k], k)
<1> DEFINE n == Requested
           w == AnswerTo(response, k)
           d == DecodedResult(w)
<1>1. /\ n \in Nat /\ k \in Slice(n) /\ k \in Nat /\ k < n /\ start + pending[k] \in Int
  BY PendingRange DEF Slice, IInv, TypeInv
<1>2. OneResultEach(response, n) /\ \A j \in Slice(n) : ReadWellFormed(response[j])
  BY DEF ReadDecodable
<1>3. DOMAIN response = Slice(n)
  BY <1>2 DEF OneResultEach
<1>4. PICK j \in DOMAIN response : response[j].operationIndex = k /\ w = response[j]
  <2>1. \E j \in DOMAIN response : response[j].operationIndex = k
    BY <1>1, <1>2, <1>3, EveryIndexAnswered
  <2> QED BY <2>1, Zenon DEF AnswerTo
<1>5. w \in WireResults(n) /\ ReadWellFormed(w) /\ w.operationIndex = k
  BY <1>2, <1>3, <1>4 DEF Responses
<1> HIDE DEF n, w
<1>6. PICK i \in 0 .. n, body \in Bodies :
          w = [operationIndex |-> i, status |-> body[1], document |-> body[2],
               failure |-> body[3], of |-> IF i < n THEN start + pending[i] ELSE -1]
  BY <1>5 DEF WireResults
<1>7. i = k /\ w.of = start + pending[k]
  BY <1>1, <1>5, <1>6
<1>8. w.status \in {"found", "notFound", "failed"} /\ (w.status = "failed" => GoodFailure(w))
  BY <1>5 DEF ReadWellFormed
<1>9. d = [OperationIndex |-> k, Status |-> w.status,
           Document |-> w.status \in {"found", "applied"} /\ w.document = "valid",
           Failure |-> IF w.status = "failed"
                       THEN [OperationIndex |-> k, Retryable |-> w.failure = "retryable"]
                       ELSE NoFailure,
           of |-> start + pending[k]]
  BY <1>5, <1>7, <1>8 DEF DecodedResult, operationFailure
<1>10. /\ d.of = start + pending[k] /\ d.OperationIndex = k /\ d.Status = w.status
       /\ d.Failure = IF w.status = "failed"
                      THEN [OperationIndex |-> k, Retryable |-> w.failure = "retryable"]
                      ELSE NoFailure
  BY <1>9
<1>11. d \in [OperationIndex : Int, Status : {"found", "notFound", "failed"},
              Document : BOOLEAN, Failure : [OperationIndex : Int, Retryable : BOOLEAN],
              of : Int]
  BY <1>1, <1>8, <1>9 DEF NoFailure
<1>12. w.status = "failed" <=> d.Failure # NoFailure
  BY <1>1, <1>10 DEF NoFailure
<1> HIDE DEF d
<1>13. Answers(d, start + pending[k], k)
  BY <1>10, <1>11, <1>12 DEF Answers
<1> QED BY <1>1, <1>13 DEF Decoded, n, d, w

\* Renumbering changes the index of a result and of its failure, nothing else.
LEMMA RenumberAnswers ==
    ASSUME NEW r, NEW op, NEW old, Answers(r, op, old), NEW index \in Nat
    PROVE  /\ Answers(Renumber(r, index), op, index)
           /\ Retryable(Renumber(r, index)) = Retryable(r)
<1> DEFINE f == IF r.Failure = NoFailure THEN NoFailure
                ELSE [r.Failure EXCEPT !.OperationIndex = index]
           new == Renumber(r, index)
<1>1. /\ r \in [OperationIndex : Int, Status : {"found", "notFound", "failed"},
              Document : BOOLEAN, Failure : [OperationIndex : Int, Retryable : BOOLEAN],
              of : Int]
      /\ r.of = op /\ (r.Status = "failed" <=> r.Failure # NoFailure)
  BY DEF Answers
<1>2. /\ f \in [OperationIndex : Int, Retryable : BOOLEAN]
      /\ f.Retryable = r.Failure.Retryable
      /\ f = NoFailure <=> r.Failure = NoFailure
      /\ f # NoFailure => f.OperationIndex = index
  <2> DEFINE g == r.Failure
  <2>1. g \in [OperationIndex : Int, Retryable : BOOLEAN]
    BY <1>1
  <2>2. NoFailure \in [OperationIndex : Int, Retryable : BOOLEAN] /\ NoFailure.OperationIndex = -1
    BY DEF NoFailure
  <2> HIDE DEF g
  <2>3. CASE g = NoFailure
    BY <2>2, <2>3 DEF g
  <2>4. CASE g # NoFailure
    <3>1. f = [g EXCEPT !.OperationIndex = index]
      BY <2>4 DEF g
    <3>2. /\ f \in [OperationIndex : Int, Retryable : BOOLEAN]
          /\ f.Retryable = g.Retryable /\ f.OperationIndex = index
      BY <2>1, <3>1
    <3>3. f # NoFailure
      BY <2>2, <3>2
    <3> QED BY <2>4, <3>2, <3>3 DEF g
  <2> QED BY <2>3, <2>4
<1>3. new = [r EXCEPT !.OperationIndex = index, !.Failure = f]
  BY DEF Renumber
<1> HIDE DEF f, new
<1>4. /\ new \in [OperationIndex : Int, Status : {"found", "notFound", "failed"},
              Document : BOOLEAN, Failure : [OperationIndex : Int, Retryable : BOOLEAN],
              of : Int]
      /\ new.of = op /\ new.OperationIndex = index /\ new.Status = r.Status /\ new.Failure = f
  <2> DEFINE mid == [r EXCEPT !.OperationIndex = index]
  <2>1. /\ mid \in [OperationIndex : Int, Status : {"found", "notFound", "failed"},
                Document : BOOLEAN, Failure : [OperationIndex : Int, Retryable : BOOLEAN],
                of : Int]
        /\ mid.of = op /\ mid.OperationIndex = index /\ mid.Status = r.Status
    BY <1>1
  <2>2. new = [mid EXCEPT !.Failure = f]
    BY <1>3
  <2> HIDE DEF mid
  <2>3. f \in [OperationIndex : Int, Retryable : BOOLEAN]
    BY <1>2
  <2> QED BY <2>1, <2>2, <2>3
<1>5. Answers(new, op, index) /\ Retryable(new) = Retryable(r)
  BY <1>1, <1>2, <1>4 DEF Answers, Retryable
<1> QED BY <1>5 DEF new

\* Merging puts every answer under the index its operation has in the batch.
LEMMA MergeAnswers ==
    ASSUME IInv, Active, NEW response \in Responses(Requested),
           ReadDecodable(response, Requested)
    PROVE  LET decoded == Decoded(response, Requested)
               merged == Merge(decoded)
           IN  /\ DOMAIN merged = DOMAIN batch
               /\ \A i \in DOMAIN batch : Answers(merged[i], start + i, i)
               /\ \A k \in DOMAIN pending : Retryable(merged[pending[k]]) = Retryable(decoded[k])
               /\ \A i \in DOMAIN batch : ~IsPending(i) => ~Retryable(merged[i])
<1> DEFINE decoded == Decoded(response, Requested)
           merged == Merge(decoded)
<1>1. DOMAIN merged = DOMAIN batch
  BY DEF Merge
<1>2. ASSUME NEW k \in DOMAIN pending
      PROVE  /\ Answers(merged[pending[k]], start + pending[k], pending[k])
             /\ Retryable(merged[pending[k]]) = Retryable(decoded[k])
  <2>1. /\ pending[k] \in DOMAIN batch /\ pending[k] \in Nat
        /\ \A j \in DOMAIN pending : pending[j] = pending[k] => j = k
    BY PendingRange
  <2>2. (CHOOSE j \in DOMAIN pending : pending[j] = pending[k]) = k
    BY <2>1
  <2>3. merged[pending[k]] = Renumber(decoded[k], pending[k])
    BY <2>1, <2>2 DEF Merge
  <2>4. Answers(decoded[k], start + pending[k], k)
    BY DecodedAnswers
  <2> HIDE DEF decoded, merged
  <2> QED BY <2>1, <2>3, <2>4, RenumberAnswers
<1>3. ASSUME NEW i \in DOMAIN batch, ~IsPending(i)
      PROVE  Answers(merged[i], start + i, i) /\ ~Retryable(merged[i])
  <2>1. merged[i] = batch[i]
    BY <1>3 DEF Merge, IsPending
  <2> HIDE DEF merged
  <2> QED BY <1>3, <2>1 DEF IInv, BatchInv
<1> HIDE DEF decoded, merged
<1>4. /\ \A i \in DOMAIN batch : Answers(merged[i], start + i, i)
      /\ \A i \in DOMAIN batch : ~IsPending(i) => ~Retryable(merged[i])
  BY <1>2, <1>3 DEF IsPending
<1> QED BY <1>1, <1>2, <1>4 DEF decoded, merged

\* One request: the pending operations have been sent once more.
LEMMA SendCounts ==
    ASSUME IInv, pc = "call", SendPending
    PROVE  /\ sent' \in [Slice(MaxCount) -> Nat]
           /\ \A i \in Slice(MaxCount) :
                 /\ sent'[i] <= MaxAttempts
                 /\ i < start => sent'[i] = sent[i]
                 /\ i >= start => sent'[i] <= attempt
                 /\ i >= start + MaxOperations => sent'[i] = 0
                 /\ sent'[i] > sent[i] => \E k \in DOMAIN pending : start + pending[k] = i
           /\ \A k \in DOMAIN pending : sent'[start + pending[k]] = attempt
<1>1. sent' = [i \in Slice(MaxCount) |->
                 IF \E k \in DOMAIN pending : start + pending[k] = i
                 THEN sent[i] + 1 ELSE sent[i]]
  BY DEF SendPending
<1>2. /\ TypeInv /\ start < count /\ attempt \in 1 .. MaxAttempts /\ outcome # "ok"
      /\ attempt \in Nat /\ start \in Nat /\ MaxOperations \in Nat /\ MaxAttempts \in Nat
  BY ReadAssumption DEF IInv, PhaseInv, Active, TypeInv
<1>3. /\ \A i \in Slice(MaxCount) :
            /\ i \in Nat /\ sent[i] \in Nat /\ sent[i] <= MaxAttempts
            /\ i >= start => sent[i] <= attempt - 1
            /\ i >= start + MaxOperations => sent[i] = 0
      /\ \A k \in DOMAIN pending : sent[start + pending[k]] = attempt - 1
  BY <1>2 DEF IInv, SentInv, Active, Tries, TypeInv, Slice
<1>4. \A k \in DOMAIN pending :
          /\ start + pending[k] \in Slice(MaxCount)
          /\ start + pending[k] >= start
          /\ start + pending[k] < start + MaxOperations
  <2>1. BatchLen(start) \in 1 .. MaxOperations
    BY <1>2, BatchRange
  <2> QED BY <1>2, <2>1, PendingRange DEF Active
<1>5. sent' \in [Slice(MaxCount) -> Nat]
  BY <1>1, <1>2 DEF TypeInv
<1>6. ASSUME NEW i \in Slice(MaxCount)
      PROVE  /\ sent'[i] <= MaxAttempts
             /\ i < start => sent'[i] = sent[i]
             /\ i >= start => sent'[i] <= attempt
             /\ i >= start + MaxOperations => sent'[i] = 0
             /\ sent'[i] > sent[i] => \E k \in DOMAIN pending : start + pending[k] = i
  <2>0. /\ i \in Nat /\ sent[i] \in Nat /\ sent[i] <= MaxAttempts
        /\ i >= start => sent[i] <= attempt - 1
        /\ i >= start + MaxOperations => sent[i] = 0
    BY <1>3
  <2>1. CASE \E k \in DOMAIN pending : start + pending[k] = i
    <3>1. sent'[i] = sent[i] + 1 /\ i >= start /\ i < start + MaxOperations /\ sent[i] = attempt - 1
      BY <1>1, <1>3, <1>4, <2>1
    <3> QED BY <1>2, <2>0, <2>1, <3>1
  <2>2. CASE ~ \E k \in DOMAIN pending : start + pending[k] = i
    <3>1. sent'[i] = sent[i]
      BY <1>1, <2>2
    <3> QED BY <1>2, <2>0, <3>1
  <2> QED BY <2>1, <2>2
<1>7. ASSUME NEW k \in DOMAIN pending PROVE sent'[start + pending[k]] = attempt
  <2>1. sent'[start + pending[k]] = sent[start + pending[k]] + 1
    BY <1>1, <1>4
  <2> QED BY <1>2, <1>3, <2>1
<1> QED BY <1>5, <1>6, <1>7

-------------------------------------------------------------------------------
(* The steps. *)

\* No call has been made.
LEMMA InitIInv == Init => IInv
<1> SUFFICES ASSUME Init PROVE IInv
  OBVIOUS
<1>1. DOMAIN results = {} /\ Slice(0) = {}
  BY DEF Init, Slice
<1>2. TypeInv
  BY <1>1, ReadAssumption DEF Init, TypeInv
<1>3. 0 % MaxOperations = 0
  BY ReadAssumption
<1>4. PhaseInv
  BY <1>3 DEF Init, PhaseInv, Active
<1>5. BatchInv /\ ResultsInv
  BY <1>1 DEF Init, BatchInv, Active, ResultsInv
<1>6. SentInv
  BY ReadAssumption DEF Init, SentInv, Active
<1> QED BY <1>2, <1>4, <1>5, <1>6 DEF IInv

\* A call that is refused sends nothing.
LEMMA RejectIInv == IInv /\ Reject => IInv'
<1> SUFFICES ASSUME IInv, Reject PROVE IInv'
  OBVIOUS
<1>1. /\ pc = "idle" /\ pc' = "done" /\ outcome' = "rejected" /\ count' \in 0 .. MaxCount
      /\ UNCHANGED <<start, attempt, pending, batch, results, sent>>
  BY DEF Reject, Return
<1>2. TypeInv /\ PhaseInv /\ SentInv /\ ResultsInv
  BY DEF IInv
<1>3. start = 0 /\ outcome = "none" /\ ~Active'
  BY <1>1, <1>2 DEF PhaseInv, Active
<1>4. TypeInv'
  BY <1>1, <1>2, <1>3, ReadAssumption DEF TypeInv
<1>5. PhaseInv'
  BY <1>1, <1>2, <1>3 DEF PhaseInv
<1>6. BatchInv' /\ SentInv'
  BY <1>1, <1>2, <1>3 DEF BatchInv, SentInv
<1>7. ResultsInv'
  BY <1>1, <1>2 DEF ResultsInv
<1> QED BY <1>4, <1>5, <1>6, <1>7 DEF IInv

\* A batch begins with everything pending and nothing of it sent.
LEMMA BeginBatchInv ==
    ASSUME NEW first \in Nat, NEW n \in Nat, count' \in Nat, MaxOperations \in Nat,
           n = BatchLen(first)', first + n <= MaxCount,
           BeginBatch(first, n), outcome' = "none",
           sent' \in [Slice(MaxCount) -> Nat],
           \A i \in Slice(MaxCount) : sent'[i] <= MaxAttempts /\ (i >= first => sent'[i] = 0)
    PROVE  BatchInv' /\ SentInv'
<1>1. /\ pc' = "call" /\ start' = first /\ attempt' = 1
      /\ pending' = [i \in Slice(n) |-> i] /\ batch' = [i \in Slice(n) |-> Unanswered]
  BY DEF BeginBatch
<1>2. DOMAIN pending' = Slice(n) /\ DOMAIN batch' = Slice(n) /\ \A i \in Slice(n) : pending'[i] = i
  BY <1>1
<1>3. pending' \in Injection(Slice(n), DOMAIN batch')
  BY <1>1, <1>2 DEF Injection, IsInjective
<1>4. \A i \in DOMAIN batch' : IsPending(i)' /\ batch'[i].Status = "unspecified"
  BY <1>1, <1>2 DEF IsPending, Unanswered
<1>5. BatchInv'
  BY <1>1, <1>2, <1>3, <1>4 DEF BatchInv
<1>6. Tries' = 0
  BY <1>1 DEF Tries
<1>7. \A k \in Slice(n) : first + k \in Slice(MaxCount) /\ first + k >= first
  BY ReadAssumption DEF Slice
<1>8. \A i \in Slice(MaxCount) : i >= first + MaxOperations => i >= first
  BY ReadAssumption DEF Slice
<1>9. SentInv'
  BY <1>1, <1>2, <1>6, <1>7, <1>8 DEF SentInv
<1> QED BY <1>5, <1>9

\* The first batch begins.
LEMMA CallIInv == IInv /\ Call => IInv'
<1> SUFFICES ASSUME IInv, Call PROVE IInv'
  OBVIOUS
<1> DEFINE len(n) == IF MaxOperations <= n THEN MaxOperations ELSE n
<1>1. PICK n \in 1 .. MaxCount : count' = n /\ BeginBatch(0, len(n))
  BY DEF Call
<1>2. /\ pc = "idle" /\ pc' = "call" /\ start' = 0 /\ attempt' = 1
      /\ UNCHANGED <<results, outcome, sent>>
  BY <1>1 DEF Call, BeginBatch
<1>3. TypeInv /\ PhaseInv /\ ResultsInv
  BY DEF IInv
<1>4. start = 0 /\ outcome = "none" /\ \A i \in Slice(MaxCount) : sent[i] = 0
  BY <1>2, <1>3 DEF PhaseInv
<1>5. len(n) \in Nat /\ len(n) = BatchLen(0)' /\ 0 + len(n) <= MaxCount
  BY <1>1, ReadAssumption DEF BatchLen
<1>6. BatchInv' /\ SentInv'
  <2>1. count' \in Nat /\ MaxOperations \in Nat /\ outcome' = "none"
    BY <1>1, <1>2, <1>4, ReadAssumption
  <2>2. sent' \in [Slice(MaxCount) -> Nat]
    BY <1>2, <1>3 DEF TypeInv
  <2>3. \A i \in Slice(MaxCount) : sent'[i] <= MaxAttempts /\ (i >= 0 => sent'[i] = 0)
    BY <1>2, <1>4, ReadAssumption
  <2> HIDE DEF len
  <2> QED BY <1>1, <1>5, <2>1, <2>2, <2>3, BeginBatchInv
<1>7. TypeInv'
  BY <1>1, <1>2, <1>3, <1>4, ReadAssumption DEF TypeInv
<1>8. PhaseInv'
  BY <1>1, <1>2, <1>3, <1>4, ReadAssumption DEF PhaseInv, Active
<1>9. ResultsInv'
  BY <1>2, <1>3 DEF ResultsInv
<1> QED BY <1>6, <1>7, <1>8, <1>9 DEF IInv

\* The call ends before its batch does.
LEMMA FailIInv ==
    ASSUME IInv, Active, NEW how \in {"transport", "protocol", "cancelled"}, Return(how),
           UNCHANGED <<count, start, attempt, pending, batch, results>>,
           (pc = "call" /\ SendPending) \/ sent' = sent
    PROVE  IInv'
<1>1. pc' = "done" /\ outcome' = how /\ ~Active' /\ outcome = "none"
  BY DEF Return, Active, IInv, PhaseInv
<1>2. TypeInv /\ PhaseInv /\ SentInv /\ ResultsInv
  BY DEF IInv
<1>3. /\ sent' \in [Slice(MaxCount) -> Nat]
      /\ \A i \in Slice(MaxCount) :
            /\ sent'[i] <= MaxAttempts
            /\ i < start => sent'[i] = sent[i]
            /\ i >= start + MaxOperations => sent'[i] = 0
  <2>1. CASE pc = "call" /\ SendPending
    BY <2>1, SendCounts
  <2>2. CASE sent' = sent
    BY <1>1, <1>2, <2>2 DEF TypeInv, SentInv
  <2> QED BY <2>1, <2>2
<1>4. TypeInv'
  BY <1>1, <1>2, <1>3 DEF TypeInv
<1>5. PhaseInv'
  BY <1>1, <1>2 DEF PhaseInv
<1>6. BatchInv' /\ SentInv'
  BY <1>1, <1>3 DEF BatchInv, SentInv
<1>7. ResultsInv'
  <2>1. \A i \in DOMAIN results : i \in Slice(MaxCount) /\ i < start
    BY <1>2, ReadAssumption DEF TypeInv, Slice
  <2> QED BY <1>2, <1>3, <2>1 DEF ResultsInv
<1> QED BY <1>4, <1>5, <1>6, <1>7 DEF IInv

\* An attempt without an answer leaves everything pending.
LEMMA RetryUnavailableIInv == IInv /\ RetryUnavailable => IInv'
<1> SUFFICES ASSUME IInv, RetryUnavailable PROVE IInv'
  OBVIOUS
<1>1. /\ pc = "call" /\ attempt < MaxAttempts /\ SendPending /\ pc' = "backoff"
      /\ UNCHANGED <<count, start, attempt, pending, batch, results, outcome>>
  BY DEF RetryUnavailable
<1>2. TypeInv /\ PhaseInv /\ BatchInv /\ SentInv /\ ResultsInv /\ Active /\ Active'
  BY <1>1 DEF IInv, Active
<1>3. TypeInv'
  BY <1>1, <1>2, SendCounts DEF TypeInv
<1>4. PhaseInv'
  BY <1>1, <1>2 DEF PhaseInv
<1>5. BatchInv'
  BY <1>1, <1>2 DEF BatchInv, BatchLen, IsPending
<1>6. SentInv'
  <2>1. Tries' = attempt
    BY <1>1 DEF Tries
  <2> QED BY <1>1, <2>1, SendCounts DEF SentInv
<1>7. ResultsInv'
  <2>1. \A i \in DOMAIN results : i \in Slice(MaxCount) /\ i < start
    BY <1>2, ReadAssumption DEF TypeInv, Slice
  <2> QED BY <1>1, <1>2, <2>1, SendCounts DEF ResultsInv
<1> QED BY <1>3, <1>4, <1>5, <1>6, <1>7 DEF IInv

\* The next attempt begins.
LEMMA BackoffElapsesIInv == IInv /\ BackoffElapses => IInv'
<1> SUFFICES ASSUME IInv, BackoffElapses PROVE IInv'
  OBVIOUS
<1>1. /\ pc = "backoff" /\ pc' = "call" /\ attempt' = attempt + 1
      /\ UNCHANGED <<count, start, pending, batch, results, outcome, sent>>
  BY DEF BackoffElapses
<1>2. TypeInv /\ PhaseInv /\ BatchInv /\ SentInv /\ ResultsInv /\ Active /\ Active'
  BY <1>1 DEF IInv, Active
<1>3. TypeInv'
  BY <1>1, <1>2 DEF TypeInv
<1>4. PhaseInv'
  BY <1>1, <1>2, ReadAssumption DEF PhaseInv
<1>5. BatchInv'
  BY <1>1, <1>2 DEF BatchInv, BatchLen, IsPending
<1>6. Tries' = Tries
  BY <1>1, <1>2 DEF Tries, TypeInv
<1>7. SentInv'
  BY <1>1, <1>2, <1>6 DEF SentInv
<1>8. ResultsInv'
  BY <1>1, <1>2 DEF ResultsInv
<1> QED BY <1>3, <1>4, <1>5, <1>7, <1>8 DEF IInv

\* Results of earlier batches do not change while a batch is read.
LEMMA EarlierResults ==
    ASSUME IInv, pc = "call", SendPending, results' = results
    PROVE  ResultsInv'
<1>1. \A i \in DOMAIN results : i \in Slice(MaxCount) /\ i < start
  BY ReadAssumption DEF IInv, TypeInv, Slice
<1> QED BY <1>1, SendCounts DEF IInv, ResultsInv

\* The increasing enumeration of the retried positions misses none of them.
LEMMA InOrderComplete ==
    ASSUME NEW n \in Nat, NEW S \in SUBSET Slice(n), NEW e \in InOrder(S)
    PROVE  /\ Cardinality(S) \in Nat /\ e \in [Slice(Cardinality(S)) -> S]
           /\ \A j, k \in DOMAIN e : e[j] = e[k] => j = k
           /\ \A s \in S : \E k \in DOMAIN e : e[k] = s
<1>1. IsFiniteSet(S) /\ Cardinality(S) \in Nat
  BY SliceCardinality, FS_Subset, FS_CardinalityType
<1> DEFINE c == Cardinality(S)
<1>2. /\ e \in [Slice(c) -> S]
      /\ \A j, k \in Slice(c) : j < k => e[j] < e[k]
  BY DEF InOrder
<1>3. ASSUME NEW j \in Slice(c), NEW k \in Slice(c), e[j] = e[k] PROVE j = k
  <2> HIDE DEF c
  <2>0. e[j] \in Slice(n) /\ e[k] \in Slice(n) /\ c \in Nat
    BY <1>1, <1>2 DEF c
  <2>1. j \in Int /\ k \in Int /\ e[j] \in Int /\ e[k] \in Int
    BY <2>0 DEF Slice
  <2>2. ~(e[j] < e[k]) /\ ~(e[k] < e[j])
    BY <1>3, <2>1
  <2> QED BY <1>2, <2>1, <2>2
<1>4. e \in Injection(Slice(c), S)
  BY <1>2, <1>3 DEF Injection, IsInjective
<1>5. e \in Surjection(Slice(c), S)
  <2> HIDE DEF c
  <2>1. IsFiniteSet(Slice(c)) /\ Cardinality(Slice(c)) = c
    BY <1>1, SliceCardinality DEF c
  <2> QED BY <1>1, <1>4, <2>1, FS_Injection DEF c
<1> QED BY <1>1, <1>2, <1>3, <1>5 DEF Surjection

\* What failed retryably stays pending, the rest of the batch is settled.
LEMMA PartialResponseIInv == IInv /\ PartialResponse => IInv'
<1> SUFFICES ASSUME IInv, PartialResponse PROVE IInv'
  OBVIOUS
<1>1. PICK response \in Responses(Requested) :
        /\ ReadDecodable(response, Requested)
        /\ Retried(Decoded(response, Requested)) # {}
        /\ batch' = Merge(Decoded(response, Requested))
        /\ \E e \in InOrder(Retried(Decoded(response, Requested))) :
              pending' = [k \in DOMAIN e |-> pending[e[k]]]
  BY DEF PartialResponse
<1> DEFINE decoded == Decoded(response, Requested)
           merged == Merge(decoded)
           again == Retried(decoded)
<1>2. /\ pc = "call" /\ SendPending /\ pc' = "backoff" /\ batch' = merged
      /\ UNCHANGED <<count, start, attempt, results, outcome>>
  BY <1>1 DEF PartialResponse
<1>3. PICK e \in InOrder(again) : pending' = [k \in DOMAIN e |-> pending[e[k]]]
  BY <1>1
<1>4. TypeInv /\ PhaseInv /\ BatchInv /\ Active /\ Active'
  BY <1>2 DEF IInv, Active
<1>5. /\ again \in SUBSET DOMAIN pending /\ attempt < MaxAttempts
      /\ \A k \in DOMAIN pending : k \in again <=> Retryable(decoded[k])
  BY <1>1 DEF Retried
<1>6. /\ DOMAIN merged = DOMAIN batch
      /\ \A i \in DOMAIN batch : Answers(merged[i], start + i, i)
      /\ \A k \in DOMAIN pending : Retryable(merged[pending[k]]) = Retryable(decoded[k])
      /\ \A i \in DOMAIN batch : ~IsPending(i) => ~Retryable(merged[i])
  BY <1>1, <1>4, MergeAnswers
<1> HIDE DEF decoded, merged, again
<1>7. /\ Requested \in Nat /\ DOMAIN pending = Slice(Requested)
      /\ \A k \in DOMAIN pending : pending[k] \in DOMAIN batch
      /\ \A j, k \in DOMAIN pending : pending[j] = pending[k] => j = k
  BY <1>4, PendingRange
<1> DEFINE m == Cardinality(again)
<1>8. /\ m \in Nat /\ e \in [Slice(m) -> again]
      /\ \A j, k \in DOMAIN e : e[j] = e[k] => j = k
      /\ \A s \in again : \E k \in DOMAIN e : e[k] = s
  BY <1>5, <1>7, InOrderComplete
<1> HIDE DEF m
<1>9. /\ DOMAIN e = Slice(m) /\ DOMAIN pending' = Slice(m)
      /\ \A k \in Slice(m) : /\ e[k] \in again /\ e[k] \in DOMAIN pending
                             /\ pending'[k] = pending[e[k]]
  BY <1>3, <1>5, <1>8
<1>10. pending' \in Injection(Slice(m), DOMAIN batch')
  <2>1. pending' \in [Slice(m) -> DOMAIN batch']
    BY <1>2, <1>3, <1>6, <1>7, <1>9
  <2>2. \A j, k \in Slice(m) : pending'[j] = pending'[k] => j = k
    BY <1>7, <1>8, <1>9
  <2> QED BY <1>9, <2>1, <2>2 DEF Injection, IsInjective
<1>11. TypeInv'
  BY <1>2, <1>4, SendCounts DEF TypeInv
<1>12. PhaseInv'
  BY <1>2, <1>4, <1>5 DEF PhaseInv
<1>13. BatchInv'
  <2>1. DOMAIN batch' = Slice(BatchLen(start)')
    BY <1>2, <1>4, <1>6 DEF BatchInv, BatchLen
  <2>2. ASSUME NEW i \in DOMAIN batch'
        PROVE  IF IsPending(i)'
               THEN batch'[i].Status = "unspecified" \/ Retryable(batch'[i])
               ELSE Answers(batch'[i], start + i, i) /\ ~Retryable(batch'[i])
    <3>1. CASE IsPending(i)'
      <4>1. PICK k \in DOMAIN pending' : pending'[k] = i
        BY <3>1 DEF IsPending
      <4>2. pending[e[k]] = i /\ e[k] \in again /\ e[k] \in DOMAIN pending
        BY <1>9, <4>1
      <4>3. Retryable(merged[i])
        BY <1>5, <1>6, <4>2
      <4> QED BY <1>2, <3>1, <4>3
    <3>2. CASE ~IsPending(i)'
      <4>1. i \in DOMAIN batch /\ Answers(merged[i], start + i, i)
        BY <1>2, <1>6
      <4>2. ASSUME IsPending(i) PROVE ~Retryable(merged[i])
        <5>1. PICK k \in DOMAIN pending : pending[k] = i
          BY <4>2 DEF IsPending
        <5>2. k \notin again
          <6>1. ASSUME k \in again PROVE FALSE
            <7>1. PICK j \in DOMAIN e : e[j] = k
              BY <1>8, <6>1
            <7>2. j \in DOMAIN pending' /\ pending'[j] = i
              BY <1>9, <5>1, <7>1
            <7> QED BY <3>2, <7>2 DEF IsPending
          <6> QED BY <6>1
        <5> QED BY <1>5, <1>6, <5>1, <5>2
      <4>3. ~Retryable(merged[i])
        BY <1>6, <4>1, <4>2
      <4> QED BY <1>2, <3>2, <4>1, <4>3
    <3> QED BY <3>1, <3>2
  <2> QED BY <1>2, <1>8, <1>10, <2>1, <2>2 DEF BatchInv
<1>14. SentInv'
  <2>1. Tries' = attempt
    BY <1>2 DEF Tries
  <2>2. \A k \in DOMAIN pending' : sent'[start + pending'[k]] = attempt
    BY <1>2, <1>9, SendCounts
  <2> QED BY <1>2, <2>1, <2>2, SendCounts DEF SentInv
<1>15. ResultsInv'
  BY <1>2, EarlierResults
<1> QED BY <1>11, <1>12, <1>13, <1>14, <1>15 DEF IInv

\* The results of a finished batch, renumbered for the call.
LEMMA FinishedResults ==
    ASSUME IInv, pc = "call", SendPending, NEW finished,
           DOMAIN finished = DOMAIN batch,
           \A i \in DOMAIN batch : Answers(finished[i], start + i, i),
           \A i \in DOMAIN batch : Retryable(finished[i]) => sent'[start + i] = MaxAttempts,
           results' = AppendSlice(results, start, RemapIndexes(finished, start), BatchLen(start))
    PROVE  /\ DOMAIN results' = Slice(start + BatchLen(start))
           /\ ResultsInv'
<1> DEFINE n == BatchLen(start)
           remapped == RemapIndexes(finished, start)
<1>1. /\ TypeInv /\ start < count /\ DOMAIN batch = Slice(n) /\ start \in Nat
      /\ \A i \in DOMAIN results : /\ i \in Slice(MaxCount) /\ i < start
                                   /\ Answers(results[i], i, i)
                                   /\ (Retryable(results[i]) => sent[i] = MaxAttempts)
      /\ DOMAIN results = Slice(start)
  BY ReadAssumption DEF IInv, PhaseInv, BatchInv, Active, TypeInv, ResultsInv, Slice
<1>2. n \in Nat /\ n > 0 /\ start + n <= count
  BY <1>1, BatchRange, ReadAssumption
<1>3. ASSUME NEW i \in Slice(n)
      PROVE  /\ Answers(remapped[i], start + i, start + i)
             /\ Retryable(remapped[i]) = Retryable(finished[i])
  <2>1. i \in Nat /\ start + i \in Nat /\ Answers(finished[i], start + i, i)
    BY <1>1 DEF Slice
  <2>2. finished[i].OperationIndex + start = start + i
    BY <1>1, <2>1 DEF Answers
  <2>3. remapped[i] = Renumber(finished[i], start + i)
    BY <1>1, <2>2 DEF RemapIndexes
  <2> QED BY <2>1, <2>3, RenumberAnswers
<1> HIDE DEF n, remapped
<1>4. results' = [i \in Slice(start + n) |-> IF i < start THEN results[i] ELSE remapped[i - start]]
  BY DEF AppendSlice, n, remapped
<1>5. ASSUME NEW i \in Slice(start + n)
      PROVE  Answers(results'[i], i, i) /\ (Retryable(results'[i]) => sent'[i] = MaxAttempts)
  <2>1. i \in Nat /\ i < start + n /\ i \in Slice(MaxCount)
    BY <1>1, <1>2, ReadAssumption DEF Slice, TypeInv
  <2>2. CASE i < start
    <3>1. i \in DOMAIN results /\ results'[i] = results[i] /\ sent'[i] = sent[i]
      BY <1>1, <1>4, <2>1, <2>2, SendCounts DEF Slice
    <3> QED BY <1>1, <3>1
  <2>3. CASE ~(i < start)
    <3>1. /\ i - start \in Slice(n) /\ start + (i - start) = i
          /\ results'[i] = remapped[i - start]
      BY <1>1, <1>2, <1>4, <2>1, <2>3 DEF Slice
    <3>2. /\ Answers(remapped[i - start], i, i)
          /\ Retryable(remapped[i - start]) = Retryable(finished[i - start])
      BY <1>3, <3>1
    <3>3. Retryable(finished[i - start]) => sent'[i] = MaxAttempts
      BY <1>1, <3>1
    <3> QED BY <3>1, <3>2, <3>3
  <2> QED BY <2>2, <2>3
<1>6. DOMAIN results' = Slice(start + n)
  BY <1>4
<1> QED BY <1>5, <1>6 DEF ResultsInv, n

\* The batch is settled, and the next one begins if there is one.
LEMMA FinalResponseIInv == IInv /\ FinalResponse => IInv'
<1> SUFFICES ASSUME IInv, FinalResponse PROVE IInv'
  OBVIOUS
<1>1. PICK response \in Responses(Requested) :
        /\ ReadDecodable(response, Requested)
        /\ Retried(Decoded(response, Requested)) = {}
        /\ FinishBatch(Merge(Decoded(response, Requested)))
  BY DEF FinalResponse
<1> DEFINE decoded == Decoded(response, Requested)
           finished == Merge(decoded)
<1>2. pc = "call" /\ SendPending /\ count' = count
  BY DEF FinalResponse
<1>3. /\ TypeInv /\ PhaseInv /\ BatchInv /\ Active /\ start \in Nat /\ count \in Nat
      /\ start < count /\ outcome = "none" /\ attempt \in 1 .. MaxAttempts
      /\ MaxOperations \in Nat \ {0} /\ MaxCount \in Nat /\ MaxAttempts \in Nat /\ count <= MaxCount
  BY <1>2, ReadAssumption DEF IInv, Active, PhaseInv, TypeInv
<1>4. /\ DOMAIN finished = DOMAIN batch
      /\ \A i \in DOMAIN batch : Answers(finished[i], start + i, i)
      /\ \A k \in DOMAIN pending : Retryable(finished[pending[k]]) = Retryable(decoded[k])
      /\ \A i \in DOMAIN batch : ~IsPending(i) => ~Retryable(finished[i])
  BY <1>1, <1>3, MergeAnswers
<1>5. \A k \in DOMAIN pending : attempt < MaxAttempts => ~Retryable(decoded[k])
  BY <1>1 DEF Retried
<1>6. FinishBatch(finished)
  BY <1>1
<1> HIDE DEF decoded, finished
<1>7. ASSUME NEW i \in DOMAIN batch, Retryable(finished[i]) PROVE sent'[start + i] = MaxAttempts
  <2>1. PICK k \in DOMAIN pending : pending[k] = i
    BY <1>4, <1>7 DEF IsPending
  <2>2. attempt = MaxAttempts
    BY <1>3, <1>4, <1>5, <1>7, <2>1
  <2> QED BY <1>2, <2>1, <2>2, SendCounts
<1>8. results' = AppendSlice(results, start, RemapIndexes(finished, start), BatchLen(start))
  BY <1>6 DEF FinishBatch
<1>9. DOMAIN results' = Slice(start + BatchLen(start)) /\ ResultsInv'
  BY <1>2, <1>4, <1>7, <1>8, FinishedResults
<1>10. /\ start + MaxOperations < count => BatchLen(start) = MaxOperations
       /\ start + MaxOperations >= count => start + BatchLen(start) = count
  BY <1>3, BatchRange
<1> PICK next : next = start + MaxOperations
  OBVIOUS
<1>11. CASE next < count /\ BeginBatch(next, BatchLen(next)) /\ outcome' = outcome
  <2>1. pc' = "call" /\ start' = next /\ attempt' = 1 /\ Active'
    BY <1>11 DEF BeginBatch, Active
  <2>2. next \in Nat /\ BatchLen(next) \in Nat /\ next + BatchLen(next) <= count
    BY <1>3, <1>11 DEF BatchLen
  <2>3. BatchLen(next) = BatchLen(next)'
    BY <1>2, <2>1 DEF BatchLen
  <2>4. /\ sent' \in [Slice(MaxCount) -> Nat]
        /\ \A i \in Slice(MaxCount) : sent'[i] <= MaxAttempts /\ (i >= next => sent'[i] = 0)
    BY <1>2, SendCounts
  <2>5. BatchInv' /\ SentInv'
    <3>1. /\ count' \in Nat /\ next + BatchLen(next) <= MaxCount /\ outcome' = "none"
          /\ MaxOperations \in Nat
      BY <1>2, <1>3, <1>11, <2>2
    <3> PICK n : n = BatchLen(next)
      OBVIOUS
    <3> QED BY <1>11, <2>2, <2>3, <2>4, <3>1, BeginBatchInv
  <2>6. TypeInv'
    BY <1>2, <1>3, <1>9, <1>10, <1>11, <2>1, <2>2, <2>4 DEF TypeInv
  <2>7. PhaseInv'
    <3>1. next % MaxOperations = 0
      BY <1>3, NextMultiple DEF PhaseInv
    <3> QED BY <1>2, <1>3, <1>11, <2>1, <3>1 DEF PhaseInv
  <2> QED BY <1>9, <2>5, <2>6, <2>7 DEF IInv
<1>12. CASE next >= count /\ Return("ok") /\ start' = count /\ UNCHANGED <<attempt, pending>>
  <2>1. pc' = "done" /\ outcome' = "ok" /\ ~Active'
    BY <1>12 DEF Return, Active
  <2>2. TypeInv'
    BY <1>2, <1>3, <1>9, <1>10, <1>12, <2>1, SendCounts DEF TypeInv
  <2>3. PhaseInv'
    BY <1>2, <1>3, <1>12, <2>1 DEF PhaseInv, Active
  <2>4. BatchInv' /\ SentInv'
    BY <1>2, <2>1, SendCounts DEF BatchInv, SentInv
  <2> QED BY <1>9, <2>2, <2>3, <2>4 DEF IInv
<1> QED BY <1>6, <1>11, <1>12 DEF FinishBatch

\* Every step of the call keeps the invariant.
LEMMA NextIInv == IInv /\ [Next]_vars => IInv'
<1> SUFFICES ASSUME IInv, [Next]_vars PROVE IInv'
  OBVIOUS
<1>1. CASE Reject
  BY <1>1, RejectIInv
<1>2. CASE Call
  BY <1>2, CallIInv
<1>3. CASE RetryUnavailable
  BY <1>3, RetryUnavailableIInv
<1>4. CASE FailAttempt
  BY <1>4, FailIInv DEF FailAttempt, Active
<1>5. CASE MalformedResponse
  BY <1>5, FailIInv DEF MalformedResponse, Active
<1>6. CASE PartialResponse
  BY <1>6, PartialResponseIInv
<1>7. CASE FinalResponse
  BY <1>7, FinalResponseIInv
<1>8. CASE BackoffElapses
  BY <1>8, BackoffElapsesIInv
<1>9. CASE BackoffCancelled
  BY <1>9, FailIInv DEF BackoffCancelled, Active
<1>10. CASE CancelContext \/ UNCHANGED vars
  <2>1. UNCHANGED <<pc, count, start, attempt, pending, batch, results, outcome, sent>>
    BY <1>10 DEF CancelContext, vars
  <2>2. TypeInv' /\ PhaseInv' /\ SentInv' /\ ResultsInv'
    BY <2>1 DEF IInv, TypeInv, PhaseInv, SentInv, ResultsInv, Active, Tries
  <2>3. BatchInv'
    BY <2>1 DEF IInv, BatchInv, Active, BatchLen, IsPending
  <2> QED BY <2>2, <2>3 DEF IInv
<1> QED BY <1>1, <1>2, <1>3, <1>4, <1>5, <1>6, <1>7, <1>8, <1>9, <1>10 DEF Next, Attempt

\* The inductive invariant holds of every behaviour of Client.Read.
THEOREM IInvTheorem == Spec => []IInv
  BY InitIInv, NextIInv, PTL DEF Spec

\* Result i of Client.Read is the server's answer to address i and says so,
\* whatever the order of the responses, the batches and the attempts.
THEOREM ResultsAlignedTheorem == Spec => []ResultsAligned
<1>1. IInv => ResultsAligned
  BY DEF IInv, ResultsInv, Answers, ResultsAligned
<1> QED BY <1>1, IInvTheorem, PTL

\* No address is sent more often than MaxAttempts, and a retryable failure is
\* returned only when all attempts were used.
THEOREM RetryBudgetTheorem == Spec => []RetryBudget
<1>1. IInv => RetryBudget
  BY DEF IInv, SentInv, ResultsInv, TypeInv, RetryBudget
<1> QED BY <1>1, IInvTheorem, PTL

\* A call that fails returns the results of the batches before the failed one
\* and has sent nothing of the batches after it.
THEOREM PrefixReturnedTheorem == Spec => []PrefixReturned
<1>1. IInv => PrefixReturned
  BY DEF IInv, TypeInv, PhaseInv, SentInv, PrefixReturned
<1> QED BY <1>1, IInvTheorem, PTL

\* An operation that has its answer is not sent again because others of its
\* batch must be.
THEOREM SettledNotResentTheorem == Spec => SettledNotResent
<1>1. ASSUME IInv, [Next]_vars, pc = "call", NEW i \in DOMAIN batch,
             sent'[start + i] > sent[start + i]
      PROVE  batch[i].Status = "unspecified" \/ Retryable(batch[i])
  <2>1. TypeInv /\ Active /\ start < count /\ DOMAIN batch = Slice(BatchLen(start))
    BY <1>1 DEF IInv, PhaseInv, BatchInv, Active
  <2>2. start + i \in Slice(MaxCount) /\ start \in Int /\ i \in Int
    <3>1. BatchLen(start) \in Nat /\ start + BatchLen(start) <= count
      BY <2>1, BatchRange, ReadAssumption
    <3> QED BY <2>1, <3>1, ReadAssumption DEF TypeInv, Slice
  <2>3. SendPending \/ sent' = sent
    BY <1>1 DEF Next, Attempt, Reject, Call, RetryUnavailable, FailAttempt, MalformedResponse,
                PartialResponse, FinalResponse, BackoffElapses, BackoffCancelled, CancelContext, vars
  <2>4. sent' # sent
    BY <1>1, <2>1, <2>2 DEF TypeInv
  <2>5. PICK k \in DOMAIN pending : start + pending[k] = start + i
    BY <1>1, <2>2, <2>3, <2>4, SendCounts
  <2>6. pending[k] = i
    BY <2>1, <2>2, <2>5, PendingRange, <1>1
  <2>7. IsPending(i)
    BY <2>6 DEF IsPending
  <2> QED BY <1>1, <2>1, <2>7 DEF IInv, BatchInv
<1>2. IInv /\ [Next]_vars =>
        [pc = "call" =>
          \A i \in DOMAIN batch :
              sent'[start + i] > sent[start + i] =>
                  batch[i].Status = "unspecified" \/ Retryable(batch[i])]_vars
  BY <1>1
<1> QED BY <1>2, IInvTheorem, PTL DEF Spec, SettledNotResent

-------------------------------------------------------------------------------
(* Dataset.Read. *)

\* What the Dataset returned is the error of the call it made.
StepInv ==
    /\ step \in {"idle", "reading", "returned", "direct"}
    /\ step = "returned" =>
          err = Error("key", {}) \/ (pc = "done" /\ err = JoinedError(outcome, results))

\* A step of the Dataset is a step of its client or leaves the client alone.
LEMMA DatasetStep == StepInv /\ [DatasetNext]_datasetVars => StepInv' /\ [Next]_vars
<1> SUFFICES ASSUME StepInv, [DatasetNext]_datasetVars PROVE StepInv' /\ [Next]_vars
  OBVIOUS
<1>1. CASE ClientRead \/ BeginRead \/ Reading
  BY <1>1 DEF StepInv, ClientRead, BeginRead, Reading, Next
<1>2. CASE RefuseKey
  BY <1>2 DEF StepInv, RefuseKey
<1>3. CASE ReturnRead
  BY <1>3 DEF StepInv, ReturnRead, vars
<1>4. CASE UNCHANGED datasetVars
  BY <1>4 DEF StepInv, datasetVars, vars
<1> QED BY <1>1, <1>2, <1>3, <1>4 DEF DatasetNext

\* A Dataset only ever does to its client what an application could do: what is
\* proved of Client.Read holds under Dataset.Read.
THEOREM DatasetIsClient == DatasetSpec => Spec
<1>1. DatasetInit => Init /\ StepInv
  BY DEF DatasetInit, StepInv
<1> QED BY <1>1, DatasetStep, PTL DEF DatasetSpec, Spec

\* Both invariants hold under a Dataset.
LEMMA DatasetInvariant == DatasetSpec => [](IInv /\ StepInv)
<1>1. DatasetInit => StepInv
  BY DEF DatasetInit, StepInv
<1>2. DatasetSpec => []StepInv
  BY <1>1, DatasetStep, PTL DEF DatasetSpec
<1> QED BY <1>2, DatasetIsClient, IInvTheorem, PTL

\* A nil error of Dataset.Read means that every key was read: its result is the
\* server's answer to it, found or not found.
THEOREM NilMeansReadTheorem == DatasetSpec => []NilMeansRead
<1>1. IInv /\ StepInv => NilMeansRead
  <2> SUFFICES ASSUME IInv, StepInv, step = "returned", err = NilError
               PROVE  /\ count > 0 /\ DOMAIN results = Slice(count)
                      /\ \A i \in Slice(count) :
                            results[i].of = i /\ results[i].Status \in {"found", "notFound"}
    BY DEF NilMeansRead
  <2>1. pc = "done" /\ err = JoinedError(outcome, results)
    BY DEF StepInv, NilError, Error
  <2>2. outcome = "ok" /\ ResultsError(results) = {}
    BY <2>1 DEF IInv, TypeInv, JoinedError, NilError, Error
  <2>3. DOMAIN results = Slice(count) /\ count > 0
    BY <2>2 DEF IInv, PhaseInv, TypeInv
  <2>4. \A i \in DOMAIN results : results[i].Failure = NoFailure
    BY <2>2 DEF ResultsError
  <2>5. \A i \in DOMAIN results :
            results[i].of = i /\ results[i].Status \in {"found", "notFound"}
    BY <2>4 DEF IInv, ResultsInv, Answers
  <2> QED BY <2>3, <2>5
<1> QED BY <1>1, DatasetInvariant, PTL

================================================================================
