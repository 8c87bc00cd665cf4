------------------------ MODULE DatasetMutationsProofs -------------------------
(***************************************************************************)
(* The invariants of RecordMutations and DatasetMutations, proved for any  *)
(* number of operations, any batch size, any programs and a server that    *)
(* works at any time.                                                      *)
(***************************************************************************)
EXTENDS DatasetMutations, FiniteSetTheorems, WellFoundedInduction, TLAPS

\* A set of naturals that is not empty has a least element.
LEMMA LeastNatural ==
    ASSUME NEW T \in SUBSET Nat, T # {}
    PROVE  \E x \in T : \A y \in T : x <= y
<1> DEFINE R == OpToRel(<, Nat)
<1>1. PICK x \in T : \A y \in T : ~ (<<y, x>> \in R)
  <2>1. IsWellFoundedOn(R, Nat)
    BY NatLessThanWellFounded
  <2> HIDE DEF R
  <2> QED BY <2>1, WFMin
<1>2. ASSUME NEW y \in T PROVE x <= y
  <2>1. <<y, x>> \in Nat \X Nat /\ <<y, x>>[1] = y /\ <<y, x>>[2] = x
    OBVIOUS
  <2>2. ~ (y < x)
    BY <1>1, <2>1 DEF OpToRel
  <2> QED BY <2>2
<1> QED BY <1>2

\* A slice has as many indexes as its length says.
LEMMA SliceCardinality ==
    ASSUME NEW n \in Nat
    PROVE  IsFiniteSet(Slice(n)) /\ Cardinality(Slice(n)) = n
  BY FS_Interval DEF Slice

\* The check of validateResultIndex makes the response a permutation: every
\* operation has an answer.
LEMMA EveryIndexAnswered ==
    ASSUME NEW n \in Nat, NEW response, OneResultEach(response, n), NEW i \in Slice(n)
    PROVE  \E k \in Slice(n) : response[k].operationIndex = i
<1> DEFINE f == [k \in Slice(n) |-> response[k].operationIndex]
<1>1. f \in Injection(Slice(n), Slice(n))
  BY DEF OneResultEach, ValidIndexes, Injection, IsInjective
<1>2. f \in Surjection(Slice(n), Slice(n))
  <2> HIDE DEF f
  <2> QED BY <1>1, SliceCardinality, FS_Injection
<1>3. PICK k \in Slice(n) : f[k] = i
  BY <1>2 DEF Surjection
<1> QED BY <1>3

-------------------------------------------------------------------------------
(* The inductive invariant of Client.Write and Client.Delete. *)

Decisions == {"accepted", "applied", "failed", "preconditionFailed"}

\* Operations below this index may have reached the server.
Reach ==
    IF pc = "call" \/ outcome \in {"ok", "transport", "protocol"}
    THEN start + MaxOperations ELSE start

ClientTypeInv ==
    /\ pc \in {"idle", "send", "call", "done"}
    /\ method \in {"Write", "Delete"} /\ mode \in Modes \cup {"invalid"}
    /\ Count \in 0 .. MaxCount /\ DOMAIN ops = Slice(Count)
    /\ \A i \in DOMAIN ops : ops[i] \in Operations \cup Deletions
    /\ start \in 0 .. Count
    /\ DOMAIN results = Slice(start)
    /\ outcome \in {"none", "rejected", "ok", "transport", "protocol"}

ServerTypeInv ==
    /\ sent \in [Slice(MaxCount) -> Nat]
    /\ inFlight \in [Slice(MaxCount) -> Nat]
    /\ verdict \in [Slice(MaxCount) -> Decisions \cup {"none"}]
    /\ effect \subseteq Slice(MaxCount)
    /\ backlog \subseteq Slice(MaxCount)

\* Nothing is sent of a collection that is not acceptable.
PhaseInv ==
    /\ pc = "done" <=> outcome # "none"
    /\ pc = "idle" => DOMAIN ops = {}
    /\ pc = "idle" \/ outcome = "rejected" => start = 0
    /\ pc \in {"send", "call"} \/ outcome \in {"ok", "transport", "protocol"} =>
          Acceptable(ops, mode)
    /\ pc \in {"send", "call"} => start < Count
    /\ outcome = "ok" => start = Count

\* An operation is not sent yet, or it is on its way, in the batch that is out,
\* or it is decided once and for all, and then its effects follow the decision.
OperationInv(i) ==
    \/ /\ sent[i] = 0 /\ (i \notin DOMAIN ops \/ ~(i < Reach))
       /\ inFlight[i] = 0 /\ verdict[i] = "none" /\ i \notin effect /\ i \notin backlog
    \/ /\ sent[i] = 1 /\ i \in DOMAIN ops /\ start <= i /\ i < Reach
       /\ inFlight[i] = 1 /\ verdict[i] = "none" /\ i \notin effect /\ i \notin backlog
    \/ /\ sent[i] = 1 /\ i \in DOMAIN ops /\ i < Reach
       /\ inFlight[i] = 0
       /\ \/ verdict[i] = "applied" /\ mode # "accepted" /\ i \in effect /\ i \notin backlog
          \/ verdict[i] = "accepted" /\ mode = "accepted"
          \/ /\ verdict[i] \in {"failed", "preconditionFailed"}
             /\ i \notin effect /\ i \notin backlog

ServerInv == \A i \in Slice(MaxCount) : OperationInv(i)

\* What the result r says of operation i.
Answers(r, i) ==
    /\ r.of = i /\ r.OperationIndex = i
    /\ r.Status \in Decisions /\ r.Status = verdict[i]
    /\ r.Status \in {"failed", "preconditionFailed"} =>
          r.Failure # NoFailure /\ r.Failure.OperationIndex = i
    /\ r.Status \in {"accepted", "applied"} => r.Failure = NoFailure
    /\ ops[i].returnDocument /\ r.Status = "applied" => r.Document

ResultsInv == \A i \in DOMAIN results : Answers(results[i], i)

IInv ==
    /\ ClientTypeInv /\ ServerTypeInv /\ PhaseInv
    /\ ServerInv /\ ResultsInv /\ ProgramsDeclared

-------------------------------------------------------------------------------
(* A batch and its response. *)

\* The batch that begins at start, and where it ends.
LEMMA BatchRange ==
    ASSUME ClientTypeInv, start < Count
    PROVE  /\ Batch(start) = start .. start + Requested - 1
           /\ Requested \in 1 .. MaxOperations
           /\ start + Requested <= Count
           /\ start + MaxOperations < Count => Requested = MaxOperations
           /\ start + MaxOperations >= Count => start + Requested = Count
<1>1. /\ start \in Nat /\ Count \in Nat /\ MaxOperations \in Nat \ {0}
      /\ DOMAIN ops = 0 .. Count - 1
  BY MutationAssumption DEF ClientTypeInv, Slice
<1> DEFINE top == IF start + MaxOperations < Count THEN start + MaxOperations ELSE Count
<1> HIDE DEF Count
<1>2. Batch(start) = start .. top - 1
  BY <1>1 DEF Batch
<1>3. top \in Nat /\ start < top /\ top <= start + MaxOperations /\ top <= Count
  BY <1>1
<1>4. Requested = top - start
  <2> HIDE DEF top
  <2>1. start \in Int /\ top - 1 \in Int /\ ~(start > top - 1)
    BY <1>1, <1>3
  <2>2. Cardinality(start .. top - 1) = top - 1 - start + 1
    BY <2>1, FS_Interval
  <2> QED BY <1>1, <1>2, <1>3, <2>2 DEF Requested
<1> QED BY <1>1, <1>2, <1>3, <1>4

\* A response that is taken answers operation start + i of the call with the
\* result at index i, and states what the server decided about it.
LEMMA AnswerStated ==
    ASSUME NEW n \in Nat, NEW response \in Responses(n), OneResultEach(response, n),
           \A k \in Slice(n) : response[k].status # "unspecified",
           NEW i \in Slice(n)
    PROVE  AnswerTo(response, i) \in Stated(i)
           /\ \E k \in Slice(n) : AnswerTo(response, i) = response[k]
<1> DEFINE wire == Garbled(n) \cup UNION { Stated(j) : j \in Slice(n) }
<1>1. DOMAIN response = Slice(n)
  BY DEF OneResultEach
<1>2. \A k \in Slice(n) : response[k] \in wire
  BY <1>1 DEF Responses
<1>3. PICK k \in DOMAIN response :
          /\ response[k].operationIndex = i
          /\ AnswerTo(response, i) = response[k]
  <2>1. \E k \in DOMAIN response : response[k].operationIndex = i
    BY <1>1, EveryIndexAnswered
  <2> QED BY <2>1, Zenon DEF AnswerTo
<1>4. response[k] \notin Garbled(n)
  BY <1>1 DEF Garbled
<1>5. PICK j \in Slice(n) : response[k] \in Stated(j)
  BY <1>1, <1>2, <1>4
<1>6. j = i
  BY <1>3, <1>5 DEF Stated
<1> QED BY <1>1, <1>3, <1>5, <1>6

\* What the client makes of such a result, renumbered for the call.
LEMMA FinishedAnswers ==
    ASSUME ClientTypeInv, start < Count,
           NEW response \in Responses(Requested), Good(response),
           NEW i \in Slice(Requested)
    PROVE  /\ DOMAIN RemapIndexes(Decoded(response, Requested), start) = Slice(Requested)
           /\ Answers(RemapIndexes(Decoded(response, Requested), start)[i], start + i)
<1> DEFINE n == Requested
           w == AnswerTo(response, i)
           d == DecodedResult(w)
           r == Renumber(d, d.OperationIndex + start)
<1>1. n \in Nat /\ start \in Nat /\ i \in Nat
  BY BatchRange DEF ClientTypeInv, Slice
<1>2. OneResultEach(response, n)
  BY DEF Good, WriteDecodable, DeleteDecodable
<1>3. \/ \A k \in Slice(n) : WriteWellFormed(response[k])
      \/ \A k \in Slice(n) : DeleteWellFormed(response[k])
  BY DEF Good, WriteDecodable, DeleteDecodable
<1>4. \A k \in Slice(n) : response[k].status # "unspecified"
  BY <1>3 DEF WriteWellFormed, DeleteWellFormed
<1>5. w \in Stated(i) /\ (WriteWellFormed(w) \/ DeleteWellFormed(w))
  BY <1>1, <1>2, <1>3, <1>4, AnswerStated
<1> HIDE DEF n, w
<1>6. /\ w.operationIndex = i /\ w.of = start + i /\ w.status = verdict[start + i]
      /\ w.status \in Decisions
      /\ w.status \in {"failed", "preconditionFailed"} => GoodFailure(w)
  BY <1>5 DEF Stated, WriteWellFormed, DeleteWellFormed, Decisions
<1>7. /\ d.OperationIndex = i /\ d.of = start + i /\ d.Status = w.status
      /\ d.Failure = IF w.status \in {"failed", "preconditionFailed"}
                     THEN operationFailure(w) ELSE NoFailure
  BY <1>6 DEF DecodedResult
<1>8. d.Failure # NoFailure =>
          /\ w.status \in {"failed", "preconditionFailed"}
          /\ d.Failure = [OperationIndex |-> i, Retryable |-> w.failure = "retryable"]
  BY <1>6, <1>7 DEF operationFailure
<1>9. w.status \in {"failed", "preconditionFailed"} => d.Failure # NoFailure
  BY <1>1, <1>6, <1>7 DEF operationFailure, NoFailure
<1>10. /\ r.of = start + i /\ r.OperationIndex = i + start /\ r.Status = w.status
       /\ r.Document = d.Document
       /\ r.Failure = IF d.Failure = NoFailure THEN NoFailure
                      ELSE [d.Failure EXCEPT !.OperationIndex = i + start]
  BY <1>7 DEF Renumber, DecodedResult
<1>11. w.status \in {"failed", "preconditionFailed"} =>
           r.Failure # NoFailure /\ r.Failure.OperationIndex = start + i
  BY <1>1, <1>8, <1>9, <1>10 DEF NoFailure
<1>12. w.status \in {"accepted", "applied"} => r.Failure = NoFailure
  BY <1>7, <1>10
<1>13. ops[start + i].returnDocument /\ w.status = "applied" => d.Document
  BY <1>7 DEF Good, DocumentsPresent, Decoded, n, w
<1> HIDE DEF d, r
<1>14. Answers(r, start + i)
  BY <1>1, <1>6, <1>10, <1>11, <1>12, <1>13 DEF Answers
<1>15. /\ DOMAIN RemapIndexes(Decoded(response, n), start) = Slice(n)
       /\ RemapIndexes(Decoded(response, n), start)[i] = r
  BY DEF RemapIndexes, Decoded, r, d, w, n
<1> QED BY <1>14, <1>15 DEF n

-------------------------------------------------------------------------------
(* The steps. *)

\* No call has been made and the server is idle.
LEMMA InitIInv == Init => IInv
<1> SUFFICES ASSUME Init PROVE IInv
  OBVIOUS
<1>1. DOMAIN ops = {} /\ DOMAIN results = {} /\ Slice(0) = {}
  BY DEF Init, Empty, Slice
<1>2. Count = 0
  BY <1>1, FS_EmptySet DEF Count
<1>3. ClientTypeInv
  BY <1>1, <1>2, MutationAssumption DEF Init, ClientTypeInv, Modes
<1>4. ServerTypeInv /\ PhaseInv /\ ServerInv
  BY <1>1 DEF Init, ServerTypeInv, PhaseInv, ServerInv, OperationInv
<1>5. ResultsInv /\ ProgramsDeclared
  BY <1>1 DEF Init, ResultsInv, ProgramsDeclared
<1> QED BY <1>3, <1>4, <1>5 DEF IInv

\* Before a call nothing has reached the server.
LEMMA BeginIInv ==
    ASSUME IInv, NEW called \in {"Write", "Delete"}, NEW n \in 0 .. MaxCount,
           NEW m \in Modes \cup {"invalid"},
           NEW collection \in [Slice(n) -> Operations \cup Deletions],
           Begin(called, collection, m)
    PROVE  IInv'
<1>1. /\ pc = "idle" /\ outcome = "none" /\ start = 0 /\ DOMAIN ops = {}
  BY DEF Begin, IInv, PhaseInv
<1>2. /\ method' = called /\ mode' = m /\ ops' = collection
      /\ start' = start /\ declared' = declared /\ results' = results
      /\ sent' = sent /\ inFlight' = inFlight /\ verdict' = verdict
      /\ backlog' = backlog /\ effect' = effect
      /\ \/ Acceptable(ops', mode') /\ pc' = "send" /\ outcome' = outcome
         \/ pc' = "done" /\ outcome' = "rejected"
  BY DEF Begin, Return, server
<1>3. n \in Nat /\ DOMAIN ops' = Slice(n) /\ Count' = n
  BY <1>2, SliceCardinality, MutationAssumption DEF Count
<1>4. ClientTypeInv'
  BY <1>1, <1>2, <1>3 DEF ClientTypeInv, IInv
<1>5. ServerTypeInv'
  BY <1>2 DEF ServerTypeInv, IInv
<1>6. pc' = "send" => n > 0
  BY <1>2, <1>3 DEF Acceptable, Slice
<1>7. PhaseInv'
  BY <1>1, <1>2, <1>3, <1>6 DEF PhaseInv
<1>8. \A i \in Slice(MaxCount) :
          /\ sent[i] = 0 /\ inFlight[i] = 0 /\ verdict[i] = "none"
          /\ i \notin effect /\ i \notin backlog
  BY <1>1 DEF IInv, ServerInv, OperationInv
<1>12. Reach' = 0 /\ \A i \in Slice(MaxCount) : ~(i < 0)
  BY <1>1, <1>2 DEF Reach, Slice
<1>9. ServerInv'
  BY <1>2, <1>8, <1>12 DEF ServerInv, OperationInv
<1>10. ResultsInv'
  BY <1>1, <1>2 DEF ResultsInv, IInv, ClientTypeInv, Slice
<1>11. ProgramsDeclared'
  BY <1>2 DEF ProgramsDeclared
<1> QED BY <1>4, <1>5, <1>7, <1>9, <1>10, <1>11 DEF IInv

\* writeBatch declares a program with the first operation that uses it.
LEMMA DeclaredOnce ==
    ASSUME ClientTypeInv, NEW p \in Programs
    PROVE  Cardinality({ i \in FirstUses(start) : ops[i].program = p }) =
               IF \E i \in Batch(start) : ops[i].program = p THEN 1 ELSE 0
<1> DEFINE users == { i \in Batch(start) : ops[i].program = p }
           first == { i \in FirstUses(start) : ops[i].program = p }
<1>1. p # "none"
  BY MutationAssumption
<1>2. \A i \in users : ops[i].action = "merge"
  BY <1>1 DEF ClientTypeInv, Batch, Operations, Deletions
<1>3. users \in SUBSET Nat
  BY DEF ClientTypeInv, Batch, Slice
<1>4. CASE users = {}
  <2>1. first = {}
    BY <1>4 DEF FirstUses
  <2> QED BY <1>4, <2>1, FS_EmptySet
<1>5. CASE users # {}
  <2>1. PICK x \in users : \A y \in users : x <= y
    BY <1>3, <1>5, LeastNatural
  <2>2. x \in first
    BY <1>2, <1>3, <2>1 DEF FirstUses
  <2>3. ASSUME NEW y \in first PROVE y = x
    <3>1. y \in users /\ ~(x < y)
      BY <2>1, <2>3 DEF FirstUses
    <3> QED BY <1>3, <2>1, <3>1
  <2>4. first = {x}
    BY <2>2, <2>3
  <2>5. Cardinality(first) = 1
    BY <2>4, FS_Singleton
  <2> QED BY <1>5, <2>5
<1> QED BY <1>4, <1>5

\* A request carries operations that have not been sent before.
LEMMA SendBatchIInv == IInv /\ SendBatch => IInv'
<1> SUFFICES ASSUME IInv, SendBatch PROVE IInv'
  OBVIOUS
<1>1. /\ pc = "send" /\ pc' = "call" /\ method' = method /\ mode' = mode /\ ops' = ops
      /\ start' = start /\ results' = results /\ outcome' = outcome
      /\ verdict' = verdict /\ backlog' = backlog /\ effect' = effect
      /\ sent' = [i \in Slice(MaxCount) |->
                    IF i \in Batch(start) THEN sent[i] + 1 ELSE sent[i]]
      /\ inFlight' = [i \in Slice(MaxCount) |->
                        IF i \in Batch(start) THEN inFlight[i] + 1 ELSE inFlight[i]]
      /\ declared' = [p \in Programs |->
                        Cardinality({ i \in FirstUses(start) : ops[i].program = p })]
  BY DEF SendBatch
<1>2. Count' = Count /\ Batch(start)' = Batch(start)
  BY <1>1 DEF Count, Batch
<1>3. ClientTypeInv' /\ PhaseInv' /\ ResultsInv'
  BY <1>1, <1>2 DEF IInv, ClientTypeInv, PhaseInv, ResultsInv, Answers, Acceptable
<1>4. ServerTypeInv'
  BY <1>1 DEF IInv, ServerTypeInv
<1>5. ServerInv'
  <2> SUFFICES ASSUME NEW i \in Slice(MaxCount) PROVE OperationInv(i)'
    BY DEF ServerInv
  <2>1. /\ start \in Nat /\ MaxOperations \in Nat /\ i \in Nat /\ inFlight[i] \in Nat
        /\ outcome = "none" /\ sent[i] \in Nat
    BY <1>1, MutationAssumption DEF IInv, ClientTypeInv, ServerTypeInv, PhaseInv, Slice
  <2>2. Reach = start /\ Reach' = start + MaxOperations
    BY <1>1, <2>1 DEF Reach
  <2>3. OperationInv(i)
    BY DEF IInv, ServerInv
  <2>4. CASE i \in Batch(start)
    <3>1. start <= i /\ i < start + MaxOperations /\ i \in DOMAIN ops
      BY <2>4 DEF Batch
    <3>2. /\ verdict[i] = "none" /\ i \notin effect /\ i \notin backlog
          /\ sent[i] = 0 /\ inFlight[i] = 0
      BY <2>1, <2>2, <2>3, <3>1 DEF OperationInv
    <3>3. sent'[i] = 1 /\ inFlight'[i] = 1
      BY <1>1, <2>4, <3>2
    <3> QED BY <1>1, <2>2, <3>1, <3>2, <3>3 DEF OperationInv
  <2>5. CASE i \notin Batch(start)
    <3>1. sent'[i] = sent[i] /\ inFlight'[i] = inFlight[i]
      BY <1>1, <2>5
    <3>2. i \notin DOMAIN ops \/ i < start \/ ~(i < start + MaxOperations)
      BY <2>1, <2>5 DEF Batch
    <3> QED BY <1>1, <2>1, <2>2, <2>3, <3>1, <3>2 DEF OperationInv
  <2> QED BY <2>4, <2>5
<1>6. ProgramsDeclared'
  BY <1>1, <1>2, DeclaredOnce DEF ProgramsDeclared, IInv
<1> QED BY <1>3, <1>4, <1>5, <1>6 DEF IInv

\* A call that fails leaves everything as it is.
LEMMA FailIInv == IInv /\ (FailCall \/ MalformedResponse) => IInv'
<1> SUFFICES ASSUME IInv, FailCall \/ MalformedResponse PROVE IInv'
  OBVIOUS
<1>1. /\ pc = "call" /\ pc' = "done" /\ outcome' \in {"transport", "protocol"}
      /\ UNCHANGED <<method, mode, ops, start, declared, results, server>>
  BY DEF FailCall, MalformedResponse, Return
<1>2. Count' = Count /\ Reach' = Reach
  BY <1>1 DEF Count, Reach
<1>3. ClientTypeInv' /\ PhaseInv' /\ ResultsInv' /\ ProgramsDeclared'
  BY <1>1, <1>2
  DEF IInv, ClientTypeInv, PhaseInv, ResultsInv, Answers, Acceptable, ProgramsDeclared, server
<1>4. ServerTypeInv' /\ ServerInv'
  BY <1>1, <1>2 DEF IInv, ServerTypeInv, ServerInv, OperationInv, server
<1> QED BY <1>3, <1>4 DEF IInv

\* The batch is answered: every operation of it is decided, and its results
\* join those of the batches before.
LEMMA FinishBatchIInv == IInv /\ FinishBatch => IInv'
<1> SUFFICES ASSUME IInv, FinishBatch PROVE IInv'
  OBVIOUS
<1> DEFINE n == Requested
<1>1. PICK response \in Responses(n) :
          /\ Good(response)
          /\ results' = AppendSlice(results, start,
                            RemapIndexes(Decoded(response, n), start), n)
  BY DEF FinishBatch
<1>2. /\ pc = "call" /\ Answered
      /\ method' = method /\ mode' = mode /\ ops' = ops /\ declared' = declared
      /\ sent' = sent /\ inFlight' = inFlight /\ verdict' = verdict
      /\ backlog' = backlog /\ effect' = effect
      /\ \/ /\ start + MaxOperations < Count /\ start' = start + MaxOperations
            /\ pc' = "send" /\ outcome' = outcome
         \/ /\ start + MaxOperations >= Count /\ start' = Count
            /\ pc' = "done" /\ outcome' = "ok"
  BY DEF FinishBatch, Return, server
<1>3. /\ ClientTypeInv /\ start < Count /\ outcome = "none"
      /\ start \in Nat /\ Count \in Nat /\ MaxOperations \in Nat \ {0}
  BY <1>2, MutationAssumption DEF IInv, ClientTypeInv, PhaseInv
<1>4. /\ Batch(start) = start .. start + n - 1 /\ n \in 1 .. MaxOperations
      /\ start + n <= Count /\ start' = start + n
  BY <1>2, <1>3, BatchRange
<1>5. Count' = Count
  BY <1>2 DEF Count
<1> DEFINE batch == RemapIndexes(Decoded(response, n), start)
<1>6. \A i \in Slice(n) : Answers(batch[i], start + i)
  BY <1>1, <1>3, FinishedAnswers
<1> HIDE DEF n, batch
<1>7. results' = [i \in Slice(start + n) |-> IF i < start THEN results[i] ELSE batch[i - start]]
  BY <1>1 DEF AppendSlice, n, batch
<1>8. start' \in 0 .. Count' /\ (pc' = "send" => start' < Count')
  BY <1>2, <1>3, <1>4, <1>5
<1>9. ClientTypeInv'
  BY <1>2, <1>3, <1>4, <1>5, <1>7, <1>8 DEF ClientTypeInv
<1>10. ServerTypeInv' /\ ProgramsDeclared'
  BY <1>2 DEF IInv, ServerTypeInv, ProgramsDeclared
<1>11. PhaseInv'
  BY <1>2, <1>3, <1>5, <1>8 DEF IInv, PhaseInv, Acceptable
<1>12. ResultsInv'
  <2> SUFFICES ASSUME NEW i \in Slice(start + n) PROVE Answers(results[i], i)'
    BY <1>7 DEF ResultsInv
  <2>1. i \in Nat /\ i < start + n /\ n \in Nat
    BY <1>3, <1>4 DEF Slice
  <2>2. CASE i < start
    <3>1. i \in DOMAIN results /\ results'[i] = results[i]
      BY <1>3, <1>7, <2>1, <2>2 DEF ClientTypeInv, Slice
    <3> QED BY <1>2, <3>1 DEF IInv, ResultsInv, Answers
  <2>3. CASE i >= start
    <3>1. i - start \in Slice(n) /\ start + (i - start) = i
      BY <1>3, <2>1, <2>3 DEF Slice
    <3>2. results'[i] = batch[i - start]
      BY <1>3, <1>7, <2>1, <2>3
    <3>3. Answers(results'[i], i)
      BY <1>6, <3>1, <3>2
    <3> QED BY <1>2, <3>3 DEF Answers
  <2> QED BY <1>3, <2>1, <2>2, <2>3
<1>13. ServerInv'
  <2> SUFFICES ASSUME NEW i \in Slice(MaxCount) PROVE OperationInv(i)'
    BY DEF ServerInv
  <2>1. Reach = start + MaxOperations /\ start + MaxOperations <= Reach' /\ Reach' \in Nat
    BY <1>2, <1>3 DEF Reach
  <2>2. i \in Nat /\ OperationInv(i)
    BY DEF IInv, ServerInv, Slice
  <2>3. inFlight[i] = 0
    BY <1>2, <2>1, <2>2 DEF OperationInv, Answered, Batch
  <2>4. i \in DOMAIN ops => i < Reach \/ ~(i < Reach')
    BY <1>2, <1>3, <2>1, <2>2 DEF ClientTypeInv, Slice, Reach
  <2> QED BY <1>2, <1>3, <2>1, <2>2, <2>3, <2>4 DEF OperationInv
<1> QED BY <1>9, <1>10, <1>11, <1>12, <1>13 DEF IInv

\* The server decides only about operations of the batch that is out.
LEMMA ServerDecidesIInv ==
    ASSUME IInv, NEW i \in Slice(MaxCount), ServerDecides(i)
    PROVE  IInv'
<1>1. /\ inFlight[i] > 0 /\ inFlight' = [inFlight EXCEPT ![i] = @ - 1]
      /\ \E v \in Decisions : verdict' = [verdict EXCEPT ![i] = v]
      /\ effect' \in {effect, effect \cup {i}}
      /\ backlog' \in {backlog, backlog \cup {i}} /\ sent' = sent
  BY DEF ServerDecides, Decisions
<1>2. /\ pc' = pc /\ method' = method /\ mode' = mode /\ ops' = ops /\ start' = start
      /\ declared' = declared /\ results' = results /\ outcome' = outcome
  BY DEF ServerDecides, client
<1>3. Count' = Count /\ Reach' = Reach
  BY <1>2 DEF Count, Reach
<1>4. /\ OperationInv(i) /\ inFlight[i] \in Nat
      /\ inFlight \in [Slice(MaxCount) -> Nat]
      /\ verdict \in [Slice(MaxCount) -> Decisions \cup {"none"}]
  BY DEF IInv, ServerInv, ServerTypeInv
<1>5. /\ verdict[i] = "none" /\ i \notin effect /\ i \notin backlog /\ inFlight[i] = 1
      /\ sent[i] = 1 /\ i \in DOMAIN ops /\ start <= i /\ i < Reach
  BY <1>1, <1>4 DEF OperationInv
<1>6. ClientTypeInv' /\ PhaseInv' /\ ProgramsDeclared'
  BY <1>2, <1>3 DEF IInv, ClientTypeInv, PhaseInv, Acceptable, ProgramsDeclared, Batch
<1>7. ServerTypeInv'
  BY <1>1, <1>4, <1>5 DEF IInv, ServerTypeInv
<1>8. ResultsInv'
  <2> SUFFICES ASSUME NEW j \in DOMAIN results PROVE Answers(results[j], j)'
    BY <1>2 DEF ResultsInv
  <2>1. j < start /\ j # i
    BY <1>5 DEF IInv, ClientTypeInv, Slice
  <2>2. verdict'[j] = verdict[j]
    BY <1>1, <2>1
  <2> QED BY <1>2, <2>2 DEF IInv, ResultsInv, Answers
<1>9. ServerInv'
  <2> SUFFICES ASSUME NEW j \in Slice(MaxCount) PROVE OperationInv(j)'
    BY DEF ServerInv
  <2>1. CASE j # i
    <3>1. /\ inFlight'[j] = inFlight[j] /\ verdict'[j] = verdict[j]
          /\ (j \in effect' <=> j \in effect) /\ (j \in backlog' <=> j \in backlog)
      BY <1>1, <1>4, <2>1
    <3> QED BY <1>1, <1>2, <1>3, <3>1 DEF IInv, ServerInv, OperationInv
  <2>2. CASE j = i
    <3>1. inFlight'[i] = 0
      BY <1>1, <1>4, <1>5
    <3>2. \/ /\ mode # "accepted" /\ verdict'[i] = "applied" /\ i \in effect'
             /\ i \notin backlog'
          \/ mode = "accepted" /\ verdict'[i] = "accepted"
          \/ /\ verdict'[i] \in {"failed", "preconditionFailed"} /\ i \notin effect'
             /\ i \notin backlog'
      BY <1>4, <1>5 DEF ServerDecides
    <3> QED BY <1>1, <1>2, <1>3, <1>5, <2>2, <3>1, <3>2 DEF OperationInv
  <2> QED BY <2>1, <2>2
<1> QED BY <1>6, <1>7, <1>8, <1>9 DEF IInv

\* The server applies what it accepted, as often as it likes.
LEMMA ServerAppliesIInv ==
    ASSUME IInv, NEW i \in Slice(MaxCount), ServerApplies(i)
    PROVE  IInv'
<1>1. /\ i \in backlog /\ backlog' \in {backlog, backlog \ {i}}
      /\ effect' = effect \cup {i}
      /\ sent' = sent /\ inFlight' = inFlight /\ verdict' = verdict
      /\ pc' = pc /\ method' = method /\ mode' = mode /\ ops' = ops /\ start' = start
      /\ declared' = declared /\ results' = results /\ outcome' = outcome
  BY DEF ServerApplies, client
<1>2. Count' = Count /\ Reach' = Reach
  BY <1>1 DEF Count, Reach
<1>3. \A j \in Slice(MaxCount) : OperationInv(j)
  BY DEF IInv, ServerInv
<1>4. verdict[i] = "accepted" /\ mode = "accepted"
  BY <1>1, <1>3 DEF OperationInv
<1>5. ClientTypeInv' /\ PhaseInv' /\ ProgramsDeclared'
  BY <1>1, <1>2 DEF IInv, ClientTypeInv, PhaseInv, Acceptable, ProgramsDeclared, Batch
<1>6. ServerTypeInv' /\ ResultsInv'
  BY <1>1 DEF IInv, ServerTypeInv, ResultsInv, Answers
<1>7. ServerInv'
  <2> SUFFICES ASSUME NEW j \in Slice(MaxCount) PROVE OperationInv(j)'
    BY DEF ServerInv
  <2>1. CASE j # i
    <3>1. (j \in effect' <=> j \in effect) /\ (j \in backlog' <=> j \in backlog)
      BY <1>1, <2>1
    <3> QED BY <1>1, <1>2, <1>3, <3>1 DEF OperationInv
  <2>2. CASE j = i
    BY <1>1, <1>2, <1>3, <1>4, <2>2 DEF OperationInv
  <2> QED BY <2>1, <2>2
<1> QED BY <1>5, <1>6, <1>7 DEF IInv

\* Every step of the call or of the server keeps the invariant.
LEMMA NextIInv == IInv /\ [Next]_vars => IInv'
<1> SUFFICES ASSUME IInv, [Next]_vars PROVE IInv'
  OBVIOUS
<1>1. CASE Write
  <2>1. PICK n \in 0 .. MaxCount, m \in Modes \cup {"invalid"} :
            \E collection \in [Slice(n) -> Operations] : Begin("Write", collection, m)
    BY <1>1 DEF Write
  <2>2. PICK collection \in [Slice(n) -> Operations] : Begin("Write", collection, m)
    BY <2>1
  <2>3. collection \in [Slice(n) -> Operations \cup Deletions]
    OBVIOUS
  <2> QED BY <2>2, <2>3, BeginIInv
<1>2. CASE Delete
  <2>1. PICK n \in 0 .. MaxCount, m \in Modes \cup {"invalid"} :
            \E collection \in [Slice(n) -> Deletions] : Begin("Delete", collection, m)
    BY <1>2 DEF Delete
  <2>2. PICK collection \in [Slice(n) -> Deletions] : Begin("Delete", collection, m)
    BY <2>1
  <2>3. collection \in [Slice(n) -> Operations \cup Deletions]
    OBVIOUS
  <2> QED BY <2>2, <2>3, BeginIInv
<1>3. CASE UNCHANGED vars
  <2>1. /\ pc' = pc /\ method' = method /\ mode' = mode /\ ops' = ops /\ start' = start
        /\ declared' = declared /\ results' = results /\ outcome' = outcome
        /\ sent' = sent /\ inFlight' = inFlight /\ verdict' = verdict
        /\ backlog' = backlog /\ effect' = effect
    BY <1>3 DEF vars, client, server
  <2>2. Count' = Count /\ Reach' = Reach
    BY <2>1 DEF Count, Reach
  <2>3. ClientTypeInv' /\ ServerTypeInv' /\ PhaseInv' /\ ProgramsDeclared'
    BY <2>1, <2>2
    DEF IInv, ClientTypeInv, ServerTypeInv, PhaseInv, Acceptable, ProgramsDeclared, Batch
  <2>4. ServerInv' /\ ResultsInv'
    BY <2>1, <2>2 DEF IInv, ServerInv, OperationInv, ResultsInv, Answers
  <2> QED BY <2>3, <2>4 DEF IInv
<1> QED BY <1>1, <1>2, <1>3, SendBatchIInv, FailIInv, FinishBatchIInv,
           ServerDecidesIInv, ServerAppliesIInv DEF Next, Client

-------------------------------------------------------------------------------
(* The theorems about Client.Write and Client.Delete. *)

\* The inductive invariant holds of every behaviour of a call and its server.
THEOREM IInvTheorem == Spec => []IInv
  BY InitIInv, NextIInv, PTL DEF Spec

\* Write and Delete send no operation twice, whatever happens to the call and
\* however it is split, and a call that succeeds has sent each one.
THEOREM SentOnceTheorem == Spec => []SentOnce
<1>1. IInv => SentOnce
  <2> SUFFICES ASSUME IInv PROVE SentOnce
    OBVIOUS
  <2>1. DOMAIN sent = Slice(MaxCount) /\ \A i \in Slice(MaxCount) : OperationInv(i)
    BY DEF IInv, ServerTypeInv, ServerInv
  <2>2. ASSUME outcome = "ok", NEW i \in DOMAIN ops PROVE sent[i] = 1
    <3>1. /\ i \in Slice(MaxCount) /\ i \in Nat /\ i < Count /\ Count \in Nat
          /\ MaxOperations \in Nat /\ start = Count
      BY <2>2, MutationAssumption DEF IInv, ClientTypeInv, PhaseInv, Slice
    <3>2. i < Reach
      BY <2>2, <3>1 DEF Reach
    <3> QED BY <2>1, <2>2, <3>1, <3>2 DEF OperationInv
  <2>3. \A i \in DOMAIN sent : sent[i] <= 1
    BY <2>1 DEF OperationInv
  <2> QED BY <2>2, <2>3 DEF SentOnce
<1> QED BY <1>1, IInvTheorem, PTL

\* A collection with one bad operation, anywhere, leaves the server untouched.
THEOREM RejectedWithoutEffectTheorem == Spec => []RejectedWithoutEffect
<1>1. IInv => RejectedWithoutEffect
  <2> SUFFICES ASSUME IInv, NEW i \in DOMAIN ops,
                      ~ops[i].valid \/ (mode = "accepted" /\ ops[i].returnDocument)
               PROVE  effect = {} /\ \A j \in DOMAIN sent : sent[j] = 0
    BY DEF RejectedWithoutEffect
  <2>1. ~Acceptable(ops, mode)
    BY DEF Acceptable
  <2>2. pc \notin {"send", "call"} /\ outcome \notin {"ok", "transport", "protocol"}
    BY <2>1 DEF IInv, PhaseInv
  <2>3. start = 0
    BY <2>2 DEF IInv, PhaseInv, ClientTypeInv
  <2>4. Reach = 0
    BY <2>2, <2>3 DEF Reach
  <2>5. \A j \in Slice(MaxCount) : ~(j < Reach)
    BY <2>4 DEF Slice
  <2>6. \A j \in Slice(MaxCount) : sent[j] = 0 /\ j \notin effect
    BY <2>5 DEF IInv, ServerInv, OperationInv
  <2> QED BY <2>6 DEF IInv, ServerTypeInv
<1> QED BY <1>1, IInvTheorem, PTL

\* Every result states, under its own index, what the server decided about its
\* operation, and the operation's effects are what the result says.
THEOREM ResultsTruthfulTheorem == Spec => []ResultsTruthful
<1>1. IInv => ResultsTruthful
  <2> SUFFICES ASSUME IInv, NEW i \in DOMAIN results
               PROVE  /\ results[i].of = i
                      /\ results[i].OperationIndex = i
                      /\ results[i].Failure # NoFailure => results[i].Failure.OperationIndex = i
                      /\ results[i].Status = verdict[i]
                      /\ results[i].Status = "applied" => i \in effect
                      /\ results[i].Status \in {"failed", "preconditionFailed"} => i \notin effect
    BY DEF ResultsTruthful
  <2>1. Answers(results[i], i)
    BY DEF IInv, ResultsInv
  <2>2. i \in Slice(MaxCount)
    BY MutationAssumption DEF IInv, ClientTypeInv, Slice
  <2>3. OperationInv(i)
    BY <2>2 DEF IInv, ServerInv
  <2> QED BY <2>1, <2>3 DEF Answers, OperationInv, Decisions
<1> QED BY <1>1, IInvTheorem, PTL

\* When a call fails, only the operations of the failed batch are in doubt.
THEOREM DoubtConfinedTheorem == Spec => []DoubtConfined
<1>1. IInv => DoubtConfined
  <2> SUFFICES ASSUME IInv, outcome \in {"transport", "protocol"}, NEW i \in DOMAIN ops,
                      i \notin DOMAIN results, i \notin Batch(start)
               PROVE  sent[i] = 0 /\ verdict[i] = "none" /\ i \notin effect
    BY DEF DoubtConfined
  <2>1. /\ i \in Slice(MaxCount) /\ i \in Nat /\ start \in Nat /\ MaxOperations \in Nat
        /\ DOMAIN results = 0 .. start - 1
    BY MutationAssumption DEF IInv, ClientTypeInv, Slice
  <2>2. ~(i < start + MaxOperations)
    BY <2>1 DEF Batch
  <2>3. Reach = start + MaxOperations
    BY DEF Reach
  <2> QED BY <2>1, <2>2, <2>3 DEF IInv, ServerInv, OperationInv
<1> QED BY <1>1, IInvTheorem, PTL

\* Every request carries the source of each program its merges use exactly once.
THEOREM ProgramsDeclaredTheorem == Spec => []ProgramsDeclared
<1>1. IInv => ProgramsDeclared
  BY DEF IInv
<1> QED BY <1>1, IInvTheorem, PTL

-------------------------------------------------------------------------------
(* A Dataset on top of Client.Write. *)

\* Client.Write was called with the records that were given.
RecordsGiven ==
    /\ method = "Write" /\ DOMAIN records = DOMAIN ops
    /\ \A i \in DOMAIN records :
          records[i].encodes /\ records[i].returnDocument = ops[i].returnDocument

StepInv ==
    /\ step \in {"unbound", "idle", "writing", "returned", "direct"}
    /\ mergeProgram \in Programs \cup {"none"}
    /\ step \in {"unbound", "idle"} => pc = "idle" /\ DOMAIN records = {}
    /\ step = "direct" => DOMAIN records = {}
    /\ step = "writing" => pc # "idle" /\ RecordsGiven
    /\ step = "returned" =>
          \/ pc = "idle" /\ err.call \in {"record", "program"} /\ err.failures = {}
          \/ pc = "done" /\ RecordsGiven /\ err = JoinedError(outcome, results)

\* The Dataset has not been called yet.
LEMMA InitStepInv == DatasetInit => StepInv
  BY DEF DatasetInit, Init, StepInv, Empty

\* Once Client.Write runs it does not forget what it was called with.
LEMMA ClientStep ==
    ASSUME SendBatch \/ FailCall \/ MalformedResponse \/ FinishBatch
    PROVE  pc # "idle" /\ pc' # "idle" /\ method' = method /\ ops' = ops
  BY DEF SendBatch, FailCall, MalformedResponse, FinishBatch, Return

\* The server does not change what the call has returned.
LEMMA ServerStep ==
    ASSUME NEW i \in Slice(MaxCount), ServerDecides(i) \/ ServerApplies(i)
    PROVE  UNCHANGED <<pc, method, ops, outcome, results>>
  BY DEF ServerDecides, ServerApplies, client

\* The records that can be encoded are operations that Client.Write takes.
LEMMA WriteRecordsIsWrite ==
    ASSUME NEW n \in 0 .. MaxCount, NEW given \in [Slice(n) -> Records],
           NEW program \in Programs \cup {"none"}, NEW m \in Modes \cup {"invalid"},
           WriteRecords(given, program, m)
    PROVE  Write /\ RecordsGiven' /\ pc' # "idle"
<1> DEFINE collection == [i \in DOMAIN given |-> Operation(given[i], program)]
<1>1. Begin("Write", collection, m) /\ records' = given
      /\ \A i \in DOMAIN given : given[i].encodes
  BY DEF WriteRecords
<1>2. \A i \in Slice(n) : given[i] \in Records /\ given[i].returnDocument \in BOOLEAN
  BY DEF Records
<1>3. \A i \in Slice(n) : Operation(given[i], program) \in Operations
  BY <1>2, MutationAssumption DEF Operation, Operations
<1>4. collection \in [Slice(n) -> Operations]
  BY <1>3
<1>5. \A i \in DOMAIN given : collection[i].returnDocument = given[i].returnDocument
  BY DEF Operation
<1>6. method' = "Write" /\ ops' = collection /\ pc' # "idle"
  BY <1>1 DEF Begin, Return
<1>7. DOMAIN collection = DOMAIN given
  OBVIOUS
<1> HIDE DEF collection
<1>8. Write
  BY <1>1, <1>4 DEF Write
<1>9. RecordsGiven'
  BY <1>1, <1>5, <1>6, <1>7 DEF RecordsGiven
<1> QED BY <1>6, <1>8, <1>9

\* A step of the Dataset is a step of its client or leaves the client alone.
LEMMA DatasetStep == StepInv /\ [DatasetNext]_datasetVars => StepInv' /\ [Next]_vars
<1> SUFFICES ASSUME StepInv, [DatasetNext]_datasetVars PROVE StepInv' /\ [Next]_vars
  OBVIOUS
<1>1. CASE ClientMutation
  <2>1. /\ step' = "direct" /\ mergeProgram' = mergeProgram /\ records' = records /\ Client
        /\ step \in {"unbound", "direct"}
    BY <1>1 DEF ClientMutation
  <2> QED BY <2>1 DEF StepInv, Next
<1>2. CASE NewDataset \/ NewDatasetRefused
  <2>1. UNCHANGED vars /\ UNCHANGED <<pc, records>> /\ step = "unbound"
        /\ step' \in {"unbound", "idle"} /\ mergeProgram' \in Programs \cup {"none"}
    BY <1>2 DEF NewDataset, NewDatasetRefused, vars, client, StepInv
  <2> QED BY <2>1 DEF StepInv
<1>3. ASSUME NEW n \in 0 .. MaxCount, NEW given \in [Slice(n) -> Records],
             MergeWithoutProgram(given) \/ RefuseRecord(given)
      PROVE  StepInv' /\ [Next]_vars
  <2>1. /\ UNCHANGED vars /\ pc' = pc /\ step = "idle" /\ step' = "returned"
        /\ mergeProgram' = mergeProgram
        /\ err' \in {Error("program", {}), Error("record", {})}
    BY <1>3 DEF MergeWithoutProgram, RefuseRecord, vars, client
  <2>2. err'.call \in {"record", "program"} /\ err'.failures = {}
    BY <2>1 DEF Error
  <2> QED BY <2>1, <2>2 DEF StepInv
<1>4. ASSUME NEW n \in 0 .. MaxCount, NEW given \in [Slice(n) -> Records],
             NEW program \in Programs \cup {"none"}, NEW m \in Modes \cup {"invalid"},
             WriteRecords(given, program, m)
      PROVE  StepInv' /\ [Next]_vars
  <2>1. Write /\ RecordsGiven' /\ pc' # "idle"
    BY <1>4, WriteRecordsIsWrite
  <2>2. step' = "writing" /\ mergeProgram' = mergeProgram
    BY <1>4 DEF WriteRecords
  <2> QED BY <2>1, <2>2 DEF StepInv, Next, Client
<1>5. CASE Writing
  <2>1. UNCHANGED <<step, mergeProgram, records, err>>
    BY <1>5 DEF Writing
  <2>2. CASE step = "writing" /\ (SendBatch \/ FailCall \/ MalformedResponse \/ FinishBatch)
    <3>1. RecordsGiven' /\ pc' # "idle"
      BY <2>1, <2>2, ClientStep DEF StepInv, RecordsGiven
    <3> QED BY <2>1, <2>2, <3>1 DEF StepInv, Next, Client
  <2>3. CASE \E i \in Slice(MaxCount) : ServerDecides(i) \/ ServerApplies(i)
    <3>1. UNCHANGED <<pc, method, ops, outcome, results>>
      BY <2>3, ServerStep
    <3>2. StepInv'
      BY <2>1, <3>1 DEF StepInv, RecordsGiven
    <3> QED BY <2>3, <3>2 DEF Next
  <2> QED BY <1>5, <2>2, <2>3 DEF Writing
<1>6. CASE ReturnWrite
  <2>1. /\ UNCHANGED vars /\ step = "writing" /\ step' = "returned" /\ pc = "done"
        /\ mergeProgram' = mergeProgram /\ records' = records
        /\ err' = JoinedError(outcome, results)
    BY <1>6 DEF ReturnWrite
  <2>2. UNCHANGED <<pc, method, ops, outcome, results>>
    BY <2>1 DEF vars, client
  <2>3. err' = JoinedError(outcome, results)'
    BY <2>1, <2>2
  <2> QED BY <2>1, <2>2, <2>3 DEF StepInv, RecordsGiven
<1>7. CASE UNCHANGED datasetVars
  <2>1. UNCHANGED vars /\ UNCHANGED <<step, mergeProgram, records, err>>
    BY <1>7 DEF datasetVars
  <2>2. UNCHANGED <<pc, method, ops, outcome, results>>
    BY <2>1 DEF vars, client
  <2> QED BY <2>1, <2>2 DEF StepInv, RecordsGiven
<1>8. ASSUME NEW n \in 0 .. MaxCount, NEW given \in [Slice(n) -> Records],
             NEW m \in Modes \cup {"invalid"}, Put(given, m) \/ MergeRecords(given, m)
      PROVE  StepInv' /\ [Next]_vars
  <2>1. mergeProgram \in Programs \cup {"none"}
    BY DEF StepInv
  <2>2. \/ RefuseRecord(given) \/ WriteRecords(given, "none", m)
        \/ WriteRecords(given, mergeProgram, m)
    BY <1>8 DEF Put, MergeRecords
  <2> QED BY <1>3, <1>4, <2>1, <2>2
<1> QED BY <1>1, <1>2, <1>3, <1>5, <1>6, <1>7, <1>8 DEF DatasetNext

\* A Dataset only ever does to its client what an application could do: what is
\* proved of Client.Write holds under Create, Replace, Upsert and Merge.
THEOREM DatasetIsClient == DatasetSpec => Spec
<1>1. DatasetInit => Init
  BY DEF DatasetInit
<1> QED BY <1>1, InitStepInv, DatasetStep, PTL DEF DatasetSpec, Spec

\* Both invariants hold under a Dataset.
LEMMA DatasetInvariant == DatasetSpec => [](IInv /\ StepInv)
<1>1. DatasetSpec => []StepInv
  BY InitStepInv, DatasetStep, PTL DEF DatasetSpec
<1> QED BY <1>1, DatasetIsClient, IInvTheorem, PTL

\* A nil error of a Dataset method means that every record was taken, and the
\* documents asked for are there.
THEOREM NilMeansTakenTheorem == DatasetSpec => []NilMeansTaken
<1>1. IInv /\ StepInv => NilMeansTaken
  <2> SUFFICES ASSUME IInv, StepInv, step = "returned", err = NilError,
                      NEW i \in DOMAIN records
               PROVE  /\ verdict[i] = (IF mode = "accepted" THEN "accepted" ELSE "applied")
                      /\ mode # "accepted" => i \in effect
                      /\ records[i].returnDocument => results[i].Document
    BY DEF NilMeansTaken
  <2>1. err.call = "nil" /\ err.failures = {}
    BY DEF NilError, Error
  <2>2. pc = "done" /\ RecordsGiven /\ err = JoinedError(outcome, results)
    BY <2>1 DEF StepInv
  <2>3. outcome = "ok" /\ ResultsError(results) = {}
    BY <2>1, <2>2 DEF JoinedError, Error, IInv, ClientTypeInv
  <2>4. i \in DOMAIN ops /\ DOMAIN results = DOMAIN ops /\ Acceptable(ops, mode)
    BY <2>2, <2>3 DEF RecordsGiven, IInv, PhaseInv, ClientTypeInv
  <2>5. results[i].Failure = NoFailure
    BY <2>3, <2>4 DEF ResultsError
  <2>6. Answers(results[i], i)
    BY <2>4 DEF IInv, ResultsInv
  <2>7. verdict[i] \in {"accepted", "applied"} /\ results[i].Status = verdict[i]
    BY <2>5, <2>6 DEF Answers, Decisions
  <2>8. i \in Slice(MaxCount)
    BY <2>4, MutationAssumption DEF IInv, ClientTypeInv, Slice
  <2>9. OperationInv(i)
    BY <2>8 DEF IInv, ServerInv
  <2>10. records[i].returnDocument = ops[i].returnDocument
    BY <2>2 DEF RecordsGiven
  <2>11. ~(ops[i].returnDocument /\ mode = "accepted")
    BY <2>4 DEF Acceptable
  <2> QED BY <2>6, <2>7, <2>9, <2>10, <2>11 DEF Answers, OperationInv
<1> QED BY <1>1, DatasetInvariant, PTL

\* The error of a Dataset method lists exactly the records that were turned
\* down, none of which took effect, and one record that cannot be encoded keeps
\* the whole call from the server.
THEOREM FailuresPreservedTheorem == DatasetSpec => []FailuresPreserved
<1>1. IInv /\ StepInv => FailuresPreserved
  <2> SUFFICES ASSUME IInv, StepInv PROVE FailuresPreserved
    OBVIOUS
  <2> DEFINE turnedDown == { i \in DOMAIN results :
                               verdict[i] \in {"failed", "preconditionFailed"} }
  <2>1. ASSUME NEW i \in DOMAIN results
        PROVE  /\ results[i].Failure # NoFailure <=> i \in turnedDown
               /\ results[i].Failure # NoFailure =>
                      results[i].Failure.OperationIndex = i /\ i \notin effect
    <3>1. Answers(results[i], i)
      BY <2>1 DEF IInv, ResultsInv
    <3>2. i \in Slice(MaxCount)
      BY <2>1, MutationAssumption DEF IInv, ClientTypeInv, Slice
    <3>3. OperationInv(i)
      BY <3>2 DEF IInv, ServerInv
    <3> QED BY <3>1, <3>3 DEF Answers, Decisions, OperationInv
  <2>2. ASSUME step = "returned"
        PROVE  /\ { f.OperationIndex : f \in err.failures } = turnedDown
               /\ \A f \in err.failures : f.OperationIndex \notin effect
    <3>1. CASE pc = "idle"
      <4>1. err.failures = {}
        BY <2>2, <3>1 DEF StepInv
      <4>2. DOMAIN results = {}
        BY <3>1 DEF IInv, PhaseInv, ClientTypeInv, Slice
      <4> QED BY <4>1, <4>2
    <3>2. CASE pc # "idle"
      <4>1. err.failures = ResultsError(results)
        BY <2>2, <3>2 DEF StepInv, JoinedError, Error
      <4>2. \A f \in err.failures : \E i \in turnedDown :
                f.OperationIndex = i /\ i \notin effect
        BY <2>1, <4>1 DEF ResultsError
      <4>3. \A i \in turnedDown : \E f \in err.failures : f.OperationIndex = i
        BY <2>1, <4>1 DEF ResultsError
      <4> HIDE DEF turnedDown
      <4> QED BY <4>2, <4>3
    <3> QED BY <3>1, <3>2
  <2>3. ASSUME NEW i \in DOMAIN records, ~records[i].encodes
        PROVE  effect = {} /\ \A j \in DOMAIN sent : sent[j] = 0
    <3>1. pc = "idle"
      BY <2>3 DEF StepInv, RecordsGiven
    <3>2. DOMAIN ops = {}
      BY <3>1 DEF IInv, PhaseInv
    <3>3. \A j \in Slice(MaxCount) : sent[j] = 0 /\ j \notin effect
      BY <3>2 DEF IInv, ServerInv, OperationInv
    <3> QED BY <3>3 DEF IInv, ServerTypeInv
  <2> QED BY <2>2, <2>3 DEF FailuresPreserved
<1> QED BY <1>1, DatasetInvariant, PTL

================================================================================
