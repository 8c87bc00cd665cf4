-------------------------------- MODULE Results --------------------------------
(***************************************************************************)
(* Decoding of batch responses (results.go) and the renumbering of their   *)
(* results (remap...Indexes in client.go).                                 *)
(*                                                                         *)
(* A Go slice of length n is a function on 0..n-1.  A result on the wire   *)
(* is a record: operationIndex (a uint32), status, document ("nil",        *)
(* "valid" or "invalid" payload), failure ("nil", "invalid": no code or no *)
(* message, "retryable" or "permanent") and, for checking only, the        *)
(* operation "of" which the server really answers.                         *)
(***************************************************************************)
EXTENDS Integers, FiniteSets

Slice(n) == 0 .. n - 1

\* A nil *OperationError.
NoFailure == [OperationIndex |-> -1, Retryable |-> FALSE]

\* operationFailure accepts a failure with a code and a message ...
GoodFailure(w) == w.failure \in {"retryable", "permanent"}

\* ... and gives it the index of its result.
operationFailure(w) ==
    [OperationIndex |-> w.operationIndex, Retryable |-> w.failure = "retryable"]

\* validateResultIndex over a whole response: in range and never repeated.
ValidIndexes(response, n) ==
    /\ \A k \in Slice(n) : response[k].operationIndex \in Slice(n)
    /\ \A j, k \in Slice(n) :
          response[j].operationIndex = response[k].operationIndex => j = k

\* A response has exactly one result per operation; a nil response counts as
\* one without results.
OneResultEach(response, n) == DOMAIN response = Slice(n) /\ ValidIndexes(response, n)

\* Faulty variant: results are taken in the order they arrive.
AnswerInArrivalOrder(response, i) == response[i]

\* The result that answers the operation at index i of the request.
AnswerTo(response, i) ==
    response[CHOOSE k \in DOMAIN response : response[k].operationIndex = i]

\* The checks of one result in decodeReadResponse, decodeWriteResponse and
\* decodeDeleteResponse.
ReadWellFormed(w) ==
    \/ w.status = "found" /\ w.document = "valid"
    \/ w.status = "notFound"
    \/ w.status = "failed" /\ GoodFailure(w)

WriteWellFormed(w) ==
    /\ w.document # "nil" => w.status = "applied" /\ w.document = "valid"
    /\ \/ w.status \in {"accepted", "applied"}
       \/ w.status \in {"preconditionFailed", "failed"} /\ GoodFailure(w)

DeleteWellFormed(w) ==
    \/ w.status \in {"accepted", "applied"}
    \/ w.status = "failed" /\ GoodFailure(w)

\* The responses that decode; any other is a ProtocolError.
ReadDecodable(response, n) ==
    OneResultEach(response, n) /\ \A k \in Slice(n) : ReadWellFormed(response[k])

WriteDecodable(response, n) ==
    OneResultEach(response, n) /\ \A k \in Slice(n) : WriteWellFormed(response[k])

DeleteDecodable(response, n) ==
    OneResultEach(response, n) /\ \A k \in Slice(n) : DeleteWellFormed(response[k])

\* A decoded result; only a failed one carries a failure, only a found or
\* applied one a document.
DecodedResult(w) ==
    [OperationIndex |-> w.operationIndex,
     Status   |-> w.status,
     Document |-> w.status \in {"found", "applied"} /\ w.document = "valid",
     Failure  |-> IF w.status \in {"failed", "preconditionFailed"}
                  THEN operationFailure(w) ELSE NoFailure,
     of       |-> w.of]

\* decode...Response: results by operation index, whatever order they came in.
Decoded(response, n) == [i \in Slice(n) |-> DecodedResult(AnswerTo(response, i))]

\* Faulty variant: the failure keeps the index it had in the batch.
RenumberResultOnly(result, index) == [result EXCEPT !.OperationIndex = index]

\* Give a result, and the failure it points to, another operation index.
Renumber(result, index) ==
    [result EXCEPT
        !.OperationIndex = index,
        !.Failure = IF result.Failure = NoFailure THEN NoFailure
                    ELSE [result.Failure EXCEPT !.OperationIndex = index]]

\* remapReadIndexes, remapWriteIndexes, remapDeleteIndexes.
RemapIndexes(results, offset) ==
    [i \in DOMAIN results |->
        Renumber(results[i], results[i].OperationIndex + offset)]

\* append(results, batch...)
AppendSlice(results, m, batch, n) ==
    [i \in Slice(m + n) |-> IF i < m THEN results[i] ELSE batch[i - m]]

================================================================================
