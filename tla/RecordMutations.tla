---------------------------- MODULE RecordMutations ----------------------------
(***************************************************************************)
(* One call of Client.Write or Client.Delete, and the server's handling of *)
(* the requests it sends.  The whole collection is validated first, then   *)
(* sent in batches of at most MaxOperations, one request after the other;  *)
(* no request is ever repeated.                                            *)
(*                                                                         *)
(* The server is external.  It decides the operations of a request one by  *)
(* one, goes on when the client has given up, applies an accepted mutation *)
(* later and at least once, and may garble a response; it never misstates  *)
(* a decision.                                                             *)
(***************************************************************************)
EXTENDS Results

CONSTANTS
    MaxCount,       \* bound on the number of operations in a call
    MaxOperations,  \* clientConfig.maxOperations
    Programs        \* digests of Lua programs

\* newClientConfig replaces zero and refuses negatives.
ASSUME MutationAssumption ==
    MaxCount \in Nat /\ MaxOperations \in Nat \ {0} /\ "none" \notin Programs

VARIABLES
    pc,        \* "idle", "send", "call" (a request is out) or "done"
    method,    \* "Write" or "Delete"
    mode,      \* the completion mode
    ops,       \* the collection, a slice
    start,     \* first operation of the current batch
    declared,  \* per program, how often the last request carries its source
    results,   \* results of the finished batches
    outcome,   \* how the call ended
    sent,      \* history: per operation, requests that carried it
    inFlight,  \* per operation, requests that carry it and the server has not handled
    verdict,   \* per operation, the server's decision
    backlog,   \* accepted operations the server has still to apply
    effect     \* history: operations whose mutation took effect, once or more often

client == <<pc, method, mode, ops, start, declared, results, outcome>>
server == <<sent, inFlight, verdict, backlog, effect>>
vars   == <<client, server>>

Modes == {"applied", "accepted", "visible"}

\* A put, or a merge with its program; an invalid operation of any kind.
Operations ==
    [valid : {TRUE}, action : {"put"}, program : {"none"}, returnDocument : BOOLEAN]
    \cup
    [valid : {TRUE}, action : {"merge"}, program : Programs, returnDocument : BOOLEAN]
    \cup
    [valid : {FALSE}, action : {"put"}, program : {"none"}, returnDocument : {FALSE}]

\* A delete operation is an address.
Deletions ==
    [valid : BOOLEAN, action : {"delete"}, program : {"none"}, returnDocument : {FALSE}]

Count == Cardinality(DOMAIN ops)

Empty == [i \in {} |-> 0]

Init ==
    /\ pc = "idle" /\ method = "Write" /\ mode = "applied"
    /\ ops = Empty /\ start = 0
    /\ declared = [p \in Programs |-> 0]
    /\ results = Empty /\ outcome = "none"
    /\ sent = [i \in Slice(MaxCount) |-> 0]
    /\ inFlight = [i \in Slice(MaxCount) |-> 0]
    /\ verdict = [i \in Slice(MaxCount) |-> "none"]
    /\ backlog = {} /\ effect = {}

-------------------------------------------------------------------------------
(***************************************************************************)
(* The client.                                                             *)
(***************************************************************************)

Return(how) == pc' = "done" /\ outcome' = how

\* The operations of the batch that begins at first.
Batch(first) == { i \in DOMAIN ops : first <= i /\ i < first + MaxOperations }

\* Faulty variant: operations are checked when their batch is sent.
AcceptableBatch(collection, completionMode) ==
    /\ DOMAIN collection # {}
    /\ completionMode \in Modes
    /\ \A i \in DOMAIN collection :
          /\ ~(collection[i].returnDocument /\ completionMode = "accepted")
          /\ i < MaxOperations => collection[i].valid

\* validateCollection, validCompletionMode and the checks of every operation.
Acceptable(collection, completionMode) ==
    /\ DOMAIN collection # {}
    /\ completionMode \in Modes
    /\ \A i \in DOMAIN collection :
          /\ ~(collection[i].returnDocument /\ completionMode = "accepted")
          /\ collection[i].valid

\* Write and Delete check everything before anything is sent.
Begin(called, collection, completionMode) ==
    /\ pc = "idle"
    /\ method' = called /\ mode' = completionMode /\ ops' = collection
    /\ \/ /\ Acceptable(collection, completionMode)
          /\ pc' = "send"
          /\ UNCHANGED outcome
       \/ /\ ~Acceptable(collection, completionMode)
          /\ Return("rejected")
    /\ UNCHANGED <<start, declared, results, server>>

Write ==
    \E n \in 0 .. MaxCount, m \in Modes \cup {"invalid"} :
        \E collection \in [Slice(n) -> Operations] : Begin("Write", collection, m)

Delete ==
    \E n \in 0 .. MaxCount, m \in Modes \cup {"invalid"} :
        \E collection \in [Slice(n) -> Deletions] : Begin("Delete", collection, m)

\* Faulty variant: programs declared by an earlier request are left out.
FirstUsesInCall(first) ==
    { i \in Batch(first) :
        /\ ops[i].action = "merge"
        /\ \A j \in DOMAIN ops : j < i => ops[j].program # ops[i].program }

\* The operations whose program writeBatch has not seen in this batch.
FirstUses(first) ==
    { i \in Batch(first) :
        /\ ops[i].action = "merge"
        /\ \A j \in Batch(first) : j < i => ops[j].program # ops[i].program }

\* One request with the operations of the batch and their programs.
SendBatch ==
    /\ pc = "send" /\ pc' = "call"
    /\ declared' = [p \in Programs |->
                      Cardinality({ i \in FirstUses(start) : ops[i].program = p })]
    /\ sent' = [i \in Slice(MaxCount) |->
                  IF i \in Batch(start) THEN sent[i] + 1 ELSE sent[i]]
    /\ inFlight' = [i \in Slice(MaxCount) |->
                      IF i \in Batch(start) THEN inFlight[i] + 1 ELSE inFlight[i]]
    /\ UNCHANGED <<method, mode, ops, start, results, outcome,
                   verdict, backlog, effect>>

\* Faulty variant: a transport failure is retried.
RetryCall ==
    /\ pc = "call" /\ pc' = "send"
    /\ UNCHANGED <<method, mode, ops, start, declared, results, outcome, server>>

\* Faulty variant: a failed batch does not end the call.
SkipBatch ==
    /\ pc = "call"
    /\ \/ /\ start + MaxOperations < Count
          /\ pc' = "send"
          /\ start' = start + MaxOperations
          /\ UNCHANGED outcome
       \/ /\ start + MaxOperations >= Count
          /\ Return("transport")
          /\ UNCHANGED start
    /\ UNCHANGED <<method, mode, ops, declared, results, server>>

\* The RPC fails at any moment: cancelled, timed out, connection lost.
FailCall ==
    /\ pc = "call"
    /\ Return("transport")
    /\ UNCHANGED <<method, mode, ops, start, declared, results, server>>

\* A result for index i of the request, which states the server's decision.
Stated(i) ==
    [operationIndex : {i}, status : {verdict[start + i]},
     document : IF method = "Write" THEN {"nil", "valid", "invalid"} ELSE {"nil"},
     failure : IF verdict[start + i] \in {"failed", "preconditionFailed"}
               THEN {"permanent", "invalid"} ELSE {"nil"},
     of : {start + i}]

\* A result without a status, or with an index out of range.
Garbled(n) ==
    [operationIndex : 0 .. n, status : {"unspecified"},
     document : {"nil"}, failure : {"nil"}, of : {-1}]

\* Responses with the right number of results or one too few, in any order.
Responses(n) ==
    LET wire == Garbled(n) \cup UNION { Stated(i) : i \in Slice(n) }
    IN  [Slice(n) -> wire] \cup [Slice(n - 1) -> wire]

Requested == Cardinality(Batch(start))

\* No applied operation lacks the document it asked for.
DocumentsPresent(batch) ==
    \A i \in DOMAIN batch :
        ops[start + i].returnDocument /\ batch[i].Status = "applied" =>
            batch[i].Document

\* A response the client takes.
Good(response) ==
    /\ \/ method = "Write" /\ WriteDecodable(response, Requested)
       \/ method = "Delete" /\ DeleteDecodable(response, Requested)
    /\ DocumentsPresent(Decoded(response, Requested))

Answered == \A i \in Batch(start) : inFlight[i] = 0

\* Anything else is a ProtocolError, and the batch's results are dropped.
MalformedResponse ==
    /\ pc = "call" /\ Answered
    /\ \E response \in Responses(Requested) : ~Good(response)
    /\ Return("protocol")
    /\ UNCHANGED <<method, mode, ops, start, declared, results, server>>

\* The results are renumbered and appended; the next batch follows, if any.
FinishBatch ==
    /\ pc = "call" /\ Answered
    /\ \E response \in Responses(Requested) :
          /\ Good(response)
          /\ results' = AppendSlice(results, start,
                            RemapIndexes(Decoded(response, Requested), start),
                            Requested)
    /\ \/ /\ start + MaxOperations < Count
          /\ pc' = "send"
          /\ start' = start + MaxOperations
          /\ UNCHANGED outcome
       \/ /\ start + MaxOperations >= Count
          /\ Return("ok")
          /\ start' = Count
    /\ UNCHANGED <<method, mode, ops, declared, server>>

-------------------------------------------------------------------------------
(***************************************************************************)
(* The server, external.                                                   *)
(***************************************************************************)

\* An operation is applied, or turned down, or accepted for later.
ServerDecides(i) ==
    /\ inFlight[i] > 0
    /\ inFlight' = [inFlight EXCEPT ![i] = @ - 1]
    /\ \/ /\ mode # "accepted"
          /\ verdict' = [verdict EXCEPT ![i] = "applied"]
          /\ effect' = effect \cup {i}
          /\ UNCHANGED backlog
       \/ /\ mode = "accepted"
          /\ verdict' = [verdict EXCEPT ![i] = "accepted"]
          /\ backlog' = backlog \cup {i}
          /\ UNCHANGED effect
       \/ /\ \/ verdict' = [verdict EXCEPT ![i] = "failed"]
             \/ method = "Write" /\ verdict' = [verdict EXCEPT ![i] = "preconditionFailed"]
          /\ UNCHANGED <<backlog, effect>>
    /\ UNCHANGED <<client, sent>>

\* An accepted operation is applied; when that is not recorded, it stays in
\* the backlog and is applied again.
ServerApplies(i) ==
    /\ i \in backlog
    /\ effect' = effect \cup {i}
    /\ backlog' \in {backlog, backlog \ {i}}
    /\ UNCHANGED <<client, sent, inFlight, verdict>>

Client ==
    \/ Write \/ Delete
    \/ SendBatch \/ FailCall \/ MalformedResponse \/ FinishBatch

Next ==
    \/ Client
    \/ \E i \in Slice(MaxCount) : ServerDecides(i) \/ ServerApplies(i)

Spec == Init /\ [][Next]_vars

-------------------------------------------------------------------------------
(***************************************************************************)
(* Correctness.                                                            *)
(***************************************************************************)

\* However a call ends and however the collection is split, Write and Delete
\* send no operation in two requests, and a call that succeeds has sent every
\* one: whatever the server does at least once, the client asks for once.
SentOnce ==
    /\ \A i \in DOMAIN sent : sent[i] <= 1
    /\ outcome = "ok" => \A i \in DOMAIN ops : sent[i] = 1

\* A collection with a single bad operation, in whatever batch, or with a
\* returned document that asks for asynchronous completion, has no effect at
\* all: nothing of it is sent.
RejectedWithoutEffect ==
    \A i \in DOMAIN ops :
        (~ops[i].valid \/ (mode = "accepted" /\ ops[i].returnDocument)) =>
            effect = {} /\ \A j \in DOMAIN sent : sent[j] = 0

\* Result i states what the server decided about operation i, with matching
\* indexes; "applied" means the mutation has taken effect, and a failure means
\* it never does.
ResultsTruthful ==
    \A i \in DOMAIN results :
        /\ results[i].of = i
        /\ results[i].OperationIndex = i
        /\ results[i].Failure # NoFailure => results[i].Failure.OperationIndex = i
        /\ results[i].Status = verdict[i]
        /\ results[i].Status = "applied" => i \in effect
        /\ results[i].Status \in {"failed", "preconditionFailed"} => i \notin effect

\* When a call fails, only the operations of the failed batch are in doubt:
\* all earlier ones have a result, and no later one was sent.
DoubtConfined ==
    outcome \in {"transport", "protocol"} =>
        \A i \in DOMAIN ops :
            \/ i \in DOMAIN results
            \/ i \in Batch(start)
            \/ sent[i] = 0 /\ verdict[i] = "none" /\ i \notin effect

\* Every request stands alone: it carries the source of each program its
\* merges refer to, exactly once, and no other.
ProgramsDeclared ==
    pc = "call" =>
        \A p \in Programs :
            declared[p] =
                IF \E i \in Batch(start) : ops[i].program = p THEN 1 ELSE 0

================================================================================
