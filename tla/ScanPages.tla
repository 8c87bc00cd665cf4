------------------------------- MODULE ScanPages -------------------------------
(***************************************************************************)
(* A traversal with Client.Scan (native.go): an application calls Scan     *)
(* page after page, processes each page and then saves its cursor, as the  *)
(* README shows; Scan retries the admission rejections of one page within  *)
(* ScanRetry and ScanTimeout.                                              *)
(*                                                                         *)
(* The server is external.  It serves the documents 1..Total in order, a   *)
(* cursor p stands after document p, 0 is the empty cursor of a request.   *)
(* It may cut a page short, fail after the backend has run, or return a    *)
(* page that breaks the protocol.  The data does not change meanwhile.     *)
(***************************************************************************)
EXTENDS Integers

CONSTANTS
    Total,         \* documents in the data set
    MaxAttempts,   \* clientConfig.scanRetry.MaxAttempts
    DefaultBatch,  \* the page limit of BatchSize 0 (100 in the code)
    MaxBatch,      \* the largest BatchSize (1000 in the code)
    MaxCrashes     \* bound on the restarts of the application

ASSUME ScanAssumption ==
    /\ Total \in Nat /\ MaxAttempts \in Nat \ {0} /\ MaxCrashes \in Nat
    /\ DefaultBatch \in Nat \ {0} /\ MaxBatch \in Nat \ {0}

VARIABLES
    pc,         \* "idle", "attempt", "send", "rpc", "backoff", "process", "finished"
    cursor,     \* request.Cursor
    batchSize,  \* request.BatchSize
    attempt,    \* attempts begun in this call of Scan
    expired,    \* the context with ScanTimeout is done
    answer,     \* what the server did with the request: "none", "rejected", "executed"
    page,       \* the page Scan returned: its documents and NextCursor
    executed,   \* history: backend executions in this call of Scan
    late,       \* history: requests of this call sent after its context was done
    saved,      \* the cursor the application has persisted
    times,      \* history: how often each document was processed
    crashes     \* restarts of the application

scan == <<attempt, expired, answer, executed, late>>
app  == <<cursor, batchSize, page, saved, times, crashes>>
vars == <<pc, scan, app>>

\* A cursor has a position; one of more than 64 KiB is oversized.
Cursor(p, oversized) == [pos |-> p, oversized |-> oversized]

EmptyCursor == Cursor(0, FALSE)

\* A response: documents from, to, whether all of them are valid, the cursor,
\* and whether the cursor is empty.
Page(from, to, valid, last, next) ==
    [from |-> from, to |-> to, valid |-> valid, last |-> last, next |-> next]

NoPage == Page(1, 0, TRUE, TRUE, EmptyCursor)

Init ==
    /\ pc = "idle" /\ cursor = EmptyCursor /\ batchSize = 0
    /\ attempt = 0 /\ expired = FALSE /\ answer = "none"
    /\ executed = 0 /\ late = 0
    /\ page = NoPage /\ saved = EmptyCursor
    /\ times = [d \in 1 .. Total |-> 0] /\ crashes = 0

-------------------------------------------------------------------------------
(***************************************************************************)
(* Client.Scan.                                                            *)
(***************************************************************************)

ValidRequest(size) == size >= 0 /\ size <= MaxBatch /\ ~cursor.oversized

\* Scan refuses a batch size out of range, an oversized cursor, and a command
\* or a projection that is not well formed.
RefuseRequest ==
    /\ pc = "idle"
    /\ \E size \in -1 .. MaxBatch + 1, wellFormed \in BOOLEAN :
          ~(ValidRequest(size) /\ wellFormed) /\ batchSize' = size
    /\ UNCHANGED <<pc, scan, cursor, page, saved, times, crashes>>

\* The request is built once and the deadline starts.
BeginScan ==
    /\ pc = "idle" /\ pc' = "attempt"
    /\ \E size \in 0 .. MaxBatch : ValidRequest(size) /\ batchSize' = size
    /\ attempt' = 1 /\ expired' = FALSE /\ answer' = "none"
    /\ executed' = 0 /\ late' = 0
    /\ UNCHANGED <<cursor, page, saved, times, crashes>>

\* A failed call returns no page; the application keeps its cursor.
ReturnError == pc' = "idle"

\* Faulty variant: the context is not checked before an attempt.
SkipContextCheck ==
    /\ pc = "attempt" /\ pc' = "send"
    /\ UNCHANGED <<scan, app>>

\* ctx.Err() is nil ...
CheckContext ==
    /\ pc = "attempt" /\ ~expired
    /\ pc' = "send"
    /\ UNCHANGED <<scan, app>>

\* ... and the request goes out, though the context may have ended since.
StartAttempt ==
    /\ pc = "send" /\ pc' = "rpc"
    /\ answer' = "none"
    /\ late' = IF expired THEN late + 1 ELSE late
    /\ UNCHANGED <<attempt, expired, executed, app>>

\* ctx.Err() is not nil: Scan returns before another attempt.
StopBeforeAttempt ==
    /\ pc = "attempt" /\ expired
    /\ ReturnError
    /\ UNCHANGED <<scan, app>>

\* A marked admission rejection, with an attempt left: wait and try again.
RetryAdmission ==
    /\ pc = "rpc" /\ answer = "rejected" /\ attempt < MaxAttempts
    /\ pc' = "backoff"
    /\ UNCHANGED <<scan, app>>

\* Faulty variant: every error is retried.
RetryAnyError ==
    /\ pc = "rpc"
    /\ \/ attempt < MaxAttempts /\ pc' = "backoff"
       \/ attempt = MaxAttempts /\ ReturnError
    /\ UNCHANGED <<scan, app>>

\* Any other error, whatever the server has done with the request, and a
\* rejection at the last attempt.
FailScan ==
    /\ pc = "rpc"
    /\ ReturnError
    /\ UNCHANGED <<scan, app>>

\* waitForBackoff.
BackoffElapses ==
    /\ pc = "backoff" /\ pc' = "attempt"
    /\ attempt' = attempt + 1
    /\ UNCHANGED <<expired, answer, executed, late, app>>

BackoffCancelled ==
    /\ pc = "backoff" /\ expired
    /\ ReturnError
    /\ UNCHANGED <<scan, app>>

\* ScanTimeout or the caller's deadline passes, or the caller cancels.
Expire ==
    /\ pc \in {"attempt", "send", "rpc", "backoff"} /\ ~expired
    /\ expired' = TRUE
    /\ UNCHANGED <<pc, attempt, answer, executed, late, app>>

Limit == IF batchSize = 0 THEN DefaultBatch ELSE batchSize

Length(p) == p.to - p.from + 1

\* Faulty variant: a page without documents may have a cursor.
AcceptableEmptyPage(p) ==
    Length(p) <= Limit /\ (p.last \/ ~p.next.oversized) /\ p.valid

\* The checks of a response: page length, cursor size, documents before a
\* cursor, and every document.
AcceptablePage(p) ==
    /\ Length(p) <= Limit
    /\ ~p.last => ~p.next.oversized /\ Length(p) > 0
    /\ p.valid

\* What the server may answer from position c: the next n documents, and the
\* empty cursor only at the end of the data.
Pages(c) ==
    { Page(c + 1, c + n, valid, last, IF last THEN EmptyCursor ELSE Cursor(c + n, big)) :
        n \in 0 .. MaxBatch + 1, valid \in BOOLEAN, last \in BOOLEAN, big \in BOOLEAN }

ServedPages ==
    { p \in Pages(cursor.pos) : p.to <= Total /\ (p.last => p.to = Total) }

\* A page breaks the protocol: a ProtocolError and no page.
RefusePage ==
    /\ pc = "rpc" /\ answer = "executed"
    /\ \E p \in ServedPages : ~AcceptablePage(p)
    /\ ReturnError
    /\ UNCHANGED <<scan, app>>

\* Faulty variant: the cursor is saved before the page is processed.
TakePageAndSave ==
    /\ pc = "rpc" /\ answer = "executed"
    /\ \E p \in ServedPages :
          AcceptablePage(p) /\ page' = p /\ saved' = IF p.last THEN saved ELSE p.next
    /\ pc' = "process"
    /\ UNCHANGED <<scan, cursor, batchSize, times, crashes>>

TakePage ==
    /\ pc = "rpc" /\ answer = "executed"
    /\ \E p \in ServedPages : AcceptablePage(p) /\ page' = p
    /\ pc' = "process"
    /\ UNCHANGED <<scan, cursor, batchSize, saved, times, crashes>>

-------------------------------------------------------------------------------
(***************************************************************************)
(* The server, external.                                                   *)
(***************************************************************************)

\* A marked rejection is given before the backend runs.
ServerRejects ==
    /\ pc = "rpc" /\ answer = "none"
    /\ answer' = "rejected"
    /\ UNCHANGED <<pc, attempt, expired, executed, late, app>>

ServerExecutes ==
    /\ pc = "rpc" /\ answer = "none"
    /\ answer' = "executed"
    /\ executed' = executed + 1
    /\ UNCHANGED <<pc, attempt, expired, late, app>>

-------------------------------------------------------------------------------
(***************************************************************************)
(* The application's loop.                                                 *)
(***************************************************************************)

\* The documents of the page are processed one after the other ...
ProcessDocument ==
    /\ pc = "process" /\ page.from <= page.to
    /\ times' = [times EXCEPT ![page.from] = @ + 1]
    /\ page' = [page EXCEPT !.from = @ + 1]
    /\ UNCHANGED <<pc, scan, cursor, batchSize, saved, crashes>>

\* Faulty variant: the next request is sent with the old cursor.
KeepCursor ==
    /\ pc = "process" /\ page.from > page.to
    /\ pc' = IF page.last THEN "finished" ELSE "idle"
    /\ UNCHANGED <<scan, app>>

\* ... then an empty NextCursor ends the loop, and another one is saved.
SaveCursor ==
    /\ pc = "process" /\ page.from > page.to
    /\ \/ page.last /\ pc' = "finished" /\ UNCHANGED <<cursor, saved>>
       \/ ~page.last /\ pc' = "idle" /\ cursor' = page.next /\ saved' = page.next
    /\ UNCHANGED <<scan, batchSize, page, times, crashes>>

\* The application stops anywhere, also when a document cannot be decoded or
\* processed, and starts again from what it has saved.
Restart ==
    /\ crashes < MaxCrashes /\ pc # "finished"
    /\ crashes' = crashes + 1
    /\ pc' = "idle" /\ cursor' = saved /\ page' = NoPage
    /\ UNCHANGED <<scan, batchSize, saved, times>>

ScanStep ==
    \/ RefuseRequest \/ BeginScan
    \/ CheckContext \/ StartAttempt \/ StopBeforeAttempt
    \/ RetryAdmission \/ FailScan \/ BackoffElapses \/ BackoffCancelled
    \/ Expire \/ RefusePage \/ TakePage

Server == ServerRejects \/ ServerExecutes

Next == ScanStep \/ Server \/ ProcessDocument \/ SaveCursor \/ Restart

Spec == Init /\ [][Next]_vars

(***************************************************************************)
(* The application goes on calling, waits end, and what is possible again  *)
(* and again happens at last: an attempt is made before the deadline, the  *)
(* server admits it and answers with a good page.                          *)
(***************************************************************************)
Fairness ==
    /\ WF_vars(ScanStep) /\ WF_vars(BeginScan)
    /\ WF_vars(ProcessDocument) /\ WF_vars(SaveCursor)
    /\ SF_vars(CheckContext) /\ SF_vars(ServerExecutes) /\ SF_vars(TakePage)

FairSpec == Spec /\ Fairness

-------------------------------------------------------------------------------
(***************************************************************************)
(* Correctness.                                                            *)
(***************************************************************************)

Cursors == [pos : Nat, oversized : BOOLEAN]

TypeOK ==
    /\ pc \in {"idle", "attempt", "send", "rpc", "backoff", "process", "finished"}
    /\ cursor \in Cursors /\ saved \in Cursors
    /\ batchSize \in -1 .. MaxBatch + 1
    /\ attempt \in 0 .. MaxAttempts
    /\ expired \in BOOLEAN
    /\ answer \in {"none", "rejected", "executed"}
    /\ page \in [from : Nat, to : Nat, valid : BOOLEAN, last : BOOLEAN, next : Cursors]
    /\ executed \in Nat /\ late \in Nat
    /\ times \in [1 .. Total -> Nat]
    /\ crashes \in 0 .. MaxCrashes

\* The backend runs at most once for one call of Scan, however often it was
\* tried: only what was rejected before execution is retried.
BackendOnce == executed <= 1

\* The saved cursor never passes a document that was not processed, and a
\* finished traversal has processed every document, with pages cut short,
\* failed calls and restarts in between.
NothingSkipped ==
    \A d \in 1 .. Total :
        d <= saved.pos \/ pc = "finished" => times[d] > 0

\* Pages overlap only through restarts: a document is processed once, and
\* at most once more for every restart that came before its page was saved.
ReplayOnlyAfterRestart == \A d \in 1 .. Total : times[d] <= crashes + 1

\* Scan accepts every cursor it has returned, so that a traversal can always
\* be continued from what was saved.
CursorUsable == ~saved.oversized

\* ScanTimeout bounds all attempts together: once it has passed, at most the
\* one request goes out whose check it overtook, and no retry follows it, not
\* even when the backoff and the deadline end at the same moment.
OneLateAttempt == late <= 1

\* A traversal ends: a page with a cursor has documents, so that the loop
\* cannot turn on empty pages for ever.
ScanFinishes == <>(pc = "finished")

================================================================================
