---------------------------- MODULE ScanPagesProofs ----------------------------
(***************************************************************************)
(* Proofs about ScanPages, for data of any size, any retry policy, any     *)
(* batch limits and any number of restarts.                                *)
(***************************************************************************)
EXTENDS ScanPages, TLAPS

\* Attempts: another one is left after a backoff, the backend has not run in a
\* call that is about to try (again), and a context that was found open had not
\* ended before any earlier request.
AttemptInv ==
    /\ pc = "backoff" => attempt < MaxAttempts
    /\ pc \in {"attempt", "send", "backoff"} => executed = 0
    /\ pc = "rpc" /\ answer # "executed" => executed = 0
    /\ executed <= 1
    /\ late > 0 => expired
    /\ pc = "send" => late = 0
    /\ late <= 1

\* The page in hand continues the saved cursor and ends where its own cursor
\* stands, or at the end of the data.
PageInv ==
    /\ cursor = saved /\ ~saved.oversized
    /\ pc = "process" =>
          /\ page.from > saved.pos /\ page.from <= page.to + 1 /\ page.to <= Total
          /\ page.last => page.to = Total
          /\ ~page.last => page.next.pos = page.to /\ ~page.next.oversized

\* The last document known to be processed.
Frontier ==
    IF pc = "process" THEN page.from - 1
    ELSE IF pc = "finished" THEN Total ELSE saved.pos

\* Up to the frontier every document was processed; each one was processed at
\* most once per run of the application, beyond the frontier only in earlier
\* runs.
TimesInv ==
    \A d \in 1 .. Total :
        /\ d <= Frontier => times[d] > 0
        /\ times[d] <= crashes + 1
        /\ d > Frontier => times[d] <= crashes

IInv == TypeOK /\ AttemptInv /\ PageInv /\ TimesInv

-------------------------------------------------------------------------------

\* What is known of a page the client accepts: it continues the cursor, has
\* documents when it has a cursor, and that cursor may be sent back.
LEMMA AcceptedPage ==
    ASSUME TypeOK, NEW p \in ServedPages, AcceptablePage(p)
    PROVE  /\ p \in [from : Nat, to : Nat, valid : BOOLEAN, last : BOOLEAN, next : Cursors]
           /\ p.from = cursor.pos + 1 /\ p.from <= p.to + 1 /\ p.to <= Total
           /\ p.last => p.to = Total
           /\ ~p.last => p.next.pos = p.to /\ ~p.next.oversized
  <1>1. PICK n \in 0 .. MaxBatch + 1, valid \in BOOLEAN, last \in BOOLEAN, big \in BOOLEAN :
             p = Page(cursor.pos + 1, cursor.pos + n, valid, last,
                      IF last THEN EmptyCursor ELSE Cursor(cursor.pos + n, big))
    BY DEF ServedPages, Pages
  <1>2. cursor.pos \in Nat /\ n \in Nat
    BY ScanAssumption DEF TypeOK, Cursors
  <1>3. p.to <= Total /\ (p.last => p.to = Total)
    BY DEF ServedPages
  <1>4. ~p.last => ~p.next.oversized
    BY DEF AcceptablePage
  <1> DEFINE next == IF last THEN EmptyCursor ELSE Cursor(cursor.pos + n, big)
  <1>5. next \in Cursors
    BY <1>2 DEF EmptyCursor, Cursor, Cursors
  <1>6. ~last => next.pos = cursor.pos + n
    BY DEF Cursor
  <1>7. /\ p.from = cursor.pos + 1 /\ p.to = cursor.pos + n
        /\ p.valid = valid /\ p.last = last /\ p.next = next
    BY <1>1 DEF Page
  <1>8. p \in [from : Nat, to : Nat, valid : BOOLEAN, last : BOOLEAN, next : Cursors]
    BY <1>1, <1>2, <1>5 DEF Page
  <1> QED
    BY <1>2, <1>3, <1>4, <1>6, <1>7, <1>8

\* The empty cursor and the empty page have their types.
LEMMA NoPageType ==
    /\ EmptyCursor \in Cursors
    /\ NoPage \in [from : Nat, to : Nat, valid : BOOLEAN, last : BOOLEAN, next : Cursors]
  <1>1. EmptyCursor \in Cursors
    BY DEF EmptyCursor, Cursor, Cursors
  <1> QED
    BY <1>1 DEF NoPage, Page

LEMMA InitIInv == Init => IInv
  <1> SUFFICES ASSUME Init PROVE IInv
    OBVIOUS
  <1>1. TypeOK
    <2>1. batchSize \in -1 .. MaxBatch + 1 /\ attempt \in 0 .. MaxAttempts
      BY ScanAssumption DEF Init
    <2>2. times \in [1 .. Total -> Nat] /\ crashes \in 0 .. MaxCrashes
      BY ScanAssumption DEF Init
    <2> QED
      BY <2>1, <2>2, NoPageType DEF Init, TypeOK
  <1>2. AttemptInv /\ PageInv
    BY DEF Init, AttemptInv, PageInv, EmptyCursor, Cursor
  <1>3. TimesInv
    BY ScanAssumption DEF Init, TimesInv, Frontier, EmptyCursor, Cursor
  <1> QED
    BY <1>1, <1>2, <1>3 DEF IInv

\* The steps of Scan and of the server: they touch neither what was processed
\* nor what was saved.
LEMMA ScanIInv ==
    ASSUME IInv, ScanStep \/ Server
    PROVE  IInv'
  <1> USE ScanAssumption DEF IInv
  <1>1. CASE RefuseRequest
    BY <1>1 DEF RefuseRequest, TypeOK, AttemptInv, PageInv, TimesInv, Frontier, scan
  <1>2. CASE BeginScan
    <2>1. TypeOK'
      <3>1. expired' \in BOOLEAN /\ answer' \in {"none", "rejected", "executed"}
        BY <1>2 DEF BeginScan
      <3>2. batchSize' \in -1 .. MaxBatch + 1
        BY <1>2 DEF BeginScan
      <3>3. attempt' \in 0 .. MaxAttempts /\ executed' \in Nat /\ late' \in Nat
        BY <1>2 DEF BeginScan
      <3> QED
        BY <1>2, <3>1, <3>2, <3>3 DEF BeginScan, TypeOK
    <2>2. AttemptInv' /\ PageInv'
      BY <1>2 DEF BeginScan, TypeOK, AttemptInv, PageInv
    <2>3. TimesInv'
      BY <1>2 DEF BeginScan, TimesInv, Frontier
    <2> QED
      BY <2>1, <2>2, <2>3
  <1>3. CASE CheckContext \/ StopBeforeAttempt \/ RetryAdmission \/ FailScan
    <2>1. TypeOK'
      BY <1>3 DEF CheckContext, StopBeforeAttempt, RetryAdmission, FailScan, ReturnError,
         scan, app, TypeOK
    <2>2. AttemptInv'
      BY <1>3 DEF CheckContext, StopBeforeAttempt, RetryAdmission, FailScan, ReturnError,
         scan, TypeOK, AttemptInv
    <2>3. PageInv' /\ TimesInv'
      BY <1>3 DEF CheckContext, StopBeforeAttempt, RetryAdmission, FailScan, ReturnError,
         scan, app, PageInv, TimesInv, Frontier
    <2> QED
      BY <2>1, <2>2, <2>3
  <1>7. CASE StartAttempt
    <2>1. TypeOK'
      BY <1>7 DEF StartAttempt, app, TypeOK
    <2>2. AttemptInv'
      BY <1>7 DEF StartAttempt, TypeOK, AttemptInv
    <2>3. PageInv' /\ TimesInv'
      BY <1>7 DEF StartAttempt, app, PageInv, TimesInv, Frontier
    <2> QED
      BY <2>1, <2>2, <2>3
  <1>4. CASE BackoffElapses \/ BackoffCancelled \/ Expire \/ RefusePage
    <2>1. TypeOK'
      <3>1. expired' \in BOOLEAN
        BY <1>4 DEF BackoffElapses, BackoffCancelled, Expire, RefusePage, scan, TypeOK
      <3>2. attempt' \in 0 .. MaxAttempts
        BY <1>4 DEF BackoffElapses, BackoffCancelled, Expire, RefusePage, scan,
           TypeOK, AttemptInv
      <3> QED
        BY <1>4, <3>1, <3>2 DEF BackoffElapses, BackoffCancelled, Expire, RefusePage,
           ReturnError, scan, app, TypeOK
    <2>2. AttemptInv' /\ PageInv'
      BY <1>4 DEF BackoffElapses, BackoffCancelled, Expire, RefusePage,
         ReturnError, scan, app, TypeOK, AttemptInv, PageInv
    <2>3. TimesInv'
      BY <1>4 DEF BackoffElapses, BackoffCancelled, Expire, RefusePage,
         ReturnError, scan, app, TimesInv, Frontier
    <2> QED
      BY <2>1, <2>2, <2>3
  <1>5. CASE TakePage
    <2>1. PICK p \in ServedPages : AcceptablePage(p) /\ page' = p
      BY <1>5 DEF TakePage
    <2>2. /\ page' \in [from : Nat, to : Nat, valid : BOOLEAN, last : BOOLEAN, next : Cursors]
          /\ page'.from = cursor.pos + 1 /\ page'.from <= page'.to + 1
          /\ page'.to <= Total /\ (page'.last => page'.to = Total)
          /\ ~page'.last => page'.next.pos = page'.to /\ ~page'.next.oversized
      BY <2>1, AcceptedPage
    <2>3. TypeOK' /\ AttemptInv'
      BY <1>5, <2>2 DEF TakePage, scan, TypeOK, AttemptInv
    <2>4. PageInv'
      BY <1>5, <2>2 DEF TakePage, TypeOK, Cursors, PageInv
    <2>5. Frontier' = Frontier
      BY <1>5, <2>2 DEF TakePage, TypeOK, Cursors, PageInv, Frontier
    <2>6. TimesInv'
      BY <1>5, <2>5 DEF TakePage, TimesInv
    <2> QED
      BY <2>3, <2>4, <2>6
  <1>6. CASE Server
    <2>1. TypeOK'
      BY <1>6 DEF Server, ServerRejects, ServerExecutes, app, TypeOK
    <2>2. AttemptInv' /\ PageInv'
      BY <1>6 DEF Server, ServerRejects, ServerExecutes, app, TypeOK, AttemptInv, PageInv
    <2>3. TimesInv'
      BY <1>6 DEF Server, ServerRejects, ServerExecutes, app, TimesInv, Frontier
    <2> QED
      BY <2>1, <2>2, <2>3
  <1> QED
    BY <1>1, <1>2, <1>3, <1>4, <1>5, <1>6, <1>7 DEF ScanStep

\* The steps of the application: processing moves the frontier by one, saving
\* does not move it, and a restart takes it back to the saved cursor.
LEMMA ApplicationIInv ==
    ASSUME IInv, ProcessDocument \/ SaveCursor \/ Restart
    PROVE  IInv'
  <1> USE ScanAssumption DEF IInv
  <1>1. CASE ProcessDocument
    <2>1. page.from \in 1 .. Total /\ page.from \in Nat /\ page'.from = page.from + 1
      <3>1. page \in [from : Nat, to : Nat, valid : BOOLEAN, last : BOOLEAN, next : Cursors]
        BY DEF TypeOK
      <3>2. saved.pos \in Nat
        BY DEF TypeOK, Cursors
      <3>3. page.from > saved.pos /\ page.from <= page.to /\ page.to <= Total
        BY <1>1 DEF ProcessDocument, PageInv
      <3>4. page' = [page EXCEPT !.from = page.from + 1]
        BY <1>1 DEF ProcessDocument
      <3>5. page.from \in Nat /\ page.to \in Nat /\ page'.from = page.from + 1
        BY <3>1, <3>4
      <3> QED
        BY <3>2, <3>3, <3>5
    <2>2. TypeOK'
      <3> DEFINE PageType ==
            [from : Nat, to : Nat, valid : BOOLEAN, last : BOOLEAN, next : Cursors]
      <3>1. page' \in PageType
        <4>1. page \in PageType /\ page' = [page EXCEPT !.from = page.from + 1]
          BY <1>1 DEF ProcessDocument, TypeOK
        <4>2. page' = [from |-> page.from + 1, to |-> page.to, valid |-> page.valid,
                       last |-> page.last, next |-> page.next]
          BY <4>1
        <4>3. /\ page.from + 1 \in Nat /\ page.to \in Nat /\ page.valid \in BOOLEAN
              /\ page.last \in BOOLEAN /\ page.next \in Cursors
          BY <2>1, <4>1
        <4> QED
          BY <4>2, <4>3, Zenon
      <3>2. times' \in [1 .. Total -> Nat]
        BY <1>1, <2>1 DEF ProcessDocument, TypeOK
      <3> QED
        BY <1>1, <3>1, <3>2 DEF ProcessDocument, scan, TypeOK
    <2>3. AttemptInv'
      BY <1>1 DEF ProcessDocument, scan, AttemptInv
    <2>5. /\ page'.to = page.to /\ page'.last = page.last /\ page'.next = page.next
          /\ page.to \in Nat /\ saved.pos \in Nat
      BY <1>1 DEF ProcessDocument, TypeOK, Cursors
    <2>6. PageInv'
      BY <1>1, <2>1, <2>5 DEF ProcessDocument, PageInv
    <2>7. Frontier = page.from - 1 /\ Frontier' = page.from
      BY <1>1, <2>1 DEF ProcessDocument, Frontier
    <2>4. TimesInv'
      <3> SUFFICES ASSUME NEW d \in 1 .. Total
                   PROVE  /\ d <= Frontier' => times'[d] > 0
                          /\ times'[d] <= crashes + 1
                          /\ d > Frontier' => times'[d] <= crashes
        BY <1>1 DEF ProcessDocument, TimesInv
      <3>1. times[d] \in Nat /\ crashes \in Nat
        BY DEF TypeOK
      <3>2. /\ d <= Frontier => times[d] > 0
            /\ times[d] <= crashes + 1
            /\ d > Frontier => times[d] <= crashes
        BY DEF TimesInv
      <3>3. times'[d] = IF d = page.from THEN times[d] + 1 ELSE times[d]
        BY <1>1, <2>1 DEF ProcessDocument, TypeOK
      <3> QED
        BY <2>1, <2>7, <3>1, <3>2, <3>3
    <2> QED
      BY <2>2, <2>3, <2>4, <2>6
  <1>2. CASE SaveCursor
    <2>1. TypeOK' /\ AttemptInv' /\ PageInv'
      BY <1>2 DEF SaveCursor, scan, TypeOK, AttemptInv, PageInv
    <2>2. Frontier' = Frontier
      BY <1>2 DEF SaveCursor, TypeOK, Cursors, PageInv, Frontier
    <2>3. TimesInv'
      BY <1>2, <2>2 DEF SaveCursor, TimesInv
    <2> QED
      BY <2>1, <2>3
  <1>3. CASE Restart
    <2>1. TypeOK' /\ AttemptInv' /\ PageInv'
      BY <1>3 DEF Restart, scan, NoPage, Page, EmptyCursor, Cursor, Cursors,
         TypeOK, AttemptInv, PageInv
    <2>2. TimesInv'
      BY <1>3 DEF Restart, TypeOK, Cursors, PageInv, TimesInv, Frontier
    <2> QED
      BY <2>1, <2>2
  <1> QED
    BY <1>1, <1>2, <1>3

\* The inductive invariant holds throughout.
THEOREM Inductive == Spec => []IInv
  <1>1. IInv /\ UNCHANGED vars => IInv'
    BY DEF IInv, TypeOK, AttemptInv, PageInv, TimesInv, Frontier, vars, scan, app
  <1>2. IInv /\ [Next]_vars => IInv'
    BY <1>1, ScanIInv, ApplicationIInv DEF Next
  <1> QED
    BY InitIInv, <1>2, PTL DEF Spec

\* Every variable keeps its type; in particular the attempts of one call never
\* exceed ScanRetry.MaxAttempts.
THEOREM TypeCorrect == Spec => []TypeOK
  <1>1. IInv => TypeOK
    BY DEF IInv
  <1> QED
    BY Inductive, <1>1, PTL

\* The backend runs at most once in a call of Scan.
THEOREM BackendOnceTheorem == Spec => []BackendOnce
  <1>1. IInv => BackendOnce
    BY DEF IInv, AttemptInv, BackendOnce
  <1> QED
    BY Inductive, <1>1, PTL

\* Nothing before the saved cursor, and nothing at the end, is unprocessed.
THEOREM NothingSkippedTheorem == Spec => []NothingSkipped
  <1>1. IInv => NothingSkipped
    BY ScanAssumption DEF IInv, TypeOK, Cursors, PageInv, TimesInv, Frontier, NothingSkipped
  <1> QED
    BY Inductive, <1>1, PTL

\* A document is processed again only because of a restart.
THEOREM ReplayTheorem == Spec => []ReplayOnlyAfterRestart
  <1>1. IInv => ReplayOnlyAfterRestart
    BY DEF IInv, TimesInv, ReplayOnlyAfterRestart
  <1> QED
    BY Inductive, <1>1, PTL

\* Every cursor Scan has returned and the application saved can be sent again.
THEOREM CursorUsableTheorem == Spec => []CursorUsable
  <1>1. IInv => CursorUsable
    BY DEF IInv, PageInv, CursorUsable
  <1> QED
    BY Inductive, <1>1, PTL

\* However the deadline falls among the checks, the requests and the waits of a
\* call, at most one request goes out after it.
THEOREM OneLateAttemptTheorem == Spec => []OneLateAttempt
  <1>1. IInv => OneLateAttempt
    BY DEF IInv, AttemptInv, OneLateAttempt
  <1> QED
    BY Inductive, <1>1, PTL

================================================================================
