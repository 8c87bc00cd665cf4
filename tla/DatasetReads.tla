----------------------------- MODULE DatasetReads ------------------------------
(***************************************************************************)
(* One call of Dataset.Read (dataset.go) on top of RecordReads: the keys   *)
(* become addresses, Client.Read is called, and its error and the failures *)
(* of its results become one error.  Or the application calls Client.Read  *)
(* itself.                                                                 *)
(***************************************************************************)
EXTENDS RecordReads, BatchErrors

VARIABLES
    step,  \* "idle", "reading" (Client.Read runs), "returned", or "direct"
    err    \* the error Dataset.Read returned

datasetVars == <<step, err, vars>>

DatasetInit == Init /\ step = "idle" /\ err = NilError

\* A Dataset without a client, or a key that cannot be formatted, ends the call
\* before Client.Read.
RefuseKey ==
    /\ step = "idle" /\ step' = "returned"
    /\ err' = Error("key", {})
    /\ UNCHANGED vars

\* All keys are good; their addresses are canonical, so that Client.Read can
\* reject only an empty list.
BeginRead ==
    /\ step = "idle" /\ step' = "reading"
    /\ Call \/ (Reject /\ count' = 0)
    /\ UNCHANGED err

Reading ==
    /\ step = "reading"
    /\ Attempt \/ BackoffElapses \/ BackoffCancelled \/ CancelContext
    /\ UNCHANGED <<step, err>>

\* Client.Read has returned.
ReturnRead ==
    /\ step = "reading" /\ pc = "done"
    /\ step' = "returned"
    /\ err' = JoinedError(outcome, results)
    /\ UNCHANGED vars

\* The application calls Client.Read without a Dataset.
ClientRead ==
    /\ step \in {"idle", "direct"} /\ step' = "direct"
    /\ Next
    /\ UNCHANGED err

DatasetNext == ClientRead \/ RefuseKey \/ BeginRead \/ Reading \/ ReturnRead

DatasetSpec == DatasetInit /\ [][DatasetNext]_datasetVars /\ Fairness

-------------------------------------------------------------------------------
(***************************************************************************)
(* Correctness.                                                            *)
(***************************************************************************)

\* A nil error means that every key was read: its result is the server's answer
\* to it, found or not found.  A failure of one record in one batch is enough
\* for an error, whatever the other batches and attempts did.
NilMeansRead ==
    step = "returned" /\ err = NilError =>
        /\ count > 0 /\ DOMAIN results = Slice(count)
        /\ \A i \in Slice(count) :
              results[i].of = i /\ results[i].Status \in {"found", "notFound"}

================================================================================
