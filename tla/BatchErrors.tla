------------------------------ MODULE BatchErrors ------------------------------
(***************************************************************************)
(* The errors of Dataset methods: the error of the client's call, and the  *)
(* BatchError of the results it returned (types.go, dataset.go).           *)
(***************************************************************************)
EXTENDS Results

\* An error wraps at most one error of the call and the failures of a
\* BatchError; a failure names its operation, so a set keeps them apart.
Error(call, failures) == [call |-> call, failures |-> failures]

NilError == Error("nil", {})

\* ReadResultsError and WriteResultsError.
ResultsError(results) ==
    { results[i].Failure : i \in { j \in DOMAIN results : results[j].Failure # NoFailure } }

\* Faulty variant: the error of the call hides the failures.
CallErrorOnly(outcome, results) ==
    IF outcome = "ok" THEN Error("nil", ResultsError(results)) ELSE Error(outcome, {})

\* Faulty variant: only the error of the call is looked at.
ResultsIgnored(outcome, results) ==
    IF outcome = "ok" THEN NilError ELSE Error(outcome, ResultsError(results))

\* The end of Dataset.Read and Dataset.write: errors.Join when there are both.
JoinedError(outcome, results) ==
    Error(IF outcome = "ok" THEN "nil" ELSE outcome, ResultsError(results))

================================================================================
