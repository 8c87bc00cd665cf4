--------------------------- MODULE DatasetMutations ----------------------------
(***************************************************************************)
(* A Dataset and one call of its Create, Replace, Upsert or Merge          *)
(* (dataset.go), on top of RecordMutations: the records are encoded into   *)
(* operations, Client.Write is called, and its error and the failures of   *)
(* its results become one error.  Create, Replace and Upsert differ only   *)
(* in the write mode that the server interprets.  Or the application calls *)
(* Client.Write or Client.Delete itself.                                   *)
(***************************************************************************)
EXTENDS RecordMutations, BatchErrors

VARIABLES
    step,          \* "unbound", "idle", "writing" (Client.Write runs), "returned", or "direct"
    mergeProgram,  \* the program of the Dataset, or "none"
    records,       \* the records of the call, a slice
    err            \* the error of the last method

datasetVars == <<step, mergeProgram, records, err, vars>>

\* What matters of a Record: whether its key and value can be encoded.
Records == [encodes : BOOLEAN, returnDocument : BOOLEAN]

DatasetInit ==
    /\ Init
    /\ step = "unbound" /\ mergeProgram = "none"
    /\ records = Empty /\ err = NilError

\* A client, a URI, an encoding and perhaps a program make a Dataset.
NewDataset ==
    /\ step = "unbound" /\ step' = "idle"
    /\ mergeProgram' \in Programs \cup {"none"}
    /\ err' = NilError
    /\ UNCHANGED <<records, vars>>

\* No client, or options that are not valid.
NewDatasetRefused ==
    /\ step = "unbound"
    /\ err' = Error("options", {})
    /\ UNCHANGED <<step, mergeProgram, records, vars>>

\* encodeRecord, NewPut and NewMerge.
Operation(record, program) ==
    [valid |-> TRUE, action |-> IF program = "none" THEN "put" ELSE "merge",
     program |-> program, returnDocument |-> record.returnDocument]

\* Every record can be encoded: Client.Write gets them all.
WriteRecords(given, program, completionMode) ==
    /\ step = "idle" /\ step' = "writing"
    /\ \A i \in DOMAIN given : given[i].encodes
    /\ records' = given
    /\ Begin("Write", [i \in DOMAIN given |-> Operation(given[i], program)],
             completionMode)
    /\ UNCHANGED <<mergeProgram, err>>

\* The first record that cannot be encoded ends the call.
RefuseRecord(given) ==
    /\ step = "idle" /\ step' = "returned"
    /\ \E i \in DOMAIN given : ~given[i].encodes
    /\ records' = given
    /\ err' = Error("record", {})
    /\ UNCHANGED <<mergeProgram, vars>>

\* Create, Replace and Upsert.
Put(given, completionMode) ==
    WriteRecords(given, "none", completionMode) \/ RefuseRecord(given)

\* Merge applies the program of the Dataset to every record.
MergeRecords(given, completionMode) ==
    /\ mergeProgram # "none"
    /\ WriteRecords(given, mergeProgram, completionMode) \/ RefuseRecord(given)

MergeWithoutProgram(given) ==
    /\ step = "idle" /\ step' = "returned" /\ mergeProgram = "none"
    /\ records' = given
    /\ err' = Error("program", {})
    /\ UNCHANGED <<mergeProgram, vars>>

\* Client.Write runs; the server may go on after the Dataset has returned.
Writing ==
    /\ \/ step = "writing" /\ (SendBatch \/ FailCall \/ MalformedResponse \/ FinishBatch)
       \/ \E i \in Slice(MaxCount) : ServerDecides(i) \/ ServerApplies(i)
    /\ UNCHANGED <<step, mergeProgram, records, err>>

\* Client.Write has returned.
ReturnWrite ==
    /\ step = "writing" /\ pc = "done"
    /\ step' = "returned"
    /\ err' = JoinedError(outcome, results)
    /\ UNCHANGED <<mergeProgram, records, vars>>

\* The application calls Client.Write or Client.Delete without a Dataset.
ClientMutation ==
    /\ step \in {"unbound", "direct"} /\ step' = "direct"
    /\ Client
    /\ err' = NilError
    /\ UNCHANGED <<mergeProgram, records>>

DatasetNext ==
    \/ ClientMutation
    \/ NewDataset \/ NewDatasetRefused
    \/ \E n \in 0 .. MaxCount : \E given \in [Slice(n) -> Records] :
          \/ MergeWithoutProgram(given)
          \/ \E m \in Modes \cup {"invalid"} : Put(given, m) \/ MergeRecords(given, m)
    \/ Writing \/ ReturnWrite

DatasetSpec == DatasetInit /\ [][DatasetNext]_datasetVars

-------------------------------------------------------------------------------
(***************************************************************************)
(* Correctness.                                                            *)
(***************************************************************************)

\* A nil error means that every record was taken: the server has accepted it,
\* or has applied it when the mode waits for that, and the documents
\* asked for are there.
NilMeansTaken ==
    step = "returned" /\ err = NilError =>
        \A i \in DOMAIN records :
            /\ verdict[i] = (IF mode = "accepted" THEN "accepted" ELSE "applied")
            /\ mode # "accepted" => i \in effect
            /\ records[i].returnDocument => results[i].Document

\* The error tells what happened: by index it lists exactly the records with a
\* result that the server turned down, also when a later batch failed as a whole,
\* and none of those took effect; and when it names a record that cannot be
\* encoded, wherever that stands, nothing of the call was sent or took effect.
FailuresPreserved ==
    /\ step = "returned" =>
          /\ { f.OperationIndex : f \in err.failures } =
                { i \in DOMAIN results : verdict[i] \in {"failed", "preconditionFailed"} }
          /\ \A f \in err.failures : f.OperationIndex \notin effect
    /\ (\E i \in DOMAIN records : ~records[i].encodes) =>
          effect = {} /\ \A j \in DOMAIN sent : sent[j] = 0

================================================================================
