------------------------------ MODULE SinkMessages ------------------------------
(* The message types of api/sink/v1/sink.pb.go: for each struct, the set of *)
(* its values.  Strings and bytes are byte strings, numbers and enums are   *)
(* digits, a pointer is Nil or a message, and unknownFields holds what a    *)
(* newer schema sent.  An element of a repeated field may be a nil pointer. *)
EXTENDS Protowire

Bytes == Seq(0 .. 255)
Numbers == Seq(0 .. 127)

\* A number below top * 128^(n - 1), without leading zeros.
Within(d, n, top) ==
    /\ Len(d) <= n /\ (Len(d) = n => d[n] < top)
    /\ d # << >> => d[Len(d)] # 0

Numbers32 == {d \in Numbers : Within(d, 5, 16)}
Numbers64 == {d \in Numbers : Within(d, 10, 2)}
Pointers(S) == S \cup {Nil}

RecordAddressSet == [Uri : Bytes, unknownFields : Bytes]

DocumentSet == [Encoding : Numbers32, Payload : Bytes, unknownFields : Bytes]

RevisionTokenSet == [Data : Bytes, unknownFields : Bytes]

ReadOperationSet == [Address : Pointers(RecordAddressSet), unknownFields : Bytes]

ReadRequestSet ==
    [Operations : Seq(Pointers(ReadOperationSet)), unknownFields : Bytes]

FailureSet ==
    [Code : Numbers32, Message : Bytes, Retryable : BOOLEAN, unknownFields : Bytes]

ReadResultSet ==
    [OperationIndex : Numbers32, Status : Numbers32, Document : Pointers(DocumentSet),
     Revision : Pointers(RevisionTokenSet), Failure : Pointers(FailureSet),
     unknownFields : Bytes]

ReadResponseSet == [Results : Seq(Pointers(ReadResultSet)), unknownFields : Bytes]

PutOperationSet ==
    [Document : Pointers(DocumentSet), Mode : Numbers32, unknownFields : Bytes]

LuaProgramSet == [Source : Bytes, Sha256 : Bytes, unknownFields : Bytes]

MergeOperationSet ==
    [IncomingDocument : Pointers(DocumentSet), LuaProgram : Pointers(LuaProgramSet),
     unknownFields : Bytes]

\* The oneof; wire.go sets it with a message in it, never with a nil pointer.
ActionSet ==
    [case : {"Put"}, m : PutOperationSet \ {Nil}]
    \cup [case : {"Merge"}, m : MergeOperationSet \ {Nil}]

WriteOperationSet ==
    [Address : Pointers(RecordAddressSet), ReturnDocument : BOOLEAN,
     Action : Pointers(ActionSet), unknownFields : Bytes]

WriteRequestSet ==
    [CompletionMode : Numbers32, Operations : Seq(Pointers(WriteOperationSet)),
     LuaPrograms : Seq(Pointers(LuaProgramSet)), unknownFields : Bytes]

WriteResultSet ==
    [OperationIndex : Numbers32, Status : Numbers32,
     Revision : Pointers(RevisionTokenSet), Failure : Pointers(FailureSet),
     Document : Pointers(DocumentSet), unknownFields : Bytes]

WriteResponseSet == [Results : Seq(Pointers(WriteResultSet)), unknownFields : Bytes]

DeleteOperationSet == [Address : Pointers(RecordAddressSet), unknownFields : Bytes]

DeleteRequestSet ==
    [CompletionMode : Numbers32, Operations : Seq(Pointers(DeleteOperationSet)),
     unknownFields : Bytes]

DeleteResultSet ==
    [OperationIndex : Numbers32, Status : Numbers32, Failure : Pointers(FailureSet),
     unknownFields : Bytes]

DeleteResponseSet ==
    [Results : Seq(Pointers(DeleteResultSet)), unknownFields : Bytes]

HeaderSet == [Name : Bytes, Values : Seq(Bytes), unknownFields : Bytes]

CommandSet ==
    [Uri : Bytes, Method : Bytes, Path : Bytes, Query : Bytes,
     Headers : Seq(Pointers(HeaderSet)), ContentType : Bytes, Payload : Bytes,
     unknownFields : Bytes]

ExecuteRequestSet == [Command : Pointers(CommandSet), unknownFields : Bytes]

ExecuteResponseSet ==
    [ContentType : Bytes, Payload : Bytes, Success : BOOLEAN, StatusCode : Numbers32,
     Headers : Seq(Pointers(HeaderSet)), unknownFields : Bytes]

SortFieldSet == [Field : Bytes, Descending : BOOLEAN, unknownFields : Bytes]

ProjectionSet == [Fields : Seq(Bytes), Exclude : BOOLEAN, unknownFields : Bytes]

QueryRequestSet ==
    [Command : Pointers(CommandSet), Page : Numbers32, PageSize : Numbers32,
     Sort : Seq(Pointers(SortFieldSet)), Projection : Pointers(ProjectionSet),
     unknownFields : Bytes]

QueryResponseSet ==
    [Documents : Seq(Pointers(DocumentSet)), HasMore : BOOLEAN, unknownFields : Bytes]

CountRequestSet == [Command : Pointers(CommandSet), unknownFields : Bytes]

CountResponseSet == [Count : Numbers64, Estimated : BOOLEAN, unknownFields : Bytes]

ScanRequestSet ==
    [Command : Pointers(CommandSet), BatchSize : Numbers32, Cursor : Bytes,
     Projection : Pointers(ProjectionSet), unknownFields : Bytes]

ScanResponseSet ==
    [Documents : Seq(Pointers(DocumentSet)), NextCursor : Bytes, unknownFields : Bytes]

\* The messages of the RPCs, by their type.
MessageSet(k) ==
    CASE k = "ReadRequest" -> ReadRequestSet
      [] k = "ReadResponse" -> ReadResponseSet
      [] k = "WriteRequest" -> WriteRequestSet
      [] k = "WriteResponse" -> WriteResponseSet
      [] k = "DeleteRequest" -> DeleteRequestSet
      [] k = "DeleteResponse" -> DeleteResponseSet
      [] k = "ExecuteRequest" -> ExecuteRequestSet
      [] k = "ExecuteResponse" -> ExecuteResponseSet
      [] k = "QueryRequest" -> QueryRequestSet
      [] k = "QueryResponse" -> QueryResponseSet
      [] k = "CountRequest" -> CountRequestSet
      [] k = "CountResponse" -> CountResponseSet
      [] k = "ScanRequest" -> ScanRequestSet
      [] k = "ScanResponse" -> ScanResponseSet

================================================================================
