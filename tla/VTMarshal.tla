------------------------------- MODULE VTMarshal -------------------------------
(* SizeVT and MarshalToSizedBufferVT of every message of sink.proto, as     *)
(* api/sink/v1/sink_vtproto.pb.go has them.  The two are generated          *)
(* separately and are translated separately: the codec allocates what       *)
(* SizeVT announces and the Marshal function fills it from the end, so that *)
(* they must agree to the byte.  A Marshal operator is the byte string its  *)
(* function leaves at the end of the buffer.  A set oneof is a record of    *)
(* its case and its message.                                                *)
EXTENDS SinkMessages

--------------------------------------------------------------------------------
(* MarshalToSizedBufferVT *)

RecordAddress_MarshalToSizedBufferVT(m) ==
    BytesField(\h0A, m.Uri) \o m.unknownFields

\* Faulty variant: the tag of another field.
Document_MarshalTagMixed(m) ==
    EnumField(\h08, m.Encoding) \o BytesField(\h1A, m.Payload) \o m.unknownFields

Document_MarshalToSizedBufferVT(m) ==
    EnumField(\h08, m.Encoding) \o BytesField(\h12, m.Payload) \o m.unknownFields

RevisionToken_MarshalToSizedBufferVT(m) ==
    BytesField(\h0A, m.Data) \o m.unknownFields

ReadOperation_MarshalToSizedBufferVT(m) ==
    MessageField(\h0A, m.Address, RecordAddress_MarshalToSizedBufferVT)
    \o m.unknownFields

ReadRequest_MarshalToSizedBufferVT(m) ==
    RepeatedField(\h0A, m.Operations, ReadOperation_MarshalToSizedBufferVT)
    \o m.unknownFields

Failure_MarshalToSizedBufferVT(m) ==
    EnumField(\h08, m.Code) \o BytesField(\h12, m.Message)
    \o BoolField(\h18, m.Retryable) \o m.unknownFields

ReadResult_MarshalToSizedBufferVT(m) ==
    UintField(\h08, m.OperationIndex) \o EnumField(\h10, m.Status)
    \o MessageField(\h1A, m.Document, Document_MarshalToSizedBufferVT)
    \o MessageField(\h22, m.Revision, RevisionToken_MarshalToSizedBufferVT)
    \o MessageField(\h2A, m.Failure, Failure_MarshalToSizedBufferVT)
    \o m.unknownFields

ReadResponse_MarshalToSizedBufferVT(m) ==
    RepeatedField(\h0A, m.Results, ReadResult_MarshalToSizedBufferVT)
    \o m.unknownFields

PutOperation_MarshalToSizedBufferVT(m) ==
    MessageField(\h0A, m.Document, Document_MarshalToSizedBufferVT)
    \o EnumField(\h10, m.Mode) \o m.unknownFields

LuaProgram_MarshalToSizedBufferVT(m) ==
    BytesField(\h0A, m.Source) \o BytesField(\h12, m.Sha256) \o m.unknownFields

MergeOperation_MarshalToSizedBufferVT(m) ==
    MessageField(\h0A, m.IncomingDocument, Document_MarshalToSizedBufferVT)
    \o MessageField(\h12, m.LuaProgram, LuaProgram_MarshalToSizedBufferVT)
    \o m.unknownFields

WriteOperation_Put_MarshalToSizedBufferVT(m) ==
    Delimited(\h12, IF m = Nil THEN << >> ELSE PutOperation_MarshalToSizedBufferVT(m))

WriteOperation_Merge_MarshalToSizedBufferVT(m) ==
    Delimited(\h1A, IF m = Nil THEN << >> ELSE MergeOperation_MarshalToSizedBufferVT(m))

Action_MarshalToSizedBufferVT(action) ==
    IF action = Nil THEN << >>
    ELSE IF action.case = "Put" THEN WriteOperation_Put_MarshalToSizedBufferVT(action.m)
    ELSE WriteOperation_Merge_MarshalToSizedBufferVT(action.m)

WriteOperation_MarshalToSizedBufferVT(m) ==
    MessageField(\h0A, m.Address, RecordAddress_MarshalToSizedBufferVT)
    \o BoolField(\h20, m.ReturnDocument) \o Action_MarshalToSizedBufferVT(m.Action)
    \o m.unknownFields

WriteRequest_MarshalToSizedBufferVT(m) ==
    EnumField(\h08, m.CompletionMode)
    \o RepeatedField(\h12, m.Operations, WriteOperation_MarshalToSizedBufferVT)
    \o RepeatedField(\h1A, m.LuaPrograms, LuaProgram_MarshalToSizedBufferVT)
    \o m.unknownFields

WriteResult_MarshalToSizedBufferVT(m) ==
    UintField(\h08, m.OperationIndex) \o EnumField(\h10, m.Status)
    \o MessageField(\h1A, m.Revision, RevisionToken_MarshalToSizedBufferVT)
    \o MessageField(\h22, m.Failure, Failure_MarshalToSizedBufferVT)
    \o MessageField(\h2A, m.Document, Document_MarshalToSizedBufferVT)
    \o m.unknownFields

WriteResponse_MarshalToSizedBufferVT(m) ==
    RepeatedField(\h0A, m.Results, WriteResult_MarshalToSizedBufferVT)
    \o m.unknownFields

DeleteOperation_MarshalToSizedBufferVT(m) ==
    MessageField(\h0A, m.Address, RecordAddress_MarshalToSizedBufferVT)
    \o m.unknownFields

DeleteRequest_MarshalToSizedBufferVT(m) ==
    EnumField(\h08, m.CompletionMode)
    \o RepeatedField(\h12, m.Operations, DeleteOperation_MarshalToSizedBufferVT)
    \o m.unknownFields

DeleteResult_MarshalToSizedBufferVT(m) ==
    UintField(\h08, m.OperationIndex) \o EnumField(\h10, m.Status)
    \o MessageField(\h1A, m.Failure, Failure_MarshalToSizedBufferVT)
    \o m.unknownFields

DeleteResponse_MarshalToSizedBufferVT(m) ==
    RepeatedField(\h0A, m.Results, DeleteResult_MarshalToSizedBufferVT)
    \o m.unknownFields

Header_MarshalToSizedBufferVT(m) ==
    BytesField(\h0A, m.Name) \o RepeatedField(\h12, m.Values, LAMBDA s : s)
    \o m.unknownFields

Command_MarshalToSizedBufferVT(m) ==
    BytesField(\h0A, m.Uri) \o BytesField(\h12, m.Method)
    \o BytesField(\h1A, m.Path) \o BytesField(\h22, m.Query)
    \o RepeatedField(\h2A, m.Headers, Header_MarshalToSizedBufferVT)
    \o BytesField(\h32, m.ContentType) \o BytesField(\h3A, m.Payload)
    \o m.unknownFields

ExecuteRequest_MarshalToSizedBufferVT(m) ==
    MessageField(\h0A, m.Command, Command_MarshalToSizedBufferVT)
    \o m.unknownFields

ExecuteResponse_MarshalToSizedBufferVT(m) ==
    BytesField(\h0A, m.ContentType) \o BytesField(\h12, m.Payload)
    \o BoolField(\h18, m.Success) \o UintField(\h20, m.StatusCode)
    \o RepeatedField(\h2A, m.Headers, Header_MarshalToSizedBufferVT)
    \o m.unknownFields

SortField_MarshalToSizedBufferVT(m) ==
    BytesField(\h0A, m.Field) \o BoolField(\h10, m.Descending) \o m.unknownFields

Projection_MarshalToSizedBufferVT(m) ==
    RepeatedField(\h0A, m.Fields, LAMBDA s : s) \o BoolField(\h10, m.Exclude)
    \o m.unknownFields

QueryRequest_MarshalToSizedBufferVT(m) ==
    MessageField(\h0A, m.Command, Command_MarshalToSizedBufferVT)
    \o UintField(\h10, m.Page) \o UintField(\h18, m.PageSize)
    \o RepeatedField(\h22, m.Sort, SortField_MarshalToSizedBufferVT)
    \o MessageField(\h2A, m.Projection, Projection_MarshalToSizedBufferVT)
    \o m.unknownFields

QueryResponse_MarshalToSizedBufferVT(m) ==
    RepeatedField(\h0A, m.Documents, Document_MarshalToSizedBufferVT)
    \o BoolField(\h10, m.HasMore) \o m.unknownFields

CountRequest_MarshalToSizedBufferVT(m) ==
    MessageField(\h0A, m.Command, Command_MarshalToSizedBufferVT)
    \o m.unknownFields

CountResponse_MarshalToSizedBufferVT(m) ==
    UintField(\h08, m.Count) \o BoolField(\h10, m.Estimated) \o m.unknownFields

ScanRequest_MarshalToSizedBufferVT(m) ==
    MessageField(\h0A, m.Command, Command_MarshalToSizedBufferVT)
    \o UintField(\h10, m.BatchSize) \o BytesField(\h1A, m.Cursor)
    \o MessageField(\h22, m.Projection, Projection_MarshalToSizedBufferVT)
    \o m.unknownFields

ScanResponse_MarshalToSizedBufferVT(m) ==
    RepeatedField(\h0A, m.Documents, Document_MarshalToSizedBufferVT)
    \o BytesField(\h12, m.NextCursor) \o m.unknownFields

--------------------------------------------------------------------------------
(* SizeVT *)

RecordAddress_SizeVT(m) ==
    SizeBytes(m.Uri) + Len(m.unknownFields)

Document_SizeVT(m) ==
    SizeEnum(m.Encoding) + SizeBytes(m.Payload) + Len(m.unknownFields)

RevisionToken_SizeVT(m) ==
    SizeBytes(m.Data) + Len(m.unknownFields)

ReadOperation_SizeVT(m) ==
    SizeMessage(m.Address, RecordAddress_SizeVT) + Len(m.unknownFields)

ReadRequest_SizeVT(m) ==
    SizeRepeated(m.Operations, ReadOperation_SizeVT) + Len(m.unknownFields)

Failure_SizeVT(m) ==
    SizeEnum(m.Code) + SizeBytes(m.Message) + SizeBool(m.Retryable)
    + Len(m.unknownFields)

ReadResult_SizeVT(m) ==
    SizeUint(m.OperationIndex) + SizeEnum(m.Status)
    + SizeMessage(m.Document, Document_SizeVT)
    + SizeMessage(m.Revision, RevisionToken_SizeVT)
    + SizeMessage(m.Failure, Failure_SizeVT) + Len(m.unknownFields)

ReadResponse_SizeVT(m) ==
    SizeRepeated(m.Results, ReadResult_SizeVT) + Len(m.unknownFields)

PutOperation_SizeVT(m) ==
    SizeMessage(m.Document, Document_SizeVT) + SizeEnum(m.Mode)
    + Len(m.unknownFields)

LuaProgram_SizeVT(m) ==
    SizeBytes(m.Source) + SizeBytes(m.Sha256) + Len(m.unknownFields)

MergeOperation_SizeVT(m) ==
    SizeMessage(m.IncomingDocument, Document_SizeVT)
    + SizeMessage(m.LuaProgram, LuaProgram_SizeVT) + Len(m.unknownFields)

WriteOperation_Put_SizeVT(m) == IF m = Nil THEN 3 ELSE SizeDelimited(PutOperation_SizeVT(m))

WriteOperation_Merge_SizeVT(m) == IF m = Nil THEN 3 ELSE SizeDelimited(MergeOperation_SizeVT(m))

Action_SizeVT(action) ==
    IF action = Nil THEN 0
    ELSE IF action.case = "Put" THEN WriteOperation_Put_SizeVT(action.m)
    ELSE WriteOperation_Merge_SizeVT(action.m)

WriteOperation_SizeVT(m) ==
    SizeMessage(m.Address, RecordAddress_SizeVT) + Action_SizeVT(m.Action)
    + SizeBool(m.ReturnDocument) + Len(m.unknownFields)

WriteRequest_SizeVT(m) ==
    SizeEnum(m.CompletionMode) + SizeRepeated(m.Operations, WriteOperation_SizeVT)
    + SizeRepeated(m.LuaPrograms, LuaProgram_SizeVT) + Len(m.unknownFields)

WriteResult_SizeVT(m) ==
    SizeUint(m.OperationIndex) + SizeEnum(m.Status)
    + SizeMessage(m.Revision, RevisionToken_SizeVT)
    + SizeMessage(m.Failure, Failure_SizeVT)
    + SizeMessage(m.Document, Document_SizeVT) + Len(m.unknownFields)

WriteResponse_SizeVT(m) ==
    SizeRepeated(m.Results, WriteResult_SizeVT) + Len(m.unknownFields)

DeleteOperation_SizeVT(m) ==
    SizeMessage(m.Address, RecordAddress_SizeVT) + Len(m.unknownFields)

DeleteRequest_SizeVT(m) ==
    SizeEnum(m.CompletionMode) + SizeRepeated(m.Operations, DeleteOperation_SizeVT)
    + Len(m.unknownFields)

DeleteResult_SizeVT(m) ==
    SizeUint(m.OperationIndex) + SizeEnum(m.Status)
    + SizeMessage(m.Failure, Failure_SizeVT) + Len(m.unknownFields)

DeleteResponse_SizeVT(m) ==
    SizeRepeated(m.Results, DeleteResult_SizeVT) + Len(m.unknownFields)

Header_SizeVT(m) ==
    SizeBytes(m.Name) + SizeRepeated(m.Values, Len) + Len(m.unknownFields)

Command_SizeVT(m) ==
    SizeBytes(m.Uri) + SizeBytes(m.Method) + SizeBytes(m.Path)
    + SizeBytes(m.Query) + SizeRepeated(m.Headers, Header_SizeVT)
    + SizeBytes(m.ContentType) + SizeBytes(m.Payload) + Len(m.unknownFields)

ExecuteRequest_SizeVT(m) ==
    SizeMessage(m.Command, Command_SizeVT) + Len(m.unknownFields)

ExecuteResponse_SizeVT(m) ==
    SizeBytes(m.ContentType) + SizeBytes(m.Payload) + SizeBool(m.Success)
    + SizeUint(m.StatusCode) + SizeRepeated(m.Headers, Header_SizeVT)
    + Len(m.unknownFields)

SortField_SizeVT(m) ==
    SizeBytes(m.Field) + SizeBool(m.Descending) + Len(m.unknownFields)

Projection_SizeVT(m) ==
    SizeRepeated(m.Fields, Len) + SizeBool(m.Exclude) + Len(m.unknownFields)

QueryRequest_SizeVT(m) ==
    SizeMessage(m.Command, Command_SizeVT) + SizeUint(m.Page)
    + SizeUint(m.PageSize) + SizeRepeated(m.Sort, SortField_SizeVT)
    + SizeMessage(m.Projection, Projection_SizeVT) + Len(m.unknownFields)

QueryResponse_SizeVT(m) ==
    SizeRepeated(m.Documents, Document_SizeVT) + SizeBool(m.HasMore)
    + Len(m.unknownFields)

CountRequest_SizeVT(m) ==
    SizeMessage(m.Command, Command_SizeVT) + Len(m.unknownFields)

CountResponse_SizeVT(m) ==
    SizeUint(m.Count) + SizeBool(m.Estimated) + Len(m.unknownFields)

ScanRequest_SizeVT(m) ==
    SizeMessage(m.Command, Command_SizeVT) + SizeUint(m.BatchSize)
    + SizeBytes(m.Cursor) + SizeMessage(m.Projection, Projection_SizeVT)
    + Len(m.unknownFields)

ScanResponse_SizeVT(m) ==
    SizeRepeated(m.Documents, Document_SizeVT) + SizeBytes(m.NextCursor)
    + Len(m.unknownFields)

--------------------------------------------------------------------------------
(* vtProtoCodec calls the methods of the message it is given. *)

MarshalOf(k, m) ==
    CASE k = "ReadRequest" -> ReadRequest_MarshalToSizedBufferVT(m)
      [] k = "ReadResponse" -> ReadResponse_MarshalToSizedBufferVT(m)
      [] k = "WriteRequest" -> WriteRequest_MarshalToSizedBufferVT(m)
      [] k = "WriteResponse" -> WriteResponse_MarshalToSizedBufferVT(m)
      [] k = "DeleteRequest" -> DeleteRequest_MarshalToSizedBufferVT(m)
      [] k = "DeleteResponse" -> DeleteResponse_MarshalToSizedBufferVT(m)
      [] k = "ExecuteRequest" -> ExecuteRequest_MarshalToSizedBufferVT(m)
      [] k = "ExecuteResponse" -> ExecuteResponse_MarshalToSizedBufferVT(m)
      [] k = "QueryRequest" -> QueryRequest_MarshalToSizedBufferVT(m)
      [] k = "QueryResponse" -> QueryResponse_MarshalToSizedBufferVT(m)
      [] k = "CountRequest" -> CountRequest_MarshalToSizedBufferVT(m)
      [] k = "CountResponse" -> CountResponse_MarshalToSizedBufferVT(m)
      [] k = "ScanRequest" -> ScanRequest_MarshalToSizedBufferVT(m)
      [] k = "ScanResponse" -> ScanResponse_MarshalToSizedBufferVT(m)

SizeOf(k, m) ==
    CASE k = "ReadRequest" -> ReadRequest_SizeVT(m)
      [] k = "ReadResponse" -> ReadResponse_SizeVT(m)
      [] k = "WriteRequest" -> WriteRequest_SizeVT(m)
      [] k = "WriteResponse" -> WriteResponse_SizeVT(m)
      [] k = "DeleteRequest" -> DeleteRequest_SizeVT(m)
      [] k = "DeleteResponse" -> DeleteResponse_SizeVT(m)
      [] k = "ExecuteRequest" -> ExecuteRequest_SizeVT(m)
      [] k = "ExecuteResponse" -> ExecuteResponse_SizeVT(m)
      [] k = "QueryRequest" -> QueryRequest_SizeVT(m)
      [] k = "QueryResponse" -> QueryResponse_SizeVT(m)
      [] k = "CountRequest" -> CountRequest_SizeVT(m)
      [] k = "CountResponse" -> CountResponse_SizeVT(m)
      [] k = "ScanRequest" -> ScanRequest_SizeVT(m)
      [] k = "ScanResponse" -> ScanResponse_SizeVT(m)

================================================================================
