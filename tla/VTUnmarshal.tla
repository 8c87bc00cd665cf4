------------------------------ MODULE VTUnmarshal ------------------------------
(* UnmarshalVT of every message of sink.proto, as                           *)
(* api/sink/v1/sink_vtproto.pb.go has them: the wire type of each field the *)
(* message knows and what its case of the switch does to the message.  A    *)
(* scalar is replaced, an element is appended, a nested message is merged   *)
(* into the one that is there.  New... are the zero values of the message   *)
(* types of sink.pb.go.                                                     *)
EXTENDS ProtowireReader

NewRecordAddress == [Uri |-> << >>, unknownFields |-> << >>]

RecordAddress_UnmarshalVT(m, dAtA) ==
    Unmarshal(m, dAtA, <<LEN>>, LAMBDA x, f :
        [x EXCEPT !.Uri = f.val])

NewDocument == [Encoding |-> << >>, Payload |-> << >>, unknownFields |-> << >>]

Document_UnmarshalVT(m, dAtA) ==
    Unmarshal(m, dAtA, <<VARINT, LEN>>, LAMBDA x, f :
        CASE f.num = 1 -> [x EXCEPT !.Encoding = Uint32(f.val)]
          [] f.num = 2 -> [x EXCEPT !.Payload = f.val])

NewRevisionToken == [Data |-> << >>, unknownFields |-> << >>]

RevisionToken_UnmarshalVT(m, dAtA) ==
    Unmarshal(m, dAtA, <<LEN>>, LAMBDA x, f :
        [x EXCEPT !.Data = f.val])

NewReadOperation == [Address |-> Nil, unknownFields |-> << >>]

ReadOperation_UnmarshalVT(m, dAtA) ==
    Unmarshal(m, dAtA, <<LEN>>, LAMBDA x, f :
        Nested(x, "Address",
            RecordAddress_UnmarshalVT(OrNew(x.Address, NewRecordAddress), f.val)))

NewReadRequest == [Operations |-> << >>, unknownFields |-> << >>]

ReadRequest_UnmarshalVT(m, dAtA) ==
    Unmarshal(m, dAtA, <<LEN>>, LAMBDA x, f :
        Appended(x, "Operations", ReadOperation_UnmarshalVT(NewReadOperation, f.val)))

NewFailure ==
    [Code |-> << >>, Message |-> << >>, Retryable |-> FALSE,
     unknownFields |-> << >>]

Failure_UnmarshalVT(m, dAtA) ==
    Unmarshal(m, dAtA, <<VARINT, LEN, VARINT>>, LAMBDA x, f :
        CASE f.num = 1 -> [x EXCEPT !.Code = Uint32(f.val)]
          [] f.num = 2 -> [x EXCEPT !.Message = f.val]
          [] f.num = 3 -> [x EXCEPT !.Retryable = Bool(f.val)])

NewReadResult ==
    [OperationIndex |-> << >>, Status |-> << >>, Document |-> Nil,
     Revision |-> Nil, Failure |-> Nil, unknownFields |-> << >>]

ReadResult_UnmarshalVT(m, dAtA) ==
    Unmarshal(m, dAtA, <<VARINT, VARINT, LEN, LEN, LEN>>, LAMBDA x, f :
        CASE f.num = 1 -> [x EXCEPT !.OperationIndex = Uint32(f.val)]
          [] f.num = 2 -> [x EXCEPT !.Status = Uint32(f.val)]
          [] f.num = 3 -> Nested(x, "Document",
                                 Document_UnmarshalVT(OrNew(x.Document, NewDocument), f.val))
          [] f.num = 4 -> Nested(x, "Revision",
                                 RevisionToken_UnmarshalVT(OrNew(x.Revision, NewRevisionToken), f.val))
          [] f.num = 5 -> Nested(x, "Failure",
                                 Failure_UnmarshalVT(OrNew(x.Failure, NewFailure), f.val)))

NewReadResponse == [Results |-> << >>, unknownFields |-> << >>]

ReadResponse_UnmarshalVT(m, dAtA) ==
    Unmarshal(m, dAtA, <<LEN>>, LAMBDA x, f :
        Appended(x, "Results", ReadResult_UnmarshalVT(NewReadResult, f.val)))

NewPutOperation == [Document |-> Nil, Mode |-> << >>, unknownFields |-> << >>]

PutOperation_UnmarshalVT(m, dAtA) ==
    Unmarshal(m, dAtA, <<LEN, VARINT>>, LAMBDA x, f :
        CASE f.num = 1 -> Nested(x, "Document",
                                 Document_UnmarshalVT(OrNew(x.Document, NewDocument), f.val))
          [] f.num = 2 -> [x EXCEPT !.Mode = Uint32(f.val)])

NewLuaProgram == [Source |-> << >>, Sha256 |-> << >>, unknownFields |-> << >>]

LuaProgram_UnmarshalVT(m, dAtA) ==
    Unmarshal(m, dAtA, <<LEN, LEN>>, LAMBDA x, f :
        CASE f.num = 1 -> [x EXCEPT !.Source = f.val]
          [] f.num = 2 -> [x EXCEPT !.Sha256 = f.val])

NewMergeOperation ==
    [IncomingDocument |-> Nil, LuaProgram |-> Nil, unknownFields |-> << >>]

MergeOperation_UnmarshalVT(m, dAtA) ==
    Unmarshal(m, dAtA, <<LEN, LEN>>, LAMBDA x, f :
        CASE f.num = 1 -> Nested(x, "IncomingDocument",
                                 Document_UnmarshalVT(OrNew(x.IncomingDocument, NewDocument), f.val))
          [] f.num = 2 -> Nested(x, "LuaProgram",
                                 LuaProgram_UnmarshalVT(OrNew(x.LuaProgram, NewLuaProgram), f.val)))

NewWriteOperation ==
    [Address |-> Nil, ReturnDocument |-> FALSE, Action |-> Nil,
     unknownFields |-> << >>]

ActionOrNew(action, case, new) ==
    IF action # Nil /\ action.case = case THEN action.m ELSE new

WithAction(x, case, decoded) ==
    IF decoded = Error THEN Error ELSE [x EXCEPT !.Action = [case |-> case, m |-> decoded]]

WriteOperation_UnmarshalVT(m, dAtA) ==
    Unmarshal(m, dAtA, <<LEN, LEN, LEN, VARINT>>, LAMBDA x, f :
        CASE f.num = 1 -> Nested(x, "Address",
                                 RecordAddress_UnmarshalVT(OrNew(x.Address, NewRecordAddress), f.val))
          [] f.num = 2 -> WithAction(x, "Put",
                                 PutOperation_UnmarshalVT(ActionOrNew(x.Action, "Put", NewPutOperation), f.val))
          [] f.num = 3 -> WithAction(x, "Merge",
                                 MergeOperation_UnmarshalVT(ActionOrNew(x.Action, "Merge", NewMergeOperation), f.val))
          [] f.num = 4 -> [x EXCEPT !.ReturnDocument = Bool(f.val)])

NewWriteRequest ==
    [CompletionMode |-> << >>, Operations |-> << >>, LuaPrograms |-> << >>,
     unknownFields |-> << >>]

WriteRequest_UnmarshalVT(m, dAtA) ==
    Unmarshal(m, dAtA, <<VARINT, LEN, LEN>>, LAMBDA x, f :
        CASE f.num = 1 -> [x EXCEPT !.CompletionMode = Uint32(f.val)]
          [] f.num = 2 -> Appended(x, "Operations",
                                 WriteOperation_UnmarshalVT(NewWriteOperation, f.val))
          [] f.num = 3 -> Appended(x, "LuaPrograms",
                                 LuaProgram_UnmarshalVT(NewLuaProgram, f.val)))

NewWriteResult ==
    [OperationIndex |-> << >>, Status |-> << >>, Revision |-> Nil,
     Failure |-> Nil, Document |-> Nil, unknownFields |-> << >>]

WriteResult_UnmarshalVT(m, dAtA) ==
    Unmarshal(m, dAtA, <<VARINT, VARINT, LEN, LEN, LEN>>, LAMBDA x, f :
        CASE f.num = 1 -> [x EXCEPT !.OperationIndex = Uint32(f.val)]
          [] f.num = 2 -> [x EXCEPT !.Status = Uint32(f.val)]
          [] f.num = 3 -> Nested(x, "Revision",
                                 RevisionToken_UnmarshalVT(OrNew(x.Revision, NewRevisionToken), f.val))
          [] f.num = 4 -> Nested(x, "Failure",
                                 Failure_UnmarshalVT(OrNew(x.Failure, NewFailure), f.val))
          [] f.num = 5 -> Nested(x, "Document",
                                 Document_UnmarshalVT(OrNew(x.Document, NewDocument), f.val)))

NewWriteResponse == [Results |-> << >>, unknownFields |-> << >>]

WriteResponse_UnmarshalVT(m, dAtA) ==
    Unmarshal(m, dAtA, <<LEN>>, LAMBDA x, f :
        Appended(x, "Results", WriteResult_UnmarshalVT(NewWriteResult, f.val)))

NewDeleteOperation == [Address |-> Nil, unknownFields |-> << >>]

DeleteOperation_UnmarshalVT(m, dAtA) ==
    Unmarshal(m, dAtA, <<LEN>>, LAMBDA x, f :
        Nested(x, "Address",
            RecordAddress_UnmarshalVT(OrNew(x.Address, NewRecordAddress), f.val)))

NewDeleteRequest ==
    [CompletionMode |-> << >>, Operations |-> << >>, unknownFields |-> << >>]

DeleteRequest_UnmarshalVT(m, dAtA) ==
    Unmarshal(m, dAtA, <<VARINT, LEN>>, LAMBDA x, f :
        CASE f.num = 1 -> [x EXCEPT !.CompletionMode = Uint32(f.val)]
          [] f.num = 2 -> Appended(x, "Operations",
                                 DeleteOperation_UnmarshalVT(NewDeleteOperation, f.val)))

NewDeleteResult ==
    [OperationIndex |-> << >>, Status |-> << >>, Failure |-> Nil,
     unknownFields |-> << >>]

DeleteResult_UnmarshalVT(m, dAtA) ==
    Unmarshal(m, dAtA, <<VARINT, VARINT, LEN>>, LAMBDA x, f :
        CASE f.num = 1 -> [x EXCEPT !.OperationIndex = Uint32(f.val)]
          [] f.num = 2 -> [x EXCEPT !.Status = Uint32(f.val)]
          [] f.num = 3 -> Nested(x, "Failure",
                                 Failure_UnmarshalVT(OrNew(x.Failure, NewFailure), f.val)))

NewDeleteResponse == [Results |-> << >>, unknownFields |-> << >>]

DeleteResponse_UnmarshalVT(m, dAtA) ==
    Unmarshal(m, dAtA, <<LEN>>, LAMBDA x, f :
        Appended(x, "Results", DeleteResult_UnmarshalVT(NewDeleteResult, f.val)))

NewHeader == [Name |-> << >>, Values |-> << >>, unknownFields |-> << >>]

Header_UnmarshalVT(m, dAtA) ==
    Unmarshal(m, dAtA, <<LEN, LEN>>, LAMBDA x, f :
        CASE f.num = 1 -> [x EXCEPT !.Name = f.val]
          [] f.num = 2 -> [x EXCEPT !.Values = Append(@, f.val)])

NewCommand ==
    [Uri |-> << >>, Method |-> << >>, Path |-> << >>, Query |-> << >>,
     Headers |-> << >>, ContentType |-> << >>, Payload |-> << >>,
     unknownFields |-> << >>]

Command_UnmarshalVT(m, dAtA) ==
    Unmarshal(m, dAtA, <<LEN, LEN, LEN, LEN, LEN, LEN, LEN>>, LAMBDA x, f :
        CASE f.num = 1 -> [x EXCEPT !.Uri = f.val]
          [] f.num = 2 -> [x EXCEPT !.Method = f.val]
          [] f.num = 3 -> [x EXCEPT !.Path = f.val]
          [] f.num = 4 -> [x EXCEPT !.Query = f.val]
          [] f.num = 5 -> Appended(x, "Headers", Header_UnmarshalVT(NewHeader, f.val))
          [] f.num = 6 -> [x EXCEPT !.ContentType = f.val]
          [] f.num = 7 -> [x EXCEPT !.Payload = f.val])

NewExecuteRequest == [Command |-> Nil, unknownFields |-> << >>]

ExecuteRequest_UnmarshalVT(m, dAtA) ==
    Unmarshal(m, dAtA, <<LEN>>, LAMBDA x, f :
        Nested(x, "Command", Command_UnmarshalVT(OrNew(x.Command, NewCommand), f.val)))

NewExecuteResponse ==
    [ContentType |-> << >>, Payload |-> << >>, Success |-> FALSE,
     StatusCode |-> << >>, Headers |-> << >>, unknownFields |-> << >>]

ExecuteResponse_UnmarshalVT(m, dAtA) ==
    Unmarshal(m, dAtA, <<LEN, LEN, VARINT, VARINT, LEN>>, LAMBDA x, f :
        CASE f.num = 1 -> [x EXCEPT !.ContentType = f.val]
          [] f.num = 2 -> [x EXCEPT !.Payload = f.val]
          [] f.num = 3 -> [x EXCEPT !.Success = Bool(f.val)]
          [] f.num = 4 -> [x EXCEPT !.StatusCode = Uint32(f.val)]
          [] f.num = 5 -> Appended(x, "Headers", Header_UnmarshalVT(NewHeader, f.val)))

NewSortField == [Field |-> << >>, Descending |-> FALSE, unknownFields |-> << >>]

SortField_UnmarshalVT(m, dAtA) ==
    Unmarshal(m, dAtA, <<LEN, VARINT>>, LAMBDA x, f :
        CASE f.num = 1 -> [x EXCEPT !.Field = f.val]
          [] f.num = 2 -> [x EXCEPT !.Descending = Bool(f.val)])

NewProjection == [Fields |-> << >>, Exclude |-> FALSE, unknownFields |-> << >>]

Projection_UnmarshalVT(m, dAtA) ==
    Unmarshal(m, dAtA, <<LEN, VARINT>>, LAMBDA x, f :
        CASE f.num = 1 -> [x EXCEPT !.Fields = Append(@, f.val)]
          [] f.num = 2 -> [x EXCEPT !.Exclude = Bool(f.val)])

NewQueryRequest ==
    [Command |-> Nil, Page |-> << >>, PageSize |-> << >>, Sort |-> << >>,
     Projection |-> Nil, unknownFields |-> << >>]

QueryRequest_UnmarshalVT(m, dAtA) ==
    Unmarshal(m, dAtA, <<LEN, VARINT, VARINT, LEN, LEN>>, LAMBDA x, f :
        CASE f.num = 1 -> Nested(x, "Command",
                                 Command_UnmarshalVT(OrNew(x.Command, NewCommand), f.val))
          [] f.num = 2 -> [x EXCEPT !.Page = Uint32(f.val)]
          [] f.num = 3 -> [x EXCEPT !.PageSize = Uint32(f.val)]
          [] f.num = 4 -> Appended(x, "Sort", SortField_UnmarshalVT(NewSortField, f.val))
          [] f.num = 5 -> Nested(x, "Projection",
                                 Projection_UnmarshalVT(OrNew(x.Projection, NewProjection), f.val)))

NewQueryResponse ==
    [Documents |-> << >>, HasMore |-> FALSE, unknownFields |-> << >>]

QueryResponse_UnmarshalVT(m, dAtA) ==
    Unmarshal(m, dAtA, <<LEN, VARINT>>, LAMBDA x, f :
        CASE f.num = 1 -> Appended(x, "Documents", Document_UnmarshalVT(NewDocument, f.val))
          [] f.num = 2 -> [x EXCEPT !.HasMore = Bool(f.val)])

NewCountRequest == [Command |-> Nil, unknownFields |-> << >>]

CountRequest_UnmarshalVT(m, dAtA) ==
    Unmarshal(m, dAtA, <<LEN>>, LAMBDA x, f :
        Nested(x, "Command", Command_UnmarshalVT(OrNew(x.Command, NewCommand), f.val)))

NewCountResponse == [Count |-> << >>, Estimated |-> FALSE, unknownFields |-> << >>]

CountResponse_UnmarshalVT(m, dAtA) ==
    Unmarshal(m, dAtA, <<VARINT, VARINT>>, LAMBDA x, f :
        CASE f.num = 1 -> [x EXCEPT !.Count = Uint64(f.val)]
          [] f.num = 2 -> [x EXCEPT !.Estimated = Bool(f.val)])

NewScanRequest ==
    [Command |-> Nil, BatchSize |-> << >>, Cursor |-> << >>, Projection |-> Nil,
     unknownFields |-> << >>]

ScanRequest_UnmarshalVT(m, dAtA) ==
    Unmarshal(m, dAtA, <<LEN, VARINT, LEN, LEN>>, LAMBDA x, f :
        CASE f.num = 1 -> Nested(x, "Command",
                                 Command_UnmarshalVT(OrNew(x.Command, NewCommand), f.val))
          [] f.num = 2 -> [x EXCEPT !.BatchSize = Uint32(f.val)]
          [] f.num = 3 -> [x EXCEPT !.Cursor = f.val]
          [] f.num = 4 -> Nested(x, "Projection",
                                 Projection_UnmarshalVT(OrNew(x.Projection, NewProjection), f.val)))

NewScanResponse ==
    [Documents |-> << >>, NextCursor |-> << >>, unknownFields |-> << >>]

ScanResponse_UnmarshalVT(m, dAtA) ==
    Unmarshal(m, dAtA, <<LEN, LEN>>, LAMBDA x, f :
        CASE f.num = 1 -> Appended(x, "Documents", Document_UnmarshalVT(NewDocument, f.val))
          [] f.num = 2 -> [x EXCEPT !.NextCursor = f.val])

================================================================================
