----------------------------- MODULE MCMessageCodec -----------------------------
(* Messages of all fourteen types, which between them set every field of    *)
(* every nested message, leave every one at its default and hold nil, empty *)
(* and filled messages, repeated fields of none to two elements, both cases *)
(* of the oneof, numbers at the limit of one, two, five and ten bytes and   *)
(* one nested unknown field.                                                *)
EXTENDS MessageCodec

\* 1, 2^7, 2^32 - 1 (and the enum value -1), 2^64 - 1
One == <<1>>
TwoBytes == <<0, 1>>
Max32 == <<127, 127, 127, 127, 15>>
Max64 == <<127, 127, 127, 127, 127, 127, 127, 127, 127, 1>>

Text == {<< >>, <<115, 8>>}
Long == [i \in 1 .. 128 |-> 10]
Later == <<40, 7>>

Documents == {NewDocument,
              [NewDocument EXCEPT !.Encoding = One, !.Payload = <<123, 125>>],
              [NewDocument EXCEPT !.Encoding = Max32, !.unknownFields = Later]}
Address == [NewRecordAddress EXCEPT !.Uri = <<115>>]
Document == CHOOSE d \in Documents : d.Payload # << >>
Failures == {[NewFailure EXCEPT !.Code = c, !.Message = t, !.Retryable = r] :
                 c \in {<< >>, <<8>>}, t \in Text, r \in BOOLEAN}
Failure == CHOOSE f \in Failures : f.Retryable /\ f.Message # << >> /\ f.Code # << >>
Revision == [NewRevisionToken EXCEPT !.Data = <<9>>]
Program == [NewLuaProgram EXCEPT !.Source = <<114>>, !.Sha256 = <<4, 5>>]
Headers == {<< >>, <<[NewHeader EXCEPT !.Name = <<65>>, !.Values = <<<<1>>, << >>>>]>>,
            <<NewHeader, [NewHeader EXCEPT !.Values = <<<<2>>>>]>>}
Command == [NewCommand EXCEPT !.Uri = <<115>>, !.Method = <<71>>, !.Path = <<47>>, !.Query = <<113>>,
                              !.ContentType = <<97>>, !.Payload = <<1, 2>>]
Commands == {Nil} \cup {[Command EXCEPT !.Headers = h] : h \in Headers}
                  \cup {[NewCommand EXCEPT !.Uri = <<115>>, !.Payload = Long]}
Projections == {Nil, NewProjection,
                [NewProjection EXCEPT !.Fields = <<<<102>>, <<103>>>>, !.Exclude = TRUE]}

Put == [case |-> "Put", m |-> [NewPutOperation EXCEPT !.Document = Document, !.Mode = <<3>>]]
Merge == [case |-> "Merge",
          m |-> [NewMergeOperation EXCEPT !.IncomingDocument = Document, !.LuaProgram = Program]]
Empty(case, new) == [case |-> case, m |-> new]
Writes == {[NewWriteOperation EXCEPT !.Address = a, !.ReturnDocument = r, !.Action = c] :
               a \in {Address}, r \in BOOLEAN,
               c \in {Put, Merge, Empty("Put", NewPutOperation), Empty("Merge", NewMergeOperation)}}
          \cup {NewWriteOperation}

\* Sequences of at most two elements: none, one, and one before the default.
UpToTwo(S, new) == {<< >>} \cup {<<x>> : x \in S} \cup {<<x, new>> : x \in S}

MCMessages == [
    ReadRequest |-> {[NewReadRequest EXCEPT !.Operations = ops] :
        ops \in UpToTwo({[NewReadOperation EXCEPT !.Address = Address]}, NewReadOperation)},
    ReadResponse |-> {[NewReadResponse EXCEPT !.Results = rs] :
        rs \in UpToTwo({[NewReadResult EXCEPT !.OperationIndex = i, !.Status = s, !.Document = d,
                                             !.Revision = r, !.Failure = f] :
                            i \in {<< >>, Max32}, s \in {One}, d \in {Nil} \cup Documents,
                            r \in {Revision}, f \in {Nil, Failure}}, NewReadResult)},
    WriteRequest |-> {[NewWriteRequest EXCEPT !.CompletionMode = c, !.Operations = ops, !.LuaPrograms = ps] :
        c \in {<< >>, One}, ops \in UpToTwo(Writes, NewWriteOperation), ps \in {<< >>, <<Program>>}},
    WriteResponse |-> {[NewWriteResponse EXCEPT !.Results = rs] :
        rs \in UpToTwo({[NewWriteResult EXCEPT !.OperationIndex = TwoBytes, !.Status = <<4>>, !.Document = d,
                                              !.Revision = r, !.Failure = f] :
                            d \in {Nil, Document}, r \in {Nil, Revision}, f \in {Nil} \cup Failures},
                       NewWriteResult)},
    DeleteRequest |-> {[NewDeleteRequest EXCEPT !.CompletionMode = c, !.Operations = ops] :
        c \in {<< >>, One},
        ops \in UpToTwo({[NewDeleteOperation EXCEPT !.Address = Address]}, NewDeleteOperation)},
    DeleteResponse |-> {[NewDeleteResponse EXCEPT !.Results = rs] :
        rs \in UpToTwo({[NewDeleteResult EXCEPT !.OperationIndex = i, !.Status = Max32, !.Failure = f] :
                            i \in {<< >>, One}, f \in {Nil, Failure}}, NewDeleteResult)},
    ExecuteRequest |-> {[NewExecuteRequest EXCEPT !.Command = c] : c \in Commands},
    ExecuteResponse |-> {[NewExecuteResponse EXCEPT !.ContentType = t, !.Payload = <<0>>, !.Success = s,
                                                   !.StatusCode = <<72, 1>>, !.Headers = h] :
        t \in Text, s \in BOOLEAN, h \in Headers},
    QueryRequest |-> {[NewQueryRequest EXCEPT !.Command = Command, !.Page = p, !.PageSize = TwoBytes,
                                             !.Sort = s, !.Projection = j] :
        p \in {<< >>, Max32}, j \in Projections,
        s \in UpToTwo({[NewSortField EXCEPT !.Field = <<102>>, !.Descending = TRUE]}, NewSortField)},
    QueryResponse |-> {[NewQueryResponse EXCEPT !.Documents = ds, !.HasMore = h] :
        ds \in UpToTwo(Documents, NewDocument), h \in BOOLEAN},
    CountRequest |-> {[NewCountRequest EXCEPT !.Command = c] : c \in Commands},
    CountResponse |-> {[NewCountResponse EXCEPT !.Count = n, !.Estimated = e] :
        n \in {<< >>, Max32, Max64}, e \in BOOLEAN},
    ScanRequest |-> {[NewScanRequest EXCEPT !.Command = Command, !.BatchSize = n, !.Cursor = t,
                                           !.Projection = j] :
        n \in {<< >>, One}, t \in Text, j \in Projections},
    ScanResponse |-> {[NewScanResponse EXCEPT !.Documents = ds, !.NextCursor = t] :
        ds \in UpToTwo(Documents, NewDocument), t \in Text}]

\* Field 15 as a varint, as 8 bytes, as a string, as a group of a field 1 and a
\* nested group, as 4 bytes; field 16, whose tag has two bytes.
MCExtras == {<<120, 5>>, <<121, 1, 2, 3, 4, 5, 6, 7, 8>>, <<122, 1, 9>>,
             <<123, 8, 1, 19, 20, 124>>, <<125, 1, 2, 3, 4>>, <<128, 1, 1>>}

================================================================================
