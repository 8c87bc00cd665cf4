------------------------------ MODULE MessageCodec ------------------------------
(* What the bytes of a message are worth on the other side: a message of an *)
(* RPC is marshalled by the codec of grpc_codec.go, a peer sends it as it   *)
(* is or in another form, and UnmarshalVT reads it.  The other forms are    *)
(* what the loops of UnmarshalVT are written for: the fields of a newer     *)
(* schema, a message in two pieces, and input no encoder wrote.             *)
EXTENDS VTMarshal, VTUnmarshal

CONSTANTS
    Messages,      \* for each kind of RPC message, the messages that are sent
    Extras,        \* byte strings of fields that no schema here knows
    Damages        \* bytes that replace one byte of an encoding

ASSUME MessagesAssumption == \A k \in DOMAIN Messages : Messages[k] \subseteq MessageSet(k)

VARIABLES
    kind,          \* the type of the message in transit
    sent,          \* the message that was marshalled
    wire,          \* its bytes
    how,           \* what the peer made of them
    got,           \* the message read from them, or Error
    phase

vars == <<kind, sent, wire, how, got, phase>>

Kinds == DOMAIN Messages

\* gRPC passes a new message of the type the stub expects.
UnmarshalNew(k, dAtA) ==
    CASE k = "ReadRequest" -> ReadRequest_UnmarshalVT(NewReadRequest, dAtA)
      [] k = "ReadResponse" -> ReadResponse_UnmarshalVT(NewReadResponse, dAtA)
      [] k = "WriteRequest" -> WriteRequest_UnmarshalVT(NewWriteRequest, dAtA)
      [] k = "WriteResponse" -> WriteResponse_UnmarshalVT(NewWriteResponse, dAtA)
      [] k = "DeleteRequest" -> DeleteRequest_UnmarshalVT(NewDeleteRequest, dAtA)
      [] k = "DeleteResponse" -> DeleteResponse_UnmarshalVT(NewDeleteResponse, dAtA)
      [] k = "ExecuteRequest" -> ExecuteRequest_UnmarshalVT(NewExecuteRequest, dAtA)
      [] k = "ExecuteResponse" -> ExecuteResponse_UnmarshalVT(NewExecuteResponse, dAtA)
      [] k = "QueryRequest" -> QueryRequest_UnmarshalVT(NewQueryRequest, dAtA)
      [] k = "QueryResponse" -> QueryResponse_UnmarshalVT(NewQueryResponse, dAtA)
      [] k = "CountRequest" -> CountRequest_UnmarshalVT(NewCountRequest, dAtA)
      [] k = "CountResponse" -> CountResponse_UnmarshalVT(NewCountResponse, dAtA)
      [] k = "ScanRequest" -> ScanRequest_UnmarshalVT(NewScanRequest, dAtA)
      [] k = "ScanResponse" -> ScanResponse_UnmarshalVT(NewScanResponse, dAtA)

--------------------------------------------------------------------------------

Init == /\ kind = Nil /\ sent = Nil /\ got = Nil
        /\ wire = << >>
        /\ how = "whole"
        /\ phase = "idle"

\* vtProtoCodec.Marshal: a buffer of SizeVT bytes is filled from its end; any
\* other count of written bytes than SizeVT refuses the message.
Marshal(k, m) ==
    /\ phase = "idle"
    /\ kind' = k
    /\ sent' = m
    /\ wire' = MarshalOf(k, m)
    /\ phase' = IF Len(wire') = SizeOf(k, m) THEN "marshalled" ELSE "refused"
    /\ UNCHANGED <<how, got>>

\* The peer sends the bytes, or others in their place.
Peer(bytes, as) ==
    /\ phase = "marshalled"
    /\ wire' = bytes
    /\ how' = as
    /\ phase' = "received"
    /\ UNCHANGED <<kind, sent, got>>

PeerSends == Peer(wire, "whole")

\* A peer of a newer schema puts a field before or after the ones known here.
PeerExtends(extra) ==
    \/ Peer(extra \o wire, "extended")
    \/ Peer(wire \o extra, "extended")

\* The rest of a message is missing.
PeerCuts(n) == n < Len(wire) /\ Peer(SubSeq(wire, 1, n), "cut")

\* One byte is not what the encoder wrote.
PeerDamages(i, b) == i <= Len(wire) /\ Peer([wire EXCEPT ![i] = b], "damaged")

\* A message in two pieces, the second one overriding or extending the first.
PeerJoins(m) == Peer(wire \o MarshalOf(kind, m), "joined")

\* vtProtoCodec.Unmarshal
UnmarshalWire ==
    /\ phase = "received"
    /\ got' = UnmarshalNew(kind, wire)
    /\ phase' = "unmarshalled"
    /\ UNCHANGED <<kind, sent, wire, how>>

\* The call is over.
Finish ==
    /\ phase \in {"unmarshalled", "refused"}
    /\ kind' = Nil /\ sent' = Nil /\ got' = Nil
    /\ wire' = << >>
    /\ how' = "whole"
    /\ phase' = "idle"

Next ==
    \/ \E k \in Kinds : \E m \in Messages[k] : Marshal(k, m)
    \/ PeerSends
    \/ \E extra \in Extras : PeerExtends(extra)
    \/ \E n \in 0 .. Len(wire) : PeerCuts(n)
    \/ \E i \in 1 .. Len(wire), b \in Damages : PeerDamages(i, b)
    \/ phase = "marshalled" /\ \E m \in Messages[kind] : PeerJoins(m)
    \/ UnmarshalWire
    \/ Finish

Spec == Init /\ [][Next]_vars

--------------------------------------------------------------------------------

\* A message is read as it was written, field for field, whatever the nesting
\* and the default values that are left out.  SizeVT and MarshalToSizedBufferVT,
\* generated separately, agree on it: the codec's comparison of the two counts
\* (written != size) never refuses a message.
RoundTrip ==
    /\ phase # "refused"
    /\ phase = "unmarshalled" /\ how = "whole" => got = sent

\* Fields of a newer schema, groups among them, do not disturb the known ones
\* and are kept to the byte (unknownFields).
ForwardCompatible ==
    phase = "unmarshalled" /\ how = "extended" =>
        \E extra \in Extras :
            \E unknown \in {extra \o sent.unknownFields, sent.unknownFields \o extra} :
                got = [sent EXCEPT !.unknownFields = unknown]

\* Whatever bytes are accepted, the message they give is one that the codec can
\* pass on unchanged: it marshals to the announced size and is read back equal.
\* An incomplete message is refused, unless it ends between two fields: then
\* what is read is exactly what arrived, and nothing is made up for the rest.
ReencodeStable ==
    phase = "unmarshalled" /\ got # Error =>
        LET again == MarshalOf(kind, got)
        IN  /\ UnmarshalNew(kind, again) = got
            /\ SizeOf(kind, got) = Len(again)
            /\ how = "cut" => again = wire

================================================================================
