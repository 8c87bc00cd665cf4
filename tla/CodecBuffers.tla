------------------------------ MODULE CodecBuffers ------------------------------
(* The buffers of vtProtoCodec (grpc_codec.go).  The codec takes buffers from *)
(* gRPC's default pool, which every connection of the process shares, and     *)
(* hands them to a transport that works in goroutines of its own: a buffer    *)
(* that goes back too early, twice or not at all shows in another call.       *)
(*                                                                            *)
(* A buffer has two cells, so that a message can be half written and a reply  *)
(* can arrive in two pieces.  A buffer in the pool holds junk: anyone may     *)
(* take it and write to it.                                                   *)
EXTENDS Naturals, FiniteSets

CONSTANTS
    Calls, Requests, Replies, Malformed, Error, Nil,   \* as in UnaryCalls
    Buffers,       \* the buffers the process has (the pool itself has no bound)
    Junk,          \* contents nobody may rely on
    NotVT,         \* requests without the VT helpers
    ReplyNotVT,    \* requests whose reply has no VT helpers
    Small,         \* requests below the pooling threshold
    Failing,       \* requests whose MarshalToSizedBufferVT fails
    Missized       \* requests that fill less than SizeVT announced

ASSUME RequestClasses ==
    /\ NotVT \cup ReplyNotVT \cup Small \cup Failing \cup Missized \subseteq Requests
    /\ NotVT \cap (Small \cup Failing \cup Missized) = {}

\* Messages, marks, buffers and cells are different things.
ASSUME ThingsApart ==
    /\ IsFiniteSet(Calls)
    /\ Nil # Error
    /\ {Nil, Error} \cap (Requests \cup Replies \cup {Malformed} \cup Buffers) = {}
    /\ Malformed \notin Replies
    /\ \A m \in Requests \cup Replies : <<m, m>> \notin Buffers \cup {Nil, Error}

VARIABLES
    pool,          \* how many times each buffer is in the pool
    refs,          \* mem.Buffer: its references
    data,          \* the two cells of each buffer
    pc,            \* how far the call of each slot is
    msg,           \* its request
    raw,           \* the buffer Marshal is filling
    out,           \* the encoded request: a buffer, or cells of its own
    kept,          \* gRPC keeps the request for another attempt
    queued,        \* the request waits to be written to the connection
    heard,         \* the cells the peer received
    answered,      \* the reply of the peer
    pieces,        \* the buffers the reply arrived in
    flat,          \* the buffer UnmarshalVT reads
    result         \* what the caller has: cells of its own, cells of a buffer, an error

codecVars == <<pool, refs, data>>
callVars == <<pc, msg, raw, out, kept, queued, heard, answered, pieces, flat, result>>
vars == <<codecVars, callVars>>

Cells(m) == <<m, m>>

--------------------------------------------------------------------------------
(* The pool and the reference counts of gRPC's mem package. *)

Taken(b) == [pool EXCEPT ![b] = @ - 1]

Put(b) ==
    /\ pool' = [pool EXCEPT ![b] = @ + 1]
    /\ data' = [data EXCEPT ![b] = Cells(Junk)]

\* Buffer.Free of each buffer of S: the last reference puts it into the pool.
Free(S) ==
    LET last == {b \in S : refs[b] = 1}
    IN  /\ refs' = [b \in Buffers |-> IF b \in S THEN refs[b] - 1 ELSE refs[b]]
        /\ pool' = [b \in Buffers |-> IF b \in last THEN pool[b] + 1 ELSE pool[b]]
        /\ data' = [b \in Buffers |-> IF b \in last THEN Cells(Junk) ELSE data[b]]

\* A request below the threshold is a slice of its own, without a reference.
OutBuffer(c) == {out[c]} \cap Buffers

Ref(S) == refs' = [b \in Buffers |-> IF b \in S THEN refs[b] + 1 ELSE refs[b]]

CellsOf(x) == IF x \in Buffers THEN data[x] ELSE x

--------------------------------------------------------------------------------

Init == /\ pool = [b \in Buffers |-> 1]
        /\ refs = [b \in Buffers |-> 0]
        /\ data = [b \in Buffers |-> Cells(Junk)]
        /\ pc = [c \in Calls |-> "idle"]
        /\ msg = [c \in Calls |-> Nil]
        /\ raw = [c \in Calls |-> Nil]
        /\ out = [c \in Calls |-> Nil]
        /\ kept = [c \in Calls |-> FALSE]
        /\ queued = [c \in Calls |-> FALSE]
        /\ heard = [c \in Calls |-> Nil]
        /\ answered = [c \in Calls |-> Nil]
        /\ pieces = [c \in Calls |-> << >>]
        /\ flat = [c \in Calls |-> Nil]
        /\ result = [c \in Calls |-> Nil]

Invoke(c, m) ==
    /\ pc[c] = "idle"
    /\ msg' = [msg EXCEPT ![c] = m]
    /\ pc' = [pc EXCEPT ![c] = "marshal"]
    /\ UNCHANGED <<codecVars, raw, out, kept, queued, heard, answered, pieces, flat, result>>

\* The call returns an error before anything is sent.
Refused(c) ==
    /\ result' = [result EXCEPT ![c] = Error]
    /\ pc' = [pc EXCEPT ![c] = "done"]
    /\ UNCHANGED <<msg, out, kept, queued, heard, answered, pieces, flat>>

MarshalNotVT(c) ==
    /\ pc[c] = "marshal"
    /\ msg[c] \in NotVT
    /\ Refused(c)
    /\ UNCHANGED <<codecVars, raw>>

\* Below the threshold: a buffer of its own, left to the collector on an error.
MarshalSmall(c) ==
    /\ pc[c] = "marshal"
    /\ msg[c] \in Small
    /\ UNCHANGED <<codecVars, raw>>
    /\ \/ /\ msg[c] \in Failing \cup Missized
          /\ Refused(c)
       \/ /\ msg[c] \notin Failing \cup Missized
          /\ out' = [out EXCEPT ![c] = Cells(msg[c])]
          /\ kept' = [kept EXCEPT ![c] = TRUE]
          /\ pc' = [pc EXCEPT ![c] = "sent"]
          /\ UNCHANGED <<msg, queued, heard, answered, pieces, flat, result>>

GetBuffer(c, b) ==
    /\ pc[c] = "marshal"
    /\ msg[c] \notin NotVT \cup Small
    /\ pool[b] > 0
    /\ pool' = Taken(b)
    /\ raw' = [raw EXCEPT ![c] = b]
    /\ pc' = [pc EXCEPT ![c] = "fill"]
    /\ UNCHANGED <<refs, data, msg, out, kept, queued, heard, answered, pieces, flat, result>>

\* MarshalToSizedBufferVT starts at the end of the buffer.
FillBack(c) ==
    /\ pc[c] = "fill"
    /\ data' = [data EXCEPT ![raw[c]][2] = msg[c]]
    /\ pc' = [pc EXCEPT ![c] = "front"]
    /\ UNCHANGED <<pool, refs, msg, raw, out, kept, queued, heard, answered, pieces, flat, result>>

MarshalFails(c) ==
    /\ pc[c] = "front"
    /\ msg[c] \in Failing
    /\ Put(raw[c])
    /\ raw' = [raw EXCEPT ![c] = Nil]
    /\ Refused(c)
    /\ UNCHANGED refs

\* written != size
MarshalMissized(c) ==
    /\ pc[c] = "front"
    /\ msg[c] \in Missized \ Failing
    /\ Put(raw[c])
    /\ raw' = [raw EXCEPT ![c] = Nil]
    /\ Refused(c)
    /\ UNCHANGED refs

FillFront(c) ==
    /\ pc[c] = "front"
    /\ msg[c] \notin Failing \cup Missized
    /\ data' = [data EXCEPT ![raw[c]][1] = msg[c]]
    /\ pc' = [pc EXCEPT ![c] = "encoded"]
    /\ UNCHANGED <<pool, refs, msg, raw, out, kept, queued, heard, answered, pieces, flat, result>>

\* Faulty variant: the buffer is put back although it has been handed over.
HandOverAndPut(c) ==
    /\ pc[c] = "encoded"
    /\ out' = [out EXCEPT ![c] = raw[c]]
    /\ Ref({raw[c]})
    /\ pool' = [pool EXCEPT ![raw[c]] = @ + 1]
    /\ raw' = [raw EXCEPT ![c] = Nil]
    /\ kept' = [kept EXCEPT ![c] = TRUE]
    /\ pc' = [pc EXCEPT ![c] = "sent"]
    /\ UNCHANGED <<data, msg, queued, heard, answered, pieces, flat, result>>

\* mem.NewBuffer(pooled, c.pool): from here on the transport decides.
HandOver(c) ==
    /\ pc[c] = "encoded"
    /\ out' = [out EXCEPT ![c] = raw[c]]
    /\ Ref({raw[c]})
    /\ raw' = [raw EXCEPT ![c] = Nil]
    /\ kept' = [kept EXCEPT ![c] = TRUE]
    /\ pc' = [pc EXCEPT ![c] = "sent"]
    /\ UNCHANGED <<pool, data, msg, queued, heard, answered, pieces, flat, result>>

--------------------------------------------------------------------------------
(* gRPC: the stream keeps the request until no other attempt is possible, the *)
(* connection's writer takes it from a queue, the reader brings the reply.    *)

\* The first attempt, or a transparent retry of a stream that was refused.
Queue(c) ==
    /\ pc[c] = "sent"
    /\ kept[c] /\ ~queued[c]
    /\ queued' = [queued EXCEPT ![c] = TRUE]
    /\ Ref(OutBuffer(c))
    /\ UNCHANGED <<pool, data, pc, msg, raw, out, kept, heard, answered, pieces, flat, result>>

\* The request is written, also when the caller has given up meanwhile ...
WriteQueued(c) ==
    /\ queued[c]
    /\ heard' = [heard EXCEPT ![c] = CellsOf(out[c])]
    /\ queued' = [queued EXCEPT ![c] = FALSE]
    /\ Free(OutBuffer(c))
    /\ UNCHANGED <<pc, msg, raw, out, kept, answered, pieces, flat, result>>

\* ... or its stream is gone before.
DropQueued(c) ==
    /\ queued[c]
    /\ queued' = [queued EXCEPT ![c] = FALSE]
    /\ Free(OutBuffer(c))
    /\ UNCHANGED <<pc, msg, raw, out, kept, heard, answered, pieces, flat, result>>

Commit(c) ==
    /\ kept[c]
    /\ pc[c] = "done" \/ answered[c] # Nil
    /\ kept' = [kept EXCEPT ![c] = FALSE]
    /\ Free(OutBuffer(c))
    /\ UNCHANGED <<pc, msg, raw, out, queued, heard, answered, pieces, flat, result>>

\* The reply arrives in one frame or in two.
Receive(c, r, bs) ==
    /\ pc[c] = "sent"
    /\ heard[c] # Nil /\ answered[c] = Nil
    /\ \A i \in DOMAIN bs : pool[bs[i]] > 0
    /\ answered' = [answered EXCEPT ![c] = r]
    /\ pieces' = [pieces EXCEPT ![c] = bs]
    /\ LET used == {bs[i] : i \in DOMAIN bs}
       IN  /\ pool' = [b \in Buffers |-> IF b \in used THEN pool[b] - 1 ELSE pool[b]]
           /\ Ref(used)
           /\ data' = [b \in Buffers |-> IF b \in used THEN Cells(r) ELSE data[b]]
    /\ pc' = [pc EXCEPT ![c] = "received"]
    /\ UNCHANGED <<msg, raw, out, kept, queued, heard, flat, result>>

\* Cancellation, a deadline or a lost connection, before or after the reply.
Abort(c) ==
    /\ pc[c] \in {"sent", "received"}
    /\ result' = [result EXCEPT ![c] = Error]
    /\ Free({pieces[c][i] : i \in DOMAIN pieces[c]})
    /\ pieces' = [pieces EXCEPT ![c] = << >>]
    /\ pc' = [pc EXCEPT ![c] = "done"]
    /\ UNCHANGED <<msg, raw, out, kept, queued, heard, answered, flat>>

--------------------------------------------------------------------------------

UnmarshalNotVT(c) ==
    /\ pc[c] = "received"
    /\ msg[c] \in ReplyNotVT
    /\ result' = [result EXCEPT ![c] = Error]
    /\ pc' = [pc EXCEPT ![c] = "unmarshalled"]
    /\ UNCHANGED <<codecVars, msg, raw, out, kept, queued, heard, answered, pieces, flat>>

\* MaterializeToBuffer: a single piece is shared, several are copied.
MaterializeOne(c) ==
    /\ pc[c] = "received"
    /\ msg[c] \notin ReplyNotVT
    /\ \E b \in Buffers :
        /\ pieces[c] = <<b>>
        /\ Ref({b})
        /\ flat' = [flat EXCEPT ![c] = b]
    /\ pc' = [pc EXCEPT ![c] = "decode"]
    /\ UNCHANGED <<pool, data, msg, raw, out, kept, queued, heard, answered, pieces, result>>

MaterializeTwo(c, b) ==
    /\ pc[c] = "received"
    /\ msg[c] \notin ReplyNotVT
    /\ pool[b] > 0
    /\ \E b1, b2 \in Buffers :
        /\ pieces[c] = <<b1, b2>>
        /\ data' = [data EXCEPT ![b] = <<data[b1][1], data[b2][2]>>]
    /\ pool' = Taken(b)
    /\ Ref({b})
    /\ flat' = [flat EXCEPT ![c] = b]
    /\ pc' = [pc EXCEPT ![c] = "decode"]
    /\ UNCHANGED <<msg, raw, out, kept, queued, heard, answered, pieces, result>>

\* Faulty variant: the fields of the message point into the buffer.
DecodeInPlace(c) ==
    /\ pc[c] = "decode"
    /\ result' = [result EXCEPT ![c] =
                     IF Malformed \in {data[flat[c]][1], data[flat[c]][2]} THEN Error ELSE flat[c]]
    /\ pc' = [pc EXCEPT ![c] = "decoded"]
    /\ UNCHANGED <<codecVars, msg, raw, out, kept, queued, heard, answered, pieces, flat>>

\* UnmarshalVT copies what it reads, or fails.
Decode(c) ==
    /\ pc[c] = "decode"
    /\ result' = [result EXCEPT ![c] =
                     IF Malformed \in {data[flat[c]][1], data[flat[c]][2]}
                     THEN Error ELSE data[flat[c]]]
    /\ pc' = [pc EXCEPT ![c] = "decoded"]
    /\ UNCHANGED <<codecVars, msg, raw, out, kept, queued, heard, answered, pieces, flat>>

\* The deferred Free, after UnmarshalVT on every path.
FreeFlat(c) ==
    /\ pc[c] = "decoded"
    /\ Free({flat[c]})
    /\ flat' = [flat EXCEPT ![c] = Nil]
    /\ pc' = [pc EXCEPT ![c] = "unmarshalled"]
    /\ UNCHANGED <<msg, raw, out, kept, queued, heard, answered, pieces, result>>

\* gRPC releases what it received once the codec has returned.
FreePieces(c) ==
    /\ pc[c] = "unmarshalled"
    /\ Free({pieces[c][i] : i \in DOMAIN pieces[c]})
    /\ pieces' = [pieces EXCEPT ![c] = << >>]
    /\ pc' = [pc EXCEPT ![c] = "done"]
    /\ UNCHANGED <<msg, raw, out, kept, queued, heard, answered, flat, result>>

Finish(c) ==
    /\ pc[c] = "done"
    /\ ~kept[c] /\ ~queued[c]
    /\ pc' = [pc EXCEPT ![c] = "idle"]
    /\ msg' = [msg EXCEPT ![c] = Nil]
    /\ out' = [out EXCEPT ![c] = Nil]
    /\ heard' = [heard EXCEPT ![c] = Nil]
    /\ answered' = [answered EXCEPT ![c] = Nil]
    /\ result' = [result EXCEPT ![c] = Nil]
    /\ UNCHANGED <<codecVars, raw, kept, queued, pieces, flat>>

Marshal(c) ==
    \/ MarshalNotVT(c) \/ MarshalSmall(c)
    \/ \E b \in Buffers : GetBuffer(c, b)
    \/ FillBack(c) \/ MarshalFails(c) \/ MarshalMissized(c) \/ FillFront(c) \/ HandOver(c)

Transport(c) ==
    \/ Queue(c) \/ WriteQueued(c) \/ DropQueued(c) \/ Commit(c)
    \/ \E r \in Replies \cup {Malformed} :
        \/ \E b \in Buffers : Receive(c, r, <<b>>)
        \/ \E b1 \in Buffers : \E b2 \in Buffers \ {b1} : Receive(c, r, <<b1, b2>>)
    \/ Abort(c) \/ FreePieces(c)

Unmarshal(c) ==
    \/ UnmarshalNotVT(c) \/ MaterializeOne(c)
    \/ \E b \in Buffers : MaterializeTwo(c, b)
    \/ Decode(c) \/ FreeFlat(c)

Next == \E c \in Calls :
    \/ \E m \in Requests : Invoke(c, m)
    \/ Marshal(c)
    \/ Transport(c)
    \/ Unmarshal(c)
    \/ Finish(c)

Spec == Init /\ [][Next]_vars

--------------------------------------------------------------------------------

\* The references to b that are still to be freed, and by whom.
Holders(b) ==
    {<<c, "kept">> : c \in {c \in Calls : kept[c] /\ out[c] = b}}
    \cup {<<c, "queued">> : c \in {c \in Calls : queued[c] /\ out[c] = b}}
    \cup {<<c, "piece">> : c \in {c \in Calls : \E i \in DOMAIN pieces[c] : pieces[c][i] = b}}
    \cup {<<c, "flat">> : c \in {c \in Calls : flat[c] = b}}

\* Every buffer is in one place: once in the pool, or being filled by one call,
\* or referenced, with exactly the references that will be freed.  Nothing
\* leaks on an error path of Marshal, nothing is put back twice and nothing is
\* in the pool while a call still works with it.
EachBufferOnce ==
    \A b \in Buffers :
        /\ pool[b] + Cardinality({c \in Calls : raw[c] = b})
             + (IF refs[b] = 0 THEN 0 ELSE 1) = 1
        /\ refs[b] = Cardinality(Holders(b))

\* The codec implements calls by value: what the peer hears is the request and
\* what the caller has is the reply, and stays it, whatever becomes of the
\* buffers that the two went through.
Value(x) ==
    LET cells == CellsOf(x)
    IN  IF x \in {Nil, Error} THEN x ELSE IF cells[1] = cells[2] THEN cells[1] ELSE cells

ByValue == INSTANCE UnaryCalls WITH
    asked <- msg,
    heard <- [c \in Calls |-> Value(heard[c])],
    answered <- answered,
    told <- [c \in Calls |-> Value(result[c])]

\* The codec implements calls by value (see ByValue).
CallsByValue == ByValue!Spec

================================================================================
