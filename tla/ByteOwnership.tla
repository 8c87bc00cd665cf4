------------------------------ MODULE ByteOwnership ------------------------------
(* Documents and Lua programs (types.go) are values over byte slices, and so   *)
(* are the messages made of them (wire.go).  A slice that the application can  *)
(* still write to would change a document after it was checked, an operation   *)
(* after it was built, a request after it was sent or a program under its      *)
(* digest.  The application writes to its slices at any time.                  *)
EXTENDS Naturals, FiniteSets

CONSTANTS
    Slices,            \* backing arrays of byte slices
    Contents,          \* what they may hold
    Empty,             \* no bytes
    Objects,           \* for each encoding, the contents that are a valid object
    Nil

ASSUME ContentsAssumption ==
    /\ Empty \in Contents
    /\ Nil \notin Slices
    /\ \A e \in DOMAIN Objects : Objects[e] \subseteq Contents \ {Empty}

VARIABLES
    bytes,             \* the contents of each slice
    app,               \* the slices the application holds
    doc,               \* a Document, and the contents it was made from
    prog,              \* a LuaProgram; its digest stands for the contents digested
    op,                \* a WriteOperation of the two
    msg,               \* the message of the operation
    sent               \* what was marshalled of it

vars == <<bytes, app, doc, prog, op, msg, sent>>

Encodings == DOMAIN Objects

Documents == ({doc} \cup {o.doc : o \in {op} \ {Nil}}) \ {Nil}

Programs == ({prog} \cup {o.prog : o \in {op} \ {Nil}}) \ {Nil}

Referenced ==
    app \cup {d.payload : d \in Documents} \cup {p.source : p \in Programs}
        \cup UNION {{m.payload, m.source} : m \in {msg} \ {Nil}}

Fresh == Slices \ Referenced

Copied(s, t) == bytes' = [bytes EXCEPT ![t] = bytes[s]]

--------------------------------------------------------------------------------

Init == /\ bytes = [s \in Slices |-> Empty]
        /\ app = {}
        /\ doc = Nil /\ prog = Nil /\ op = Nil /\ msg = Nil /\ sent = Nil

\* The application reads something into a slice, new or in use, or drops one.
AppWrites(s, x) ==
    /\ s \in app \cup Fresh
    /\ app' = app \cup {s}
    /\ bytes' = [bytes EXCEPT ![s] = x]
    /\ UNCHANGED <<doc, prog, op, msg, sent>>

AppDrops(s) ==
    /\ s \in app
    /\ app' = app \ {s}
    /\ UNCHANGED <<bytes, doc, prog, op, msg, sent>>

\* Document.validate
ValidDocument(d) == bytes[d.payload] \in Objects[d.encoding]

\* NewRawDocument; also documentFromProto, where s belongs to the response.
NewRawDocument(e, s, t) ==
    /\ s \in app /\ t \in Fresh
    /\ bytes[s] \in Objects[e]
    /\ Copied(s, t)
    /\ doc' = [encoding |-> e, payload |-> t, was |-> bytes[s]]
    /\ UNCHANGED <<app, prog, op, msg, sent>>

\* NewDocument: the encoder's own output, copied once more.
NewDocument(e, x, t) ==
    /\ t \in Fresh
    /\ x \in Objects[e]
    /\ bytes' = [bytes EXCEPT ![t] = x]
    /\ doc' = [encoding |-> e, payload |-> t, was |-> x]
    /\ UNCHANGED <<app, prog, op, msg, sent>>

\* Faulty variant: the storage of the document.
PayloadExposed(t) ==
    /\ doc # Nil
    /\ t \in Fresh
    /\ app' = app \cup {doc.payload}
    /\ UNCHANGED <<bytes, doc, prog, op, msg, sent>>

Payload(t) ==
    /\ doc # Nil
    /\ t \in Fresh
    /\ Copied(doc.payload, t)
    /\ app' = app \cup {t}
    /\ UNCHANGED <<doc, prog, op, msg, sent>>

NewLuaProgram(s, t) ==
    /\ s \in app /\ t \in Fresh
    /\ bytes[s] # Empty
    /\ Copied(s, t)
    /\ prog' = [source |-> t, sha256 |-> bytes[s]]
    /\ UNCHANGED <<app, doc, op, msg, sent>>

Source(t) ==
    /\ prog # Nil
    /\ t \in Fresh
    /\ Copied(prog.source, t)
    /\ app' = app \cup {t}
    /\ UNCHANGED <<doc, prog, op, msg, sent>>

\* LuaProgram.validate
ValidProgram(p) == bytes[p.source] # Empty /\ bytes[p.source] = p.sha256

\* An operation shares the slices of the values it is made of.
NewPut ==
    /\ doc # Nil /\ ValidDocument(doc)
    /\ op' = [action |-> "put", doc |-> doc, prog |-> Nil]
    /\ UNCHANGED <<bytes, app, doc, prog, msg, sent>>

NewMerge ==
    /\ doc # Nil /\ ValidDocument(doc)
    /\ prog # Nil /\ ValidProgram(prog)
    /\ op' = [action |-> "merge", doc |-> doc, prog |-> prog]
    /\ UNCHANGED <<bytes, app, doc, prog, msg, sent>>

ValidOperation ==
    /\ op # Nil
    /\ ValidDocument(op.doc)
    /\ op.action = "merge" => ValidProgram(op.prog)

\* Write checks the operation and makes its message (toProto, writeBatch).
ToProtoPut(t) ==
    /\ msg = Nil
    /\ ValidOperation /\ op.action = "put"
    /\ t \in Fresh
    /\ Copied(op.doc.payload, t)
    /\ msg' = [encoding |-> op.doc.encoding, payload |-> t, source |-> Nil, sha256 |-> Nil,
               was |-> op.doc.was]
    /\ UNCHANGED <<app, doc, prog, op, sent>>

ToProtoMerge(t, u) ==
    /\ msg = Nil
    /\ ValidOperation /\ op.action = "merge"
    /\ t \in Fresh /\ u \in Fresh \ {t}
    /\ bytes' = [bytes EXCEPT ![t] = bytes[op.doc.payload], ![u] = bytes[op.prog.source]]
    /\ msg' = [encoding |-> op.doc.encoding, payload |-> t, source |-> u,
               sha256 |-> op.prog.sha256, was |-> op.doc.was]
    /\ UNCHANGED <<app, doc, prog, op, sent>>

\* The codec marshals the message.
Marshal ==
    /\ msg # Nil /\ sent = Nil
    /\ sent' = [encoding |-> msg.encoding, payload |-> bytes[msg.payload],
                source |-> IF msg.source = Nil THEN Nil ELSE bytes[msg.source],
                sha256 |-> msg.sha256]
    /\ UNCHANGED <<bytes, app, doc, prog, op, msg>>

\* The call is over, and the application forgets what it made.
Finish ==
    /\ sent # Nil
    /\ doc' = Nil /\ prog' = Nil /\ op' = Nil /\ msg' = Nil /\ sent' = Nil
    /\ UNCHANGED <<bytes, app>>

Next ==
    \/ \E s \in Slices : AppDrops(s) \/ \E x \in Contents : AppWrites(s, x)
    \/ \E e \in Encodings, t \in Slices :
        \/ \E s \in Slices : NewRawDocument(e, s, t)
        \/ \E x \in Contents : NewDocument(e, x, t)
    \/ \E t \in Slices : Payload(t) \/ Source(t) \/ ToProtoPut(t)
    \/ \E s, t \in Slices : NewLuaProgram(s, t) \/ ToProtoMerge(s, t)
    \/ NewPut \/ NewMerge
    \/ Marshal
    \/ Finish

Spec == Init /\ [][Next]_vars

--------------------------------------------------------------------------------

\* A document is what it was made from and a program what its digest says, also
\* as a part of an operation, whatever the application does to its slices; and
\* what is sent of an operation is the document that was checked, under the
\* encoding it was checked for, with the program that was given.
ValuesKept ==
    /\ \A d \in Documents : bytes[d.payload] = d.was /\ ValidDocument(d)
    /\ \A p \in Programs : ValidProgram(p)
    /\ sent # Nil =>
          /\ sent.payload = msg.was /\ sent.payload \in Objects[sent.encoding]
          /\ sent.source = sent.sha256

================================================================================
