--------------------------- MODULE RecordValuesProofs ---------------------------
(* ByteOwnership proved for any number of slices, any contents and any         *)
(* encodings, and ResourceURI for all stores, paths, keys and texts.           *)
(*                                                                             *)
(* ByteOwnership: a slice that belongs to a document, a program or a message   *)
(* is not one of the application's, and every step writes only to slices of    *)
(* the application or to slices that nothing refers to.                        *)
(*                                                                             *)
(* ResourceURI: each conversion of the URI code has an inverse.  Split cuts    *)
(* what Join has put together and the other way round, PathUnescape undoes     *)
(* PathEscape, DecodeBase64 undoes EncodeBase64, ParseInt undoes FormatInt, so *)
(* that ParseKey undoes FormatKey and New undoes Parse.  The model states them *)
(* as recursive functions over the positions of a text; the proofs are by      *)
(* induction over the length of the text.  The induction principle is stated   *)
(* for sets (UpTo, EverySeq: the numbers, the texts that have a property),     *)
(* which the provers can instantiate, and follows from WFMin of                *)
(* WellFoundedInduction.                                                       *)
(*                                                                             *)
(* VTMarshal: for every message that the URIs, documents and programs travel   *)
(* in, SizeVT counts the bytes that MarshalToSizedBufferVT writes.  Fits(b, n) *)
(* says so of a piece b; it is kept by putting pieces one after the other, and *)
(* there is one lemma for each kind of field and one for each message.         *)
EXTENDS ByteOwnership, ResourceURI, SequenceTheorems, WellFoundedInduction, TLAPS

(* ByteOwnership *)

DocumentInv(d) ==
    /\ d.payload \in Slices \ app
    /\ d.encoding \in Encodings
    /\ d.was \in Objects[d.encoding]
    /\ bytes[d.payload] = d.was

ProgramInv(p) ==
    /\ p.source \in Slices \ app
    /\ p.sha256 # Empty
    /\ bytes[p.source] = p.sha256

OperationInv(o) ==
    /\ o.doc # Nil /\ DocumentInv(o.doc)
    /\ o.prog # Nil => ProgramInv(o.prog)
    /\ o.action = "merge" => o.prog # Nil

MessageInv(m) ==
    /\ m.payload \in Slices \ app
    /\ m.was \in Objects[m.encoding]
    /\ bytes[m.payload] = m.was
    /\ m.source = Nil => m.sha256 = Nil
    /\ m.source # Nil => m.source \in Slices \ app /\ bytes[m.source] = m.sha256

SentInv ==
    sent # Nil =>
        /\ msg # Nil
        /\ sent.payload = msg.was
        /\ sent.payload \in Objects[sent.encoding]
        /\ sent.source = sent.sha256

StorageInv == bytes \in [Slices -> Contents] /\ app \subseteq Slices

IInv ==
    /\ StorageInv
    /\ doc # Nil => DocumentInv(doc)
    /\ prog # Nil => ProgramInv(prog)
    /\ op # Nil => OperationInv(op)
    /\ msg # Nil => MessageInv(msg)
    /\ SentInv

--------------------------------------------------------------------------------

\* A slice the application may write to, or a new value may take, is no part of
\* a document, a program, an operation or a message.
LEMMA Unowned ==
    ASSUME IInv, NEW t \in app \cup Fresh
    PROVE  /\ t \in Slices
           /\ doc # Nil => t # doc.payload
           /\ prog # Nil => t # prog.source
           /\ op # Nil => t # op.doc.payload
           /\ op # Nil /\ op.prog # Nil => t # op.prog.source
           /\ msg # Nil => t # msg.payload
           /\ msg # Nil /\ msg.source # Nil => t # msg.source
  <1>1. CASE t \in app
    BY <1>1 DEF IInv, StorageInv, DocumentInv, ProgramInv, OperationInv, MessageInv
  <1>2. CASE t \in Fresh
    <2>1. t \in Slices
      BY <1>2 DEF Fresh
    <2>2. op # Nil => op.doc # Nil
      BY DEF IInv, OperationInv
    <2>3. /\ doc # Nil => doc \in Documents
          /\ prog # Nil => prog \in Programs
          /\ op # Nil => op.doc \in Documents
          /\ op # Nil /\ op.prog # Nil => op.prog \in Programs
      BY <2>2 DEF Documents, Programs
    <2>4. /\ \A d \in Documents : t # d.payload
          /\ \A p \in Programs : t # p.source
          /\ msg # Nil => t # msg.payload /\ t # msg.source
      BY <1>2 DEF Fresh, Referenced
    <2>5. QED
      BY <2>1, <2>3, <2>4
  <1>3. QED
    BY <1>1, <1>2

\* A step that writes x to the slices T only, none of them part of a value, and
\* gives none that is part of one to the application, keeps every value.
LEMMA ValuesUntouched ==
    ASSUME IInv, NEW T \in SUBSET (app \cup Fresh),
           bytes' \in [Slices -> Contents],
           \A s \in Slices \ T : bytes'[s] = bytes[s],
           app' \subseteq app \cup T
    PROVE  /\ StorageInv'
           /\ doc # Nil /\ doc' = doc => DocumentInv(doc)'
           /\ prog # Nil /\ prog' = prog => ProgramInv(prog)'
           /\ op # Nil /\ op' = op => OperationInv(op)'
           /\ msg # Nil /\ msg' = msg => MessageInv(msg)'
  <1>1. \A t \in T :
           /\ t \in Slices
           /\ doc # Nil => t # doc.payload
           /\ prog # Nil => t # prog.source
           /\ op # Nil => t # op.doc.payload
           /\ op # Nil /\ op.prog # Nil => t # op.prog.source
           /\ msg # Nil => t # msg.payload
           /\ msg # Nil /\ msg.source # Nil => t # msg.source
    BY Unowned
  <1>2. StorageInv'
    BY <1>1 DEF StorageInv, IInv
  <1>3. doc # Nil /\ doc' = doc => DocumentInv(doc)'
    BY <1>1 DEF IInv, DocumentInv
  <1>4. prog # Nil /\ prog' = prog => ProgramInv(prog)'
    BY <1>1 DEF IInv, ProgramInv
  <1>5. op # Nil /\ op' = op => OperationInv(op)'
    BY <1>1 DEF IInv, OperationInv, DocumentInv, ProgramInv
  <1>6. msg # Nil /\ msg' = msg => MessageInv(msg)'
    BY <1>1 DEF IInv, MessageInv
  <1>7. QED
    BY <1>2, <1>3, <1>4, <1>5, <1>6

\* The application's own steps.
LEMMA AppIInv ==
    ASSUME IInv,
           \E s \in Slices : AppDrops(s) \/ \E x \in Contents : AppWrites(s, x)
    PROVE  IInv'
  <1>1. ASSUME NEW s \in Slices, AppDrops(s) PROVE IInv'
    <2>1. /\ bytes' \in [Slices -> Contents]
          /\ \A r \in Slices \ {} : bytes'[r] = bytes[r]
          /\ app' \subseteq app \cup {}
      BY <1>1 DEF AppDrops, IInv, StorageInv
    <2>2. UNCHANGED <<doc, prog, op, msg, sent>>
      BY <1>1 DEF AppDrops
    <2>3. QED
      BY <2>1, <2>2, ValuesUntouched DEF IInv, SentInv
  <1>2. ASSUME NEW s \in Slices, NEW x \in Contents, AppWrites(s, x) PROVE IInv'
    <2>1. /\ {s} \in SUBSET (app \cup Fresh)
          /\ bytes' \in [Slices -> Contents]
          /\ \A r \in Slices \ {s} : bytes'[r] = bytes[r]
          /\ app' \subseteq app \cup {s}
      BY <1>2 DEF AppWrites, IInv, StorageInv
    <2>2. UNCHANGED <<doc, prog, op, msg, sent>>
      BY <1>2 DEF AppWrites
    <2>3. QED
      BY <2>1, <2>2, ValuesUntouched DEF IInv, SentInv
  <1>3. QED
    BY <1>1, <1>2

\* Documents and programs are made of slices of their own.
LEMMA MakeIInv ==
    ASSUME IInv, NEW s \in Slices, NEW t \in Slices,
           \/ \E e \in Encodings : NewRawDocument(e, s, t)
           \/ \E e \in Encodings, x \in Contents : NewDocument(e, x, t)
           \/ NewLuaProgram(s, t)
    PROVE  IInv'
  <1> DEFINE Writes(x) == bytes' = [bytes EXCEPT ![t] = x] /\ t \in Fresh /\ app' = app
  <1>1. ASSUME NEW x \in Contents, Writes(x)
        PROVE  /\ {t} \in SUBSET (app \cup Fresh)
               /\ bytes' \in [Slices -> Contents]
               /\ \A r \in Slices \ {t} : bytes'[r] = bytes[r]
               /\ app' \subseteq app \cup {t}
               /\ bytes'[t] = x
               /\ t \in Slices \ app'
    BY <1>1 DEF IInv, StorageInv, Fresh, Referenced
  <1>2. \A r \in Slices : bytes[r] \in Contents
    BY DEF IInv, StorageInv
  <1>3. ASSUME NEW e \in Encodings, NEW x \in Contents, Writes(x), x \in Objects[e],
               doc' = [encoding |-> e, payload |-> t, was |-> x],
               UNCHANGED <<prog, op, msg, sent>>
        PROVE  IInv'
    <2>1. DocumentInv(doc)'
      BY <1>1, <1>3 DEF DocumentInv, Encodings
    <2>2. QED
      BY <1>1, <1>3, <2>1, ValuesUntouched DEF IInv, SentInv
  <1>4. CASE \E e \in Encodings : NewRawDocument(e, s, t)
    BY <1>2, <1>3, <1>4 DEF NewRawDocument, Copied
  <1>5. CASE \E e \in Encodings, x \in Contents : NewDocument(e, x, t)
    BY <1>3, <1>5 DEF NewDocument
  <1>6. CASE NewLuaProgram(s, t)
    <2>1. /\ Writes(bytes[s]) /\ bytes[s] \in Contents /\ bytes[s] # Empty
          /\ prog' = [source |-> t, sha256 |-> bytes[s]]
          /\ UNCHANGED <<doc, op, msg, sent>>
      BY <1>2, <1>6 DEF NewLuaProgram, Copied
    <2>2. ProgramInv(prog)'
      BY <1>1, <2>1 DEF ProgramInv
    <2>3. QED
      BY <1>1, <2>1, <2>2, ValuesUntouched DEF IInv, SentInv
  <1>7. QED
    BY <1>4, <1>5, <1>6

\* Accessors hand out copies.
LEMMA AccessIInv ==
    ASSUME IInv, NEW t \in Slices, Payload(t) \/ Source(t)
    PROVE  IInv'
  <1>1. PICK s \in Slices : bytes' = [bytes EXCEPT ![t] = bytes[s]]
    BY DEF Payload, Source, Copied, IInv, DocumentInv, ProgramInv
  <1>2. /\ t \in Fresh /\ app' = app \cup {t}
        /\ UNCHANGED <<doc, prog, op, msg, sent>>
    BY DEF Payload, Source
  <1>3. /\ {t} \in SUBSET (app \cup Fresh)
        /\ bytes' \in [Slices -> Contents]
        /\ \A r \in Slices \ {t} : bytes'[r] = bytes[r]
        /\ app' \subseteq app \cup {t}
    BY <1>1, <1>2 DEF IInv, StorageInv
  <1>4. QED
    BY <1>2, <1>3, ValuesUntouched DEF IInv, SentInv

\* An operation shares the slices of its parts.
LEMMA OperationIInv ==
    ASSUME IInv, NewPut \/ NewMerge
    PROVE  IInv'
  <1>1. UNCHANGED <<bytes, app, doc, prog, msg, sent>> /\ doc # Nil
    BY DEF NewPut, NewMerge
  <1>2. OperationInv(op)'
    <2>1. CASE NewPut
      BY <1>1, <2>1 DEF NewPut, IInv, OperationInv, DocumentInv
    <2>2. CASE NewMerge
      BY <1>1, <2>2 DEF NewMerge, IInv, OperationInv, DocumentInv, ProgramInv
    <2>3. QED
      BY <2>1, <2>2
  <1>3. QED
    BY <1>1, <1>2
    DEF IInv, SentInv, StorageInv, DocumentInv, ProgramInv, MessageInv

\* A message has slices of its own, and is marshalled as it was made.
LEMMA MessageIInv ==
    ASSUME IInv, \/ \E t \in Slices : ToProtoPut(t)
                 \/ \E t, u \in Slices : ToProtoMerge(t, u)
    PROVE  IInv'
  <1>1. sent = Nil /\ msg = Nil /\ op # Nil
    BY DEF ToProtoPut, ToProtoMerge, ValidOperation, IInv, SentInv
  <1>2. OperationInv(op) /\ StorageInv
    BY <1>1 DEF IInv
  <1>3. ASSUME NEW t \in Slices, ToProtoPut(t) PROVE IInv'
    <2>1. /\ {t} \in SUBSET (app \cup Fresh)
          /\ bytes' \in [Slices -> Contents]
          /\ \A r \in Slices \ {t} : bytes'[r] = bytes[r]
          /\ app' \subseteq app \cup {t}
          /\ UNCHANGED <<doc, prog, op, sent>>
      BY <1>2, <1>3 DEF ToProtoPut, Copied, OperationInv, DocumentInv, StorageInv
    <2>2. MessageInv(msg)'
      BY <1>2, <1>3 DEF ToProtoPut, Copied, OperationInv, DocumentInv, StorageInv,
                        MessageInv, Fresh, Referenced
    <2>3. QED
      BY <1>1, <2>1, <2>2, ValuesUntouched DEF IInv, SentInv
  <1>4. ASSUME NEW t \in Slices, NEW u \in Slices, ToProtoMerge(t, u) PROVE IInv'
    <2>1. op.prog # Nil /\ ProgramInv(op.prog) /\ DocumentInv(op.doc)
      BY <1>2, <1>4 DEF ToProtoMerge, OperationInv
    <2>2. /\ t \in Fresh /\ u \in Fresh /\ t # u /\ t \notin app /\ u \notin app
          /\ bytes' = [bytes EXCEPT ![t] = bytes[op.doc.payload], ![u] = bytes[op.prog.source]]
          /\ UNCHANGED <<app, doc, prog, op, sent>>
      BY <1>4 DEF ToProtoMerge, Fresh, Referenced
    <2>3. /\ {t, u} \in SUBSET (app \cup Fresh)
          /\ bytes' \in [Slices -> Contents]
          /\ \A r \in Slices \ {t, u} : bytes'[r] = bytes[r]
          /\ app' \subseteq app \cup {t, u}
          /\ bytes'[t] = op.doc.was /\ bytes'[u] = op.prog.sha256
      BY <1>2, <2>1, <2>2 DEF StorageInv, DocumentInv, ProgramInv
    <2>4. MessageInv(msg)'
      BY <1>4, <2>1, <2>2, <2>3, ContentsAssumption
      DEF ToProtoMerge, MessageInv, DocumentInv
    <2>5. QED
      BY <1>1, <2>2, <2>3, <2>4, ValuesUntouched DEF IInv, SentInv
  <1>5. QED
    BY <1>3, <1>4

\* What is marshalled is the message; afterwards the values may go.
LEMMA SendIInv ==
    ASSUME IInv, Marshal \/ Finish
    PROVE  IInv'
  <1>1. CASE Marshal
    BY <1>1 DEF Marshal, IInv, SentInv, StorageInv, DocumentInv, ProgramInv,
                OperationInv, MessageInv
  <1>2. CASE Finish
    BY <1>2 DEF Finish, IInv, SentInv, StorageInv
  <1>3. QED
    BY <1>1, <1>2

LEMMA NextIInv ==
    ASSUME IInv, [Next]_vars
    PROVE  IInv'
  <1>1. CASE UNCHANGED vars
    BY <1>1 DEF vars, IInv, SentInv, StorageInv, DocumentInv, ProgramInv,
                OperationInv, MessageInv
  <1>2. CASE Next
    BY <1>2, AppIInv, MakeIInv, AccessIInv, OperationIInv, MessageIInv, SendIInv DEF Next
  <1>3. QED
    BY <1>1, <1>2

\* The invariant says what ValuesKept asks for.
LEMMA KeptByIInv ==
    ASSUME IInv
    PROVE  ValuesKept
  <1>1. ASSUME NEW d \in Documents
        PROVE  bytes[d.payload] = d.was /\ ValidDocument(d)
    BY <1>1 DEF Documents, IInv, OperationInv, DocumentInv, ValidDocument
  <1>2. ASSUME NEW p \in Programs
        PROVE  ValidProgram(p)
    BY <1>2 DEF Programs, IInv, OperationInv, ProgramInv, ValidProgram
  <1>3. QED
    BY <1>1, <1>2 DEF ValuesKept, IInv, SentInv

\* Documents and programs are values and what is sent of an operation is what
\* was checked, whatever the application does to its slices meanwhile
\* (cloneBytes in types.go and in wire.go).
THEOREM ValuesKeptTheorem == Spec => []ValuesKept
  <1>1. Init => IInv
    BY ContentsAssumption DEF Init, IInv, StorageInv, SentInv
  <1>2. IInv /\ [Next]_vars => IInv'
    BY NextIInv
  <1>3. IInv => ValuesKept
    BY KeptByIInv
  <1>4. QED
    BY <1>1, <1>2, <1>3, PTL DEF Spec

--------------------------------------------------------------------------------
(* Induction, and what a recursive function over a sequence computes *)

\* A set of numbers that is not empty has a least element.
LEMMA Least ==
    ASSUME NEW T, T \subseteq Nat, T # {}
    PROVE  \E n \in T : \A m \in T : n <= m
<1> DEFINE R == {ss \in Nat \X Nat : ss[1] < ss[2]}
<1>1. IsWellFoundedOn(R, Nat)
  BY NatLessThanWellFounded, Zenon DEF OpToRel
<1> HIDE DEF R
<1>2. PICK n \in T : \A m \in T : ~ (<<m, n>> \in R)
  BY <1>1, WFMin
<1>3. ASSUME NEW m \in T, m < n PROVE FALSE
  <2>1. <<m, n>> \in R
    BY <1>3 DEF R
  <2> QED BY <2>1, <1>2
<1>4. \A m \in T : n <= m
  BY <1>3
<1> QED BY <1>4

\* Induction, for a property given as the set of numbers that have it.
LEMMA UpTo ==
    ASSUME NEW N \in Nat, NEW T, 0 \in T,
           \A i \in 0 .. N - 1 : i \in T => i + 1 \in T
    PROVE  \A i \in 0 .. N : i \in T
<1> SUFFICES ASSUME {i \in 0 .. N : i \notin T} # {} PROVE FALSE
  OBVIOUS
<1>1. PICK n \in {i \in 0 .. N : i \notin T} : \A m \in {i \in 0 .. N : i \notin T} : n <= m
  <2>1. {i \in 0 .. N : i \notin T} \subseteq Nat
    OBVIOUS
  <2> QED BY <2>1, Least
<1>2. n # 0 /\ n - 1 \in 0 .. N - 1 /\ n - 1 \in T
  BY <1>1
<1> QED BY <1>1, <1>2

\* The same for the texts that have a property, from their first byte on.
LEMMA EverySeq ==
    ASSUME NEW S, NEW T, << >> \in T,
           \A s \in Seq(S), e \in S : s \in T => Append(s, e) \in T
    PROVE  \A s \in Seq(S) : s \in T
<1> SUFFICES ASSUME NEW s \in Seq(S) PROVE s \in T
  OBVIOUS
<1> DEFINE Pre(n) == SubSeq(s, 1, n)
           P == {n \in 0 .. Len(s) : Pre(n) \in T}
<1>0. Pre(0) = << >>
  BY SubSeqEmpty
<1>1. 0 \in P
  <2> HIDE DEF Pre
  <2> QED BY <1>0
<1>2. ASSUME NEW n \in 0 .. Len(s) - 1, n \in P PROVE n + 1 \in P
  <2>1. SubSeq(s, 1, n) \in Seq(S) /\ s[n + 1] \in S
    OBVIOUS
  <2>2. SubSeq(s, 1, n + 1) = SubSeq(s, 1, n) \o <<s[n + 1]>>
    BY SubSeqRecursiveSecond
  <2>3. Pre(n + 1) = Append(Pre(n), s[n + 1]) /\ Pre(n) \in Seq(S)
    BY <2>1, <2>2, AppendIsConcat
  <2> HIDE DEF Pre
  <2>4. Pre(n) \in T
    BY <1>2
  <2>5. Pre(n + 1) \in T
    BY <2>1, <2>3, <2>4, Zenon
  <2> QED BY <2>5
<1>3. Len(s) \in P
  <2> HIDE DEF P
  <2>1. Len(s) \in Nat
    OBVIOUS
  <2>2. \A i \in 0 .. Len(s) - 1 : i \in P => i + 1 \in P
    BY <1>2
  <2>3. \A i \in 0 .. Len(s) : i \in P
    BY <1>1, <2>1, <2>2, UpTo, Zenon
  <2> QED BY <2>1, <2>3
<1> QED BY <1>3, SubSeqFull

\* f holds what a scan of the sequence s has after each of its elements: b at
\* first, and then what G makes of it and of the next element.
Scan(A, S, b, G, s, f) ==
    /\ b \in A /\ G \in [A \X S -> A] /\ s \in Seq(S)
    /\ f[0] = b
    /\ \A n \in 1 .. Len(s) : f[n] = G[<<f[n - 1], s[n]>>]

Stepped(G, x, e) == G[<<x, e>>]

OneMore(s, t) == Len(t) = Len(s) + 1 /\ \A i \in 1 .. Len(s) : t[i] = s[i]

\* There is such an f for every sequence: what a recursive function over the
\* positions of s computes is defined.
LEMMA ScanExists ==
    ASSUME NEW A, NEW S, NEW b \in A, NEW G \in [A \X S -> A], NEW s \in Seq(S)
    PROVE  \E f \in [0 .. Len(s) -> A] : Scan(A, S, b, G, s, f)
<1> DEFINE Part(f, n) == f[0] = b /\ \A i \in 1 .. n : f[i] = G[<<f[i - 1], s[i]>>]
           P == {n \in 0 .. Len(s) : \E f \in [0 .. n -> A] : Part(f, n)}
<1>1. 0 \in P
  <2>1. Part([i \in 0 .. 0 |-> b], 0) /\ [i \in 0 .. 0 |-> b] \in [0 .. 0 -> A]
    OBVIOUS
  <2> HIDE DEF Part
  <2> QED BY <2>1
<1>2. ASSUME NEW n \in 0 .. Len(s) - 1, n \in P PROVE n + 1 \in P
  <2>1. PICK f \in [0 .. n -> A] : Part(f, n)
    BY <1>2
  <2> DEFINE v == G[<<f[n], s[n + 1]>>]
             g == [i \in 0 .. n + 1 |-> IF i = n + 1 THEN v ELSE f[i]]
  <2>2. v \in A
    OBVIOUS
  <2>3. g \in [0 .. n + 1 -> A]
    BY <2>2
  <2>4. g[0] = b
    BY <2>1
  <2>5. ASSUME NEW i \in 1 .. n + 1 PROVE g[i] = G[<<g[i - 1], s[i]>>]
    <3>1. g[i - 1] = f[i - 1]
      OBVIOUS
    <3>2. CASE i = n + 1
      <4>1. g[i] = v /\ i - 1 = n
        BY <3>2
      <4> QED BY <3>1, <3>2, <4>1
    <3>3. CASE i # n + 1
      BY <2>1, <3>1, <3>3
    <3> QED BY <3>2, <3>3
  <2> HIDE DEF g
  <2>6. Part(g, n + 1)
    BY <2>4, <2>5
  <2> HIDE DEF Part
  <2> QED BY <2>3, <2>6
<1>3. Len(s) \in P
  <2> HIDE DEF P
  <2>1. Len(s) \in Nat
    OBVIOUS
  <2>2. \A i \in 0 .. Len(s) - 1 : i \in P => i + 1 \in P
    BY <1>2
  <2>3. \A i \in 0 .. Len(s) : i \in P
    BY <1>1, <2>1, <2>2, UpTo, Zenon
  <2> QED BY <2>1, <2>3
<1> QED BY <1>3 DEF Scan

\* What a scan has at the end is of the type of its steps.
LEMMA ScanType ==
    ASSUME NEW A, NEW S, NEW b, NEW G, NEW s, NEW f, Scan(A, S, b, G, s, f)
    PROVE  f[Len(s)] \in A
<1> DEFINE P == {n \in 0 .. Len(s) : f[n] \in A}
<1>0. s \in Seq(S) /\ G \in [A \X S -> A]
  BY DEF Scan
<1>1. 0 \in P
  BY <1>0 DEF Scan
<1>2. ASSUME NEW n \in 0 .. Len(s) - 1, n \in P PROVE n + 1 \in P
  <2>1. f[n + 1] = G[<<f[n], s[n + 1]>>]
    BY <1>0 DEF Scan
  <2>2. f[n] \in A /\ s[n + 1] \in S
    BY <1>0, <1>2
  <2>3. f[n + 1] \in A
    BY <1>0, <2>1, <2>2
  <2> QED BY <2>3
<1>3. Len(s) \in P
  <2> HIDE DEF P
  <2>1. Len(s) \in Nat
    BY <1>0
  <2>2. \A i \in 0 .. Len(s) - 1 : i \in P => i + 1 \in P
    BY <1>2
  <2>3. \A i \in 0 .. Len(s) : i \in P
    BY <1>1, <2>1, <2>2, UpTo, Zenon
  <2> QED BY <2>1, <2>3
<1> QED BY <1>3

\* A scan of one element more takes one step more.
LEMMA ScanStep ==
    ASSUME NEW A, NEW S, NEW b, NEW G, NEW s, NEW t, NEW f, NEW g,
           Scan(A, S, b, G, s, f), Scan(A, S, b, G, t, g), OneMore(s, t)
    PROVE  f[Len(s)] \in A /\ g[Len(t)] = Stepped(G, f[Len(s)], t[Len(t)])
<1>0. s \in Seq(S) /\ t \in Seq(S) /\ G \in [A \X S -> A]
  BY DEF Scan
<1> DEFINE P == {n \in 0 .. Len(s) : f[n] \in A /\ g[n] = f[n]}
<1>1. 0 \in P
  BY <1>0 DEF Scan, OneMore
<1>2. ASSUME NEW n \in 0 .. Len(s) - 1, n \in P PROVE n + 1 \in P
  <2>1. f[n + 1] = G[<<f[n], s[n + 1]>>] /\ g[n + 1] = G[<<g[n], s[n + 1]>>]
    BY <1>0 DEF Scan, OneMore
  <2>2. f[n] \in A /\ g[n] = f[n] /\ s[n + 1] \in S
    BY <1>0, <1>2
  <2>3. f[n + 1] \in A /\ g[n + 1] = f[n + 1]
    BY <1>0, <2>1, <2>2
  <2> QED BY <2>3
<1>3. Len(s) \in P
  <2> HIDE DEF P
  <2>1. Len(s) \in Nat
    BY <1>0
  <2>2. \A i \in 0 .. Len(s) - 1 : i \in P => i + 1 \in P
    BY <1>2
  <2>3. \A i \in 0 .. Len(s) : i \in P
    BY <1>1, <2>1, <2>2, UpTo, Zenon
  <2> QED BY <2>1, <2>3
<1>4. g[Len(t)] = G[<<g[Len(s)], t[Len(t)]>>]
  BY <1>0 DEF Scan, OneMore
<1> QED BY <1>3, <1>4 DEF Stepped

--------------------------------------------------------------------------------
(* strings.Split, strings.Join and strings.Cut *)

\* The parts that Split has after one byte more.
SplitParts(S) == {d \in Seq(Seq(S)) : d # << >>}

SplitStep(S, b) ==
    [p \in SplitParts(S) \X S |->
        IF p[2] = b THEN Append(p[1], << >>)
        ELSE [p[1] EXCEPT ![Len(p[1])] = Append(@, p[2])]]

\* The parts are never empty: Split starts with one empty part.
LEMMA SplitStepType ==
    ASSUME NEW S, NEW b
    PROVE  /\ <<<< >>>> \in SplitParts(S)
           /\ SplitStep(S, b) \in [SplitParts(S) \X S -> SplitParts(S)]
<1>1. <<<< >>>> \in SplitParts(S)
  BY DEF SplitParts
<1>2. ASSUME NEW d \in SplitParts(S), NEW e \in S
      PROVE  /\ Append(d, << >>) \in SplitParts(S)
             /\ [d EXCEPT ![Len(d)] = Append(@, e)] \in SplitParts(S)
  <2>1. d \in Seq(Seq(S)) /\ d # << >> /\ Len(d) \in 1 .. Len(d)
    BY DEF SplitParts
  <2>2. << >> \in Seq(S) /\ Append(d[Len(d)], e) \in Seq(S)
    BY <2>1
  <2>3. Append(d, << >>) \in SplitParts(S)
    BY <2>1, <2>2, AppendProperties DEF SplitParts
  <2>4. /\ [d EXCEPT ![Len(d)] = Append(d[Len(d)], e)] \in Seq(Seq(S))
        /\ Len([d EXCEPT ![Len(d)] = Append(d[Len(d)], e)]) = Len(d)
    BY <2>1, <2>2, ExceptSeq
  <2> QED BY <2>1, <2>3, <2>4 DEF SplitParts
<1> QED BY <1>1, <1>2 DEF SplitStep

\* Split is such a scan.
LEMMA SplitScan ==
    ASSUME NEW S, NEW s \in Seq(S), NEW b
    PROVE  \E f : Scan(SplitParts(S), S, <<<< >>>>, SplitStep(S, b), s, f) /\ Split(s, b) = f[Len(s)]
<1> DEFINE E(f, n) == IF n = 0 THEN <<<< >>>>
                      ELSE IF s[n] = b THEN Append(f[n - 1], << >>)
                      ELSE [f[n - 1] EXCEPT ![Len(f[n - 1])] = Append(@, s[n])]
           Q(f) == f = [n \in 0 .. Len(s) |-> E(f, n)]
<1>1. Split(s, b) = (CHOOSE f : Q(f))[Len(s)]
  BY DEF Split
<1>2. PICK g \in [0 .. Len(s) -> SplitParts(S)] : Scan(SplitParts(S), S, <<<< >>>>, SplitStep(S, b), s, g)
  BY SplitStepType, ScanExists
<1>3. ASSUME NEW n \in 0 .. Len(s) PROVE g[n] = E(g, n)
  <2>1. CASE n = 0
    BY <1>2, <2>1 DEF Scan
  <2>2. CASE n # 0
    <3>1. g[n - 1] \in SplitParts(S) /\ s[n] \in S
      BY <2>2
    <3>2. g[n] = SplitStep(S, b)[<<g[n - 1], s[n]>>]
      BY <1>2, <2>2 DEF Scan
    <3> QED BY <2>2, <3>1, <3>2 DEF SplitStep
  <2> QED BY <2>1, <2>2
<1>4. Q(g)
  <2> HIDE DEF E
  <2> QED BY <1>3
<1>5. PICK f : f = (CHOOSE h : Q(h)) /\ Q(f)
  <2> HIDE DEF Q
  <2> QED BY <1>4
<1> DEFINE P == {n \in 0 .. Len(s) : f[n] = g[n]}
<1>6. ASSUME NEW n \in 0 .. Len(s) PROVE f[n] = E(f, n)
  <2> HIDE DEF E
  <2> QED BY <1>5
<1>7. 0 \in P
  <2>1. f[0] = E(f, 0) /\ g[0] = E(g, 0)
    <3> HIDE DEF E
    <3> QED BY <1>3, <1>6
  <2> QED BY <2>1
<1>8. ASSUME NEW n \in 0 .. Len(s) - 1, n \in P PROVE n + 1 \in P
  <2>1. f[n + 1] = E(f, n + 1) /\ g[n + 1] = E(g, n + 1)
    <3> HIDE DEF E
    <3> QED BY <1>3, <1>6
  <2>2. E(f, n + 1) = E(g, n + 1)
    <3>1. f[(n + 1) - 1] = g[(n + 1) - 1]
      BY <1>8
    <3> QED BY <3>1, Zenon
  <2> HIDE DEF E
  <2> QED BY <2>1, <2>2
<1>9. Len(s) \in P
  <2> HIDE DEF P
  <2>1. Len(s) \in Nat
    OBVIOUS
  <2>2. \A n \in 0 .. Len(s) - 1 : n \in P => n + 1 \in P
    BY <1>8
  <2>3. \A n \in 0 .. Len(s) : n \in P
    BY <1>7, <2>1, <2>2, UpTo, Zenon
  <2> QED BY <2>1, <2>3
<1> QED
  <2>1. f[Len(s)] = g[Len(s)]
    BY <1>9
  <2> HIDE DEF E, Q
  <2> QED BY <1>1, <1>2, <1>5, <2>1

\* Split of the empty text is one empty part.
LEMMA SplitEmpty ==
    ASSUME NEW b
    PROVE  Split(<< >>, b) = <<<< >>>>
<1>1. PICK f : Scan(SplitParts({}), {}, <<<< >>>>, SplitStep({}, b), << >>, f) /\ Split(<< >>, b) = f[Len(<< >>)]
  <2>1. << >> \in Seq({})
    OBVIOUS
  <2> QED BY <2>1, SplitScan
<1> QED BY <1>1 DEF Scan

\* What Split makes of one byte more.
LEMMA SplitAppend ==
    ASSUME NEW S, NEW s \in Seq(S), NEW e \in S, NEW b
    PROVE  /\ Split(s, b) \in Seq(Seq(S)) /\ Split(s, b) # << >>
           /\ Split(Append(s, e), b) =
                 IF e = b THEN Append(Split(s, b), << >>)
                 ELSE [Split(s, b) EXCEPT ![Len(Split(s, b))] = Append(@, e)]
<1> DEFINE t == Append(s, e)
<1>1. /\ t \in Seq(S) /\ Len(t) = Len(s) + 1 /\ t[Len(t)] = e
      /\ OneMore(s, t)
  BY AppendProperties DEF OneMore
<1>2. /\ <<<< >>>> \in SplitParts(S)
      /\ SplitStep(S, b) \in [SplitParts(S) \X S -> SplitParts(S)]
  BY SplitStepType, Zenon
<1> HIDE DEF t
<1>3. PICK f : Scan(SplitParts(S), S, <<<< >>>>, SplitStep(S, b), s, f) /\ Split(s, b) = f[Len(s)]
  BY SplitScan
<1>4. PICK g : Scan(SplitParts(S), S, <<<< >>>>, SplitStep(S, b), t, g) /\ Split(t, b) = g[Len(t)]
  BY <1>1, SplitScan
<1>5. f[Len(s)] \in SplitParts(S) /\ g[Len(t)] = Stepped(SplitStep(S, b), f[Len(s)], t[Len(t)])
  BY <1>1, <1>3, <1>4, ScanStep
<1>6. Split(s, b) \in SplitParts(S) /\ Split(t, b) = SplitStep(S, b)[<<Split(s, b), e>>]
  BY <1>1, <1>3, <1>4, <1>5 DEF Stepped
<1> QED BY <1>6 DEF SplitParts, SplitStep, t

CatStep(S) == [p \in Seq(S) \X Seq(S) |-> p[1] \o p[2]]

\* FlattenSeq is a scan too.
LEMMA FlattenScan ==
    ASSUME NEW S, NEW ss \in Seq(Seq(S))
    PROVE  \E f : Scan(Seq(S), Seq(S), << >>, CatStep(S), ss, f) /\ FlattenSeq(ss) = f[Len(ss)]
<1>1. << >> \in Seq(S) /\ CatStep(S) \in [Seq(S) \X Seq(S) -> Seq(S)]
  BY ConcatProperties DEF CatStep
<1>2. PICK g \in [0 .. Len(ss) -> Seq(S)] : Scan(Seq(S), Seq(S), << >>, CatStep(S), ss, g)
  BY <1>1, ScanExists
<1>3. ASSUME NEW n \in 1 .. Len(ss)
      PROVE  g[n] = g[n - 1] \o ss[n]
  <2>1. g[n - 1] \in Seq(S) /\ ss[n] \in Seq(S)
    <3>1. n - 1 \in 0 .. Len(ss)
      OBVIOUS
    <3>2. g[n - 1] \in Seq(S)
      BY <3>1, Zenon
    <3> QED BY <3>2
  <2>2. g[n] = CatStep(S)[<<g[n - 1], ss[n]>>]
    BY <1>2 DEF Scan
  <2> QED BY <2>1, <2>2 DEF CatStep
<1>4. CASE Len(ss) = 0
  <2>1. FlattenSeq(ss) = << >>
    BY <1>4 DEF FlattenSeq
  <2> QED BY <1>2, <1>4, <2>1 DEF Scan
<1>5. CASE Len(ss) # 0
  <2> DEFINE E(f, n) == IF n = 1 THEN ss[n] ELSE f[n - 1] \o ss[n]
             Q(f) == f = [n \in 1 .. Len(ss) |-> E(f, n)]
             h == [n \in 1 .. Len(ss) |-> g[n]]
  <2>1. FlattenSeq(ss) = (CHOOSE f : Q(f))[Len(ss)]
    BY <1>5 DEF FlattenSeq
  <2>2. ASSUME NEW n \in 1 .. Len(ss) PROVE g[n] = E(h, n)
    <3>1. CASE n = 1
      <4>1. g[0] = << >> /\ ss[1] \in Seq(S) /\ n - 1 = 0
        BY <1>2, <3>1 DEF Scan
      <4>2. g[n] = << >> \o ss[n]
        BY <1>3, <4>1
      <4> QED BY <3>1, <4>1, <4>2, ConcatEmptySeq
    <3>2. CASE n # 1
      <4>1. h[n - 1] = g[n - 1]
        BY <3>2
      <4> QED BY <3>2, <1>3, <4>1
    <3> QED BY <3>1, <3>2
  <2>3. Q(h)
    <3> HIDE DEF E
    <3>1. ASSUME NEW n \in 1 .. Len(ss) PROVE h[n] = E(h, n)
      BY <2>2
    <3> QED BY <3>1
  <2>4. PICK f : f = (CHOOSE k : Q(k)) /\ Q(f)
    <3> HIDE DEF Q
    <3> QED BY <2>3
  <2>5. ASSUME NEW n \in 1 .. Len(ss) PROVE f[n] = E(f, n) /\ h[n] = E(h, n)
    <3> HIDE DEF E, h
    <3> QED BY <2>3, <2>4
  <2> DEFINE P == {n \in 0 .. Len(ss) : n = 0 \/ f[n] = h[n]}
  <2>6. ASSUME NEW n \in 0 .. Len(ss) - 1, n \in P PROVE n + 1 \in P
    <3>1. f[n + 1] = E(f, n + 1) /\ h[n + 1] = E(h, n + 1)
      <4> HIDE DEF E, h
      <4> QED BY <2>5
    <3>2. CASE n = 0
      <4>1. f[n + 1] = h[n + 1]
        <5> HIDE DEF h
        <5> QED BY <3>1, <3>2
      <4> HIDE DEF h
      <4> QED BY <4>1
    <3>3. CASE n # 0
      <4>1. f[(n + 1) - 1] = h[(n + 1) - 1]
        <5> HIDE DEF h
        <5> QED BY <2>6, <3>3
      <4>2. f[n + 1] = h[n + 1]
        <5> HIDE DEF h
        <5>1. n + 1 # 1
          BY <3>3
        <5> QED BY <3>1, <4>1, <5>1, Zenon
      <4> HIDE DEF h
      <4> QED BY <4>2
    <3> QED BY <3>2, <3>3
  <2>7. Len(ss) \in P
    <3>1. 0 \in P
      OBVIOUS
    <3> HIDE DEF P
    <3>2. Len(ss) \in Nat
      OBVIOUS
    <3>3. \A n \in 0 .. Len(ss) - 1 : n \in P => n + 1 \in P
      BY <2>6
    <3>4. \A n \in 0 .. Len(ss) : n \in P
      BY <3>1, <3>2, <3>3, UpTo, Zenon
    <3> QED BY <3>2, <3>4
  <2>8. FlattenSeq(ss) = g[Len(ss)]
    <3>1. f[Len(ss)] = h[Len(ss)]
      BY <1>5, <2>7
    <3>2. h[Len(ss)] = g[Len(ss)]
      BY <1>5
    <3> HIDE DEF E, Q, h
    <3> QED BY <2>1, <2>4, <3>1, <3>2
  <2> QED BY <1>2, <2>8
<1> QED BY <1>4, <1>5

\* What FlattenSeq makes of one sequence more.
LEMMA FlattenAppend ==
    ASSUME NEW S, NEW ss \in Seq(Seq(S)), NEW x \in Seq(S)
    PROVE  /\ FlattenSeq(<< >>) = << >>
           /\ FlattenSeq(ss) \in Seq(S)
           /\ FlattenSeq(Append(ss, x)) = FlattenSeq(ss) \o x
<1>0. << >> \in Seq(S) /\ CatStep(S) \in [Seq(S) \X Seq(S) -> Seq(S)]
  BY ConcatProperties DEF CatStep
<1> DEFINE t == Append(ss, x)
<1>1. /\ t \in Seq(Seq(S)) /\ Len(t) = Len(ss) + 1 /\ t[Len(t)] = x
      /\ OneMore(ss, t)
  BY AppendProperties DEF OneMore
<1> HIDE DEF t
<1>2. PICK f : Scan(Seq(S), Seq(S), << >>, CatStep(S), ss, f) /\ FlattenSeq(ss) = f[Len(ss)]
  BY FlattenScan
<1>3. PICK g : Scan(Seq(S), Seq(S), << >>, CatStep(S), t, g) /\ FlattenSeq(t) = g[Len(t)]
  BY <1>1, FlattenScan
<1>4. f[Len(ss)] \in Seq(S) /\ g[Len(t)] = Stepped(CatStep(S), f[Len(ss)], t[Len(t)])
  BY <1>1, <1>2, <1>3, ScanStep
<1>5. FlattenSeq(ss) \in Seq(S) /\ FlattenSeq(t) = CatStep(S)[<<FlattenSeq(ss), x>>]
  BY <1>1, <1>2, <1>3, <1>4 DEF Stepped
<1>6. FlattenSeq(<< >>) = << >>
  BY DEF FlattenSeq
<1> QED BY <1>5, <1>6 DEF CatStep, t

\* Appending an element to the second of two sequences appends it to the whole.
LEMMA CatAppend ==
    ASSUME NEW S, NEW s \in Seq(S), NEW t \in Seq(S), NEW e \in S
    PROVE  s \o Append(t, e) = Append(s \o t, e)
<1>1. Append(t, e) = t \o <<e>> /\ s \o t \in Seq(S) /\ <<e>> \in Seq(S)
  BY AppendIsConcat
<1>2. Append(s \o t, e) = (s \o t) \o <<e>>
  BY <1>1, AppendIsConcat
<1> QED BY <1>1, <1>2, ConcatAssociative

\* A sequence is its front and its last element.
LEMMA FrontLast ==
    ASSUME NEW S, NEW d \in Seq(S), d # << >>
    PROVE  /\ Front(d) \in Seq(S) /\ Last(d) \in S /\ d = Append(Front(d), Last(d))
           /\ Len(Front(d)) = Len(d) - 1
           /\ \A i \in 1 .. Len(d) - 1 : Front(d)[i] = d[i]
<1>1. Len(d) \in Nat /\ Len(d) >= 1
  OBVIOUS
<1> DEFINE q == SubSeq(d, 1, Len(d) - 1)
           x == Append(q, d[Len(d)])
<1>2. q \in Seq(S) /\ Len(q) = Len(d) - 1 /\ \A i \in 1 .. Len(d) - 1 : q[i] = d[i]
  <2>1. \A i \in 1 .. Len(d) - 1 : d[i] \in S
    BY <1>1
  <2>2. /\ q \in Seq(S)
        /\ Len(q) = IF 1 <= Len(d) - 1 THEN Len(d) - 1 - 1 + 1 ELSE 0
        /\ \A i \in 1 .. Len(d) - 1 - 1 + 1 : q[i] = d[1 + i - 1]
    BY <1>1, <2>1, SubSeqProperties
  <2> HIDE DEF q
  <2>3. Len(q) = Len(d) - 1
    <3>1. Len(q) = IF 1 <= Len(d) - 1 THEN Len(d) - 1 - 1 + 1 ELSE 0
      BY <2>2, Zenon
    <3>2. \A n \in Nat : n >= 1 => (IF 1 <= n - 1 THEN n - 1 - 1 + 1 ELSE 0) = n - 1
      OBVIOUS
    <3> QED BY <1>1, <3>1, <3>2, Zenon
  <2>4. ASSUME NEW i \in 1 .. Len(d) - 1 PROVE q[i] = d[i]
    <3>1. i \in 1 .. Len(d) - 1 - 1 + 1 /\ 1 + i - 1 = i
      BY <1>1
    <3> QED BY <2>2, <3>1
  <2> QED BY <2>2, <2>3, <2>4
<1>3. d[Len(d)] \in S
  BY <1>1
<1>4. Front(d) = q /\ Last(d) = d[Len(d)]
  BY DEF Front, Last
<1> HIDE DEF q
<1>5. /\ x \in Seq(S) /\ Len(x) = Len(d) /\ x[Len(d)] = d[Len(d)]
      /\ \A i \in 1 .. Len(d) - 1 : x[i] = q[i]
  BY <1>1, <1>2, <1>3, AppendProperties
<1> HIDE DEF x
<1>6. \A i \in 1 .. Len(d) : d[i] = x[i]
  BY <1>1, <1>2, <1>5
<1>7. d = x
  BY <1>5, <1>6, SeqEqual
<1> QED BY <1>2, <1>3, <1>4, <1>7 DEF x

\* Replacing the element that was appended is appending the other one.
LEMMA ReplaceLast ==
    ASSUME NEW S, NEW d \in Seq(S), NEW x \in S, NEW y \in S
    PROVE  [Append(d, x) EXCEPT ![Len(Append(d, x))] = y] = Append(d, y)
<1> DEFINE u == Append(d, x)
           v == Append(d, y)
           w == [u EXCEPT ![Len(u)] = y]
<1>1. /\ u \in Seq(S) /\ Len(u) = Len(d) + 1 /\ Len(d) \in Nat
      /\ \A i \in 1 .. Len(d) : u[i] = d[i]
  BY AppendProperties
<1>2. /\ v \in Seq(S) /\ Len(v) = Len(d) + 1 /\ v[Len(d) + 1] = y
      /\ \A i \in 1 .. Len(d) : v[i] = d[i]
  BY AppendProperties
<1> HIDE DEF u, v
<1>3. /\ w \in Seq(S) /\ Len(w) = Len(u)
      /\ \A i \in 1 .. Len(u) : w[i] = IF i = Len(u) THEN y ELSE u[i]
  <2>1. Len(u) \in 1 .. Len(u)
    BY <1>1
  <2> QED BY <1>1, <2>1, ExceptSeq
<1> HIDE DEF w
<1>4. Len(w) = Len(v) /\ \A i \in 1 .. Len(w) : w[i] = v[i]
  BY <1>1, <1>2, <1>3
<1>5. w = v
  BY <1>2, <1>3, <1>4, SeqEqual
<1> QED BY <1>5 DEF u, v, w

\* Append and \o under names of their own: the provers use the facts below and
\* do not take the sequences apart.
Add(s, e) == Append(s, e)

Cat(s, t) == s \o t

\* Add appends a sequence of one.
LEMMA AddType ==
    ASSUME NEW S, NEW s \in Seq(S), NEW e \in S
    PROVE  Add(s, e) \in Seq(S) /\ Add(s, e) = Cat(s, <<e>>)
  BY AppendProperties, AppendIsConcat DEF Add, Cat

\* Cat keeps to the set of elements.
LEMMA CatType ==
    ASSUME NEW S, NEW s \in Seq(S), NEW t \in Seq(S)
    PROVE  Cat(s, t) \in Seq(S)
  BY ConcatProperties DEF Cat

\* The empty sequence adds nothing.
LEMMA CatNil ==
    ASSUME NEW S, NEW s \in Seq(S)
    PROVE  Cat(s, << >>) = s /\ Cat(<< >>, s) = s
  BY ConcatEmptySeq DEF Cat

\* CatAppend under the new names.
LEMMA CatAdd ==
    ASSUME NEW S, NEW s \in Seq(S), NEW t \in Seq(S), NEW e \in S
    PROVE  Cat(s, Add(t, e)) = Add(Cat(s, t), e)
  BY CatAppend DEF Add, Cat

\* Cat is associative.
LEMMA CatAssoc ==
    ASSUME NEW S, NEW s \in Seq(S), NEW t \in Seq(S), NEW u \in Seq(S)
    PROVE  Cat(Cat(s, t), u) = Cat(s, Cat(t, u))
  BY ConcatAssociative DEF Cat

\* EverySeq under the new name.
LEMMA EveryText ==
    ASSUME NEW S, NEW T, << >> \in T,
           \A s \in Seq(S), e \in S : s \in T => Add(s, e) \in T
    PROVE  \A s \in Seq(S) : s \in T
  BY EverySeq DEF Add

\* FrontLast under the new name.
LEMMA AddLast ==
    ASSUME NEW S, NEW d \in Seq(S), d # << >>
    PROVE  Front(d) \in Seq(S) /\ Last(d) \in S /\ d = Add(Front(d), Last(d))
  BY FrontLast DEF Add

\* What is appended is last, and the rest is in front of it.
LEMMA LastAdd ==
    ASSUME NEW S, NEW d \in Seq(S), NEW e \in S
    PROVE  /\ Add(d, e) # << >> /\ Front(Add(d, e)) = d /\ Last(Add(d, e)) = e
           /\ Len(Add(d, e)) = Len(d) + 1 /\ Add(d, e)[Len(d) + 1] = e
           /\ \A i \in 1 .. Len(d) : Add(d, e)[i] = d[i]
<1> DEFINE x == Append(d, e)
<1>1. /\ x \in Seq(S) /\ x # << >> /\ Len(x) = Len(d) + 1 /\ x[Len(d) + 1] = e
      /\ Len(d) \in Nat /\ \A i \in 1 .. Len(d) : x[i] = d[i]
  BY AppendProperties
<1> HIDE DEF x
<1>2. Last(x) = e
  BY <1>1 DEF Last
<1>3. Front(x) \in Seq(S) /\ Len(Front(x)) = Len(x) - 1
      /\ \A i \in 1 .. Len(x) - 1 : Front(x)[i] = x[i]
  BY <1>1, FrontLast
<1>4. Front(x) = d
  <2> DEFINE y == Front(x)
  <2>1. y \in Seq(S) /\ Len(y) = Len(d) /\ \A i \in 1 .. Len(y) : y[i] = d[i]
    BY <1>1, <1>3
  <2> HIDE DEF y
  <2>2. y = d
    BY <2>1, SeqEqual
  <2> QED BY <2>2 DEF y
<1> QED BY <1>1, <1>2, <1>4 DEF Add, x

\* A sequence that has one element more than d, and the same before it.
LEMMA AddEqual ==
    ASSUME NEW S, NEW d \in Seq(S), NEW x \in Seq(S), NEW e \in S,
           Len(x) = Len(d) + 1, x[Len(d) + 1] = e, \A i \in 1 .. Len(d) : x[i] = d[i]
    PROVE  x = Add(d, e)
<1> DEFINE y == Add(d, e)
<1>1. y \in Seq(S)
  BY AddType
<1>2. Len(y) = Len(d) + 1 /\ y[Len(d) + 1] = e /\ \A i \in 1 .. Len(d) : y[i] = d[i]
  BY LastAdd
<1> HIDE DEF y
<1>3. \A i \in 1 .. Len(x) : x[i] = y[i]
  <2>1. \A i \in 1 .. Len(x) : i \in 1 .. Len(d) \/ i = Len(d) + 1
    OBVIOUS
  <2> QED BY <1>2, <2>1
<1>4. x = y
  BY <1>1, <1>2, <1>3, SeqEqual
<1> QED BY <1>4 DEF y

\* FlattenAppend under the new names.
LEMMA FlattenAdd ==
    ASSUME NEW S, NEW ss \in Seq(Seq(S)), NEW x \in Seq(S)
    PROVE  /\ FlattenSeq(<< >>) = << >>
           /\ FlattenSeq(ss) \in Seq(S)
           /\ FlattenSeq(Add(ss, x)) = Cat(FlattenSeq(ss), x)
  BY FlattenAppend DEF Add, Cat

\* SplitAppend under the new names, for the parts p and l that Split has so far.
LEMMA SplitAdd ==
    ASSUME NEW S, NEW s \in Seq(S), NEW e \in S, NEW b, NEW p \in Seq(Seq(S)), NEW l \in Seq(S),
           Split(s, b) = Add(p, l)
    PROVE  Split(Add(s, e), b) = IF e = b THEN Add(Add(p, l), << >>) ELSE Add(p, Add(l, e))
<1> DEFINE d == Split(s, b)
           m == Append(l, e)
<1>1. Split(Append(s, e), b) = IF e = b THEN Append(d, << >>)
                               ELSE [d EXCEPT ![Len(d)] = Append(d[Len(d)], e)]
  BY SplitAppend
<1>2. m \in Seq(S)
  BY AppendProperties
<1>3. [Append(p, l) EXCEPT ![Len(Append(p, l))] = m] = Append(p, m)
  <2> HIDE DEF m
  <2> QED BY <1>2, ReplaceLast
<1>4. d[Len(d)] = l
  BY LastAdd DEF Last
<1>5. d = Append(p, l)
  BY DEF Add
<1> HIDE DEF d
<1>6. Append(d[Len(d)], e) = m
  BY <1>4
<1> HIDE DEF m
<1>7. Split(Append(s, e), b) = IF e = b THEN Append(d, << >>) ELSE Append(p, m)
  BY <1>1, <1>3, <1>5, <1>6, Zenon
<1> QED BY <1>5, <1>7, Zenon DEF m, Add

\* What Join makes of one part more.
LEMMA JoinAdd ==
    ASSUME NEW S, NEW parts \in Seq(Seq(S)), NEW x \in Seq(S), NEW b \in S
    PROVE  /\ Join(<< >>, b) = << >> /\ Join(parts, b) \in Seq(S)
           /\ Join(Add(parts, x), b) =
                 IF parts = << >> THEN x ELSE Cat(Add(Join(parts, b), b), x)
<1> DEFINE Piece(k, p) == IF k = 1 THEN p ELSE Cat(<<b>>, p)
           Pieces(ps) == [k \in DOMAIN ps |-> Piece(k, ps[k])]
           t == Add(parts, x)
           n == Len(parts)
<1>1. /\ t \in Seq(Seq(S)) /\ Len(t) = n + 1 /\ t[n + 1] = x /\ n \in Nat
      /\ \A k \in 1 .. n : t[k] = parts[k]
  <2>1. t \in Seq(Seq(S))
    BY AddType
  <2>2. Len(t) = n + 1 /\ t[n + 1] = x /\ \A k \in 1 .. n : t[k] = parts[k]
    BY LastAdd
  <2>3. n \in Nat
    OBVIOUS
  <2> QED BY <2>1, <2>2, <2>3
<1>0. <<b>> \in Seq(S) /\ << >> \in Seq(S)
  OBVIOUS
<1> HIDE DEF t, n
<1>2. ASSUME NEW k, NEW p \in Seq(S) PROVE Piece(k, p) \in Seq(S)
  BY <1>0, CatType
<1>3. ASSUME NEW ps \in Seq(Seq(S))
      PROVE  /\ Pieces(ps) \in Seq(Seq(S)) /\ Len(Pieces(ps)) = Len(ps)
             /\ \A k \in 1 .. Len(ps) : Pieces(ps)[k] = Piece(k, ps[k])
  <2>1. DOMAIN ps = 1 .. Len(ps) /\ Len(ps) \in Nat /\ \A k \in 1 .. Len(ps) : ps[k] \in Seq(S)
    OBVIOUS
  <2>2. Pieces(ps) = [k \in 1 .. Len(ps) |-> Piece(k, ps[k])]
    BY <2>1
  <2>3. \A k \in 1 .. Len(ps) : Piece(k, ps[k]) \in Seq(S)
    BY <1>2, <2>1
  <2> HIDE DEF Piece, Pieces
  <2> QED BY <2>1, <2>2, <2>3
<1>4. Pieces(t) = Add(Pieces(parts), Piece(n + 1, x))
  <2> HIDE DEF Piece, Pieces
  <2> DEFINE v == Pieces(t)
             w == Pieces(parts)
             y == Piece(n + 1, x)
  <2>1. /\ v \in Seq(Seq(S)) /\ w \in Seq(Seq(S)) /\ y \in Seq(S)
        /\ Len(v) = n + 1 /\ Len(w) = n /\ v[n + 1] = y
    <3>1. v \in Seq(Seq(S)) /\ w \in Seq(Seq(S)) /\ Len(v) = n + 1 /\ Len(w) = n
      BY <1>1, <1>3 DEF n
    <3>2. y \in Seq(S)
      BY <1>2
    <3>3. n + 1 \in 1 .. Len(t)
      BY <1>1
    <3>4. v[n + 1] = y
      BY <1>1, <1>3, <3>3
    <3> QED BY <3>1, <3>2, <3>4
  <2>2. ASSUME NEW k \in 1 .. n PROVE v[k] = w[k]
    <3>1. k \in 1 .. n + 1 /\ k \in 1 .. Len(parts)
      BY <1>1 DEF n
    <3> QED BY <1>1, <1>3, <3>1
  <2> HIDE DEF v, w, y
  <2>3. v = Add(w, y)
    BY <2>1, <2>2, AddEqual
  <2> QED BY <2>3 DEF v, w, y
<1>5. /\ FlattenSeq(Pieces(t)) = Cat(FlattenSeq(Pieces(parts)), Piece(n + 1, x))
      /\ FlattenSeq(Pieces(parts)) \in Seq(S)
  <2> HIDE DEF Piece, Pieces
  <2> QED BY <1>2, <1>3, <1>4, FlattenAdd
<1>6. Join(t, b) = FlattenSeq(Pieces(t)) /\ Join(parts, b) = FlattenSeq(Pieces(parts))
  BY DEF Join, Cat
<1>7. Join(<< >>, b) = << >>
  <2>1. FlattenSeq(<< >>) = << >>
    BY FlattenAdd
  <2> QED BY <2>1 DEF Join
<1>8. Join(t, b) = IF parts = << >> THEN x ELSE Cat(Add(Join(parts, b), b), x)
  <2>1. CASE parts = << >>
    <3>1. n + 1 = 1 /\ Join(parts, b) = << >>
      BY <1>7, <2>1 DEF n
    <3>2. Join(t, b) = Cat(<< >>, x)
      BY <1>5, <1>6, <3>1, Zenon
    <3> QED BY <2>1, <3>2, CatNil
  <2>2. CASE parts # << >>
    <3>1. n + 1 # 1
      BY <2>2 DEF n
    <3>2. Join(t, b) = Cat(Join(parts, b), Cat(<<b>>, x))
      BY <1>5, <1>6, <3>1, Zenon
    <3>3. Join(parts, b) \in Seq(S)
      BY <1>5, <1>6
    <3>4. Add(Join(parts, b), b) = Cat(Join(parts, b), <<b>>)
      BY <3>3, AddType
    <3> DEFINE j == Join(parts, b)
               o == <<b>>
    <3>5. j \in Seq(S) /\ o \in Seq(S)
      BY <1>0, <3>3
    <3> HIDE DEF j, o
    <3>6. Cat(Cat(j, o), x) = Cat(j, Cat(o, x))
      BY <3>5, CatAssoc
    <3> QED BY <2>2, <3>2, <3>4, <3>6, Zenon DEF j, o
  <2> QED BY <2>1, <2>2
<1> QED BY <1>5, <1>6, <1>7, <1>8 DEF t

\* Split has at least one part.
LEMMA SplitType ==
    ASSUME NEW S, NEW s \in Seq(S), NEW b
    PROVE  Split(s, b) \in Seq(Seq(S)) /\ Split(s, b) # << >>
<1>1. PICK f : /\ Scan(SplitParts(S), S, <<<< >>>>, SplitStep(S, b), s, f)
               /\ Split(s, b) = f[Len(s)]
  BY SplitScan
<1>2. f[Len(s)] \in SplitParts(S)
  BY <1>1, ScanType
<1> QED BY <1>1, <1>2 DEF SplitParts

\* Joining what Split has cut gives the text back.
LEMMA JoinSplit ==
    ASSUME NEW S, NEW s \in Seq(S), NEW b \in S
    PROVE  Join(Split(s, b), b) = s
<1> DEFINE T == {r \in Seq(S) : Join(Split(r, b), b) = r}
<1>0. << >> \in Seq(S) /\ << >> \in Seq(Seq(S))
  OBVIOUS
<1>1. << >> \in T
  <2>1. <<<< >>>> = Add(<< >>, << >>)
    BY DEF Add
  <2>2. Join(Add(<< >>, << >>), b) = << >>
    <3> DEFINE o == << >>
    <3>1. o \in Seq(S) /\ o \in Seq(Seq(S)) /\ o = << >>
      OBVIOUS
    <3> HIDE DEF o
    <3>2. Join(Add(o, o), b) = o
      BY <3>1, JoinAdd
    <3> QED BY <3>1, <3>2
  <2> QED BY <1>0, <2>1, <2>2, SplitEmpty
<1>2. ASSUME NEW r \in Seq(S), NEW e \in S, r \in T PROVE Add(r, e) \in T
  <2>1. PICK p \in Seq(Seq(S)), l \in Seq(S) : Split(r, b) = Add(p, l)
    <3>1. Split(r, b) \in Seq(Seq(S)) /\ Split(r, b) # << >>
      BY SplitType
    <3> QED BY <3>1, AddLast
  <2>2. Join(Add(p, l), b) = r
    BY <1>2, <2>1
  <2>3. Split(Add(r, e), b) = IF e = b THEN Add(Add(p, l), << >>) ELSE Add(p, Add(l, e))
    BY <2>1, SplitAdd
  <2>4. Add(r, e) \in Seq(S) /\ Add(l, e) \in Seq(S) /\ Add(p, l) \in Seq(Seq(S)) /\ Add(p, l) # << >>
    BY AddType, LastAdd
  <2>5. CASE e = b
    <3>1. Join(Add(Add(p, l), << >>), b) = Cat(Add(r, b), << >>)
      <4> DEFINE o == << >>
                 d == Add(p, l)
      <4>1. o \in Seq(S) /\ d \in Seq(Seq(S)) /\ d # << >> /\ Join(d, b) = r
        BY <2>2, <2>4
      <4> HIDE DEF o, d
      <4>2. Join(Add(d, o), b) = Cat(Add(r, b), o)
        BY <4>1, JoinAdd
      <4> QED BY <4>2 DEF o, d
    <3>2. Cat(Add(r, b), << >>) = Add(r, e)
      BY <2>4, <2>5, CatNil
    <3> QED BY <2>3, <2>4, <2>5, <3>1, <3>2
  <2>6. CASE e # b
    <3> DEFINE u == Add(Join(p, b), b)
    <3>1. Join(Add(p, Add(l, e)), b) = IF p = << >> THEN Add(l, e) ELSE Cat(u, Add(l, e))
      BY <2>4, JoinAdd
    <3>2. r = IF p = << >> THEN l ELSE Cat(u, l)
      BY <2>2, JoinAdd
    <3>3. u \in Seq(S)
      BY JoinAdd, AddType
    <3> HIDE DEF u
    <3>4. Cat(u, Add(l, e)) = Add(Cat(u, l), e)
      BY <3>3, CatAdd
    <3>5. Join(Add(p, Add(l, e)), b) = Add(r, e)
      BY <3>1, <3>2, <3>4
    <3> QED BY <2>3, <2>4, <2>6, <3>5
  <2> QED BY <2>5, <2>6
<1>3. \A r \in Seq(S) : r \in T
  <2> HIDE DEF T
  <2> QED BY <1>1, <1>2, EveryText
<1> QED BY <1>3

\* No byte b in s.
Free(s, b) == \A i \in 1 .. Len(s) : s[i] # b

\* Free, byte by byte.
LEMMA FreeAdd ==
    ASSUME NEW S, NEW s \in Seq(S), NEW e \in S, NEW b
    PROVE  Free(Add(s, e), b) <=> Free(s, b) /\ e # b
<1> DEFINE t == Add(s, e)
<1>1. Len(t) = Len(s) + 1 /\ t[Len(s) + 1] = e /\ \A i \in 1 .. Len(s) : t[i] = s[i]
  BY LastAdd
<1>2. Len(s) \in Nat
  OBVIOUS
<1> HIDE DEF t
<1>3. Free(t, b) => Free(s, b) /\ e # b
  BY <1>1, <1>2 DEF Free
<1>4. Free(s, b) /\ e # b => Free(t, b)
  <2>1. \A i \in 1 .. Len(t) : i \in 1 .. Len(s) \/ i = Len(s) + 1
    BY <1>1, <1>2
  <2> QED BY <1>1, <2>1 DEF Free
<1> QED BY <1>3, <1>4 DEF t

\* A text without b is one part, and so is one that follows a b.
LEMMA SplitTail ==
    ASSUME NEW S, NEW s \in Seq(S), NEW b \in S, NEW t \in Seq(S), Free(t, b)
    PROVE  /\ Split(t, b) = <<t>>
           /\ Split(Cat(Add(s, b), t), b) = Add(Split(s, b), t)
<1> DEFINE u == Add(s, b)
           d == Split(s, b)
           Cut(r) == Split(r, b) = Add(<< >>, r) /\ Split(Cat(u, r), b) = Add(d, r)
           T == {r \in Seq(S) : Free(r, b) => Cut(r)}
<1>0. << >> \in Seq(S) /\ << >> \in Seq(Seq(S)) /\ <<<< >>>> = Add(<< >>, << >>)
  BY DEF Add
<1>1. u \in Seq(S) /\ d \in Seq(Seq(S)) /\ d # << >> /\ Split(u, b) = Add(d, << >>)
  <2>1. d \in Seq(Seq(S)) /\ d # << >>
    BY SplitType
  <2>2. PICK p \in Seq(Seq(S)), l \in Seq(S) : d = Add(p, l)
    BY <2>1, AddLast
  <2>3. Split(Add(s, b), b) = Add(Add(p, l), << >>)
    BY <2>2, SplitAdd
  <2>4. Add(s, b) \in Seq(S)
    BY AddType
  <2> HIDE DEF d
  <2> QED BY <2>1, <2>2, <2>3, <2>4
<1> HIDE DEF u, d
<1>2. << >> \in T
  <2>1. Split(<< >>, b) = Add(<< >>, << >>)
    BY <1>0, SplitEmpty
  <2>2. Cat(u, << >>) = u
    BY <1>1, CatNil
  <2> QED BY <1>0, <1>1, <2>1, <2>2
<1>3. ASSUME NEW r \in Seq(S), NEW e \in S, r \in T PROVE Add(r, e) \in T
  <2>1. Add(r, e) \in Seq(S) /\ Cat(u, r) \in Seq(S)
    BY <1>1, AddType, CatType
  <2> SUFFICES ASSUME Free(Add(r, e), b) PROVE Cut(Add(r, e))
    <3> HIDE DEF Cut
    <3> QED BY <2>1
  <2>2. Free(r, b) /\ e # b
    BY FreeAdd
  <2>3. Cut(r)
    BY <1>3, <2>2
  <2>4. Split(Add(r, e), b) = Add(<< >>, Add(r, e))
    <3> DEFINE o == << >>
    <3>1. o \in Seq(Seq(S)) /\ Split(r, b) = Add(o, r)
      BY <1>0, <2>3
    <3> HIDE DEF o
    <3>2. Split(Add(r, e), b) = Add(o, Add(r, e))
      BY <2>2, <3>1, SplitAdd
    <3> QED BY <3>2 DEF o
  <2>5. Split(Add(Cat(u, r), e), b) = Add(d, Add(r, e))
    BY <1>1, <2>1, <2>2, <2>3, SplitAdd
  <2>6. Cat(u, Add(r, e)) = Add(Cat(u, r), e)
    BY <1>1, CatAdd
  <2> QED BY <2>4, <2>5, <2>6
<1>4. \A r \in Seq(S) : r \in T
  <2> HIDE DEF T
  <2> QED BY <1>2, <1>3, EveryText
<1>5. Cut(t)
  BY <1>4
<1>6. Add(<< >>, t) = <<t>>
  BY DEF Add
<1> QED BY <1>5, <1>6 DEF u, d

\* The elements of two sequences in one.
LEMMA CatParts ==
    ASSUME NEW S, NEW s \in Seq(S), NEW t \in Seq(S)
    PROVE  /\ Len(Cat(s, t)) = Len(s) + Len(t)
           /\ \A i \in 1 .. Len(s) : Cat(s, t)[i] = s[i]
           /\ \A i \in 1 .. Len(t) : Cat(s, t)[Len(s) + i] = t[i]
<1>1. /\ Len(s \o t) = Len(s) + Len(t)
      /\ \A i \in 1 .. Len(s) + Len(t) : (s \o t)[i] = IF i <= Len(s) THEN s[i] ELSE t[i - Len(s)]
  BY ConcatProperties
<1>2. Len(s) \in Nat /\ Len(t) \in Nat
  OBVIOUS
<1> DEFINE c == s \o t
<1> HIDE DEF c
<1>3. /\ Len(c) = Len(s) + Len(t)
      /\ \A i \in 1 .. Len(s) + Len(t) : c[i] = IF i <= Len(s) THEN s[i] ELSE t[i - Len(s)]
  BY <1>1 DEF c
<1>4. ASSUME NEW i \in 1 .. Len(s) PROVE c[i] = s[i]
  BY <1>2, <1>3
<1>5. ASSUME NEW i \in 1 .. Len(t) PROVE c[Len(s) + i] = t[i]
  <2>1. Len(s) + i \in 1 .. Len(s) + Len(t) /\ ~ (Len(s) + i <= Len(s)) /\ Len(s) + i - Len(s) = i
    BY <1>2
  <2> QED BY <1>3, <2>1
<1> QED BY <1>3, <1>4, <1>5 DEF c, Cat

\* A sequence with the elements of two others in a row is the two of them.
LEMMA CatEqual ==
    ASSUME NEW S, NEW s \in Seq(S), NEW t \in Seq(S), NEW u \in Seq(S),
           Len(u) = Len(s) + Len(t),
           \A i \in 1 .. Len(s) : u[i] = s[i],
           \A i \in 1 .. Len(t) : u[Len(s) + i] = t[i]
    PROVE  u = Cat(s, t)
<1> DEFINE c == Cat(s, t)
<1>1. c \in Seq(S)
  BY CatType
<1>2. /\ Len(c) = Len(s) + Len(t)
      /\ \A i \in 1 .. Len(s) : c[i] = s[i]
      /\ \A i \in 1 .. Len(t) : c[Len(s) + i] = t[i]
  BY CatParts
<1> HIDE DEF c
<1>3. ASSUME NEW i \in 1 .. Len(u) PROVE u[i] = c[i]
  <2>0. Len(s) \in Nat /\ Len(t) \in Nat
    OBVIOUS
  <2>1. CASE i <= Len(s)
    BY <1>2, <2>0, <2>1
  <2>2. CASE ~ (i <= Len(s))
    <3>1. PICK j \in 1 .. Len(t) : i = Len(s) + j
      <4>1. i - Len(s) \in 1 .. Len(t) /\ i = Len(s) + (i - Len(s))
        BY <2>0, <2>2
      <4> QED BY <4>1
    <3> QED BY <1>2, <3>1
  <2> QED BY <2>1, <2>2
<1>4. u = c
  BY <1>1, <1>2, <1>3, SeqEqual
<1> QED BY <1>4 DEF c

\* Free, text by text.
LEMMA FreeCat ==
    ASSUME NEW S, NEW s \in Seq(S), NEW t \in Seq(S), NEW b
    PROVE  Free(Cat(s, t), b) <=> Free(s, b) /\ Free(t, b)
<1> DEFINE c == Cat(s, t)
<1>1. /\ Len(c) = Len(s) + Len(t)
      /\ \A i \in 1 .. Len(s) : c[i] = s[i]
      /\ \A i \in 1 .. Len(t) : c[Len(s) + i] = t[i]
  BY CatParts
<1>2. Len(s) \in Nat /\ Len(t) \in Nat
  OBVIOUS
<1> HIDE DEF c
<1>3. ASSUME Free(c, b) PROVE Free(s, b)
  BY <1>1, <1>2, <1>3 DEF Free
<1>4. ASSUME Free(c, b) PROVE Free(t, b)
  <2>1. ASSUME NEW i \in 1 .. Len(t) PROVE t[i] # b
    <3>1. Len(s) + i \in 1 .. Len(c)
      BY <1>1, <1>2
    <3> QED BY <1>1, <1>4, <3>1 DEF Free
  <2> QED BY <2>1 DEF Free
<1>5. ASSUME Free(s, b), Free(t, b) PROVE Free(c, b)
  <2>1. ASSUME NEW i \in 1 .. Len(c) PROVE c[i] # b
    <3>1. CASE i <= Len(s)
      BY <1>1, <1>2, <1>5, <3>1 DEF Free
    <3>2. CASE ~ (i <= Len(s))
      <4>1. i - Len(s) \in 1 .. Len(t) /\ i = Len(s) + (i - Len(s))
        BY <1>1, <1>2, <3>2
      <4>2. c[i] = t[i - Len(s)]
        BY <1>1, <4>1
      <4> QED BY <1>5, <4>1, <4>2 DEF Free
    <3> QED BY <3>1, <3>2
  <2> QED BY <2>1 DEF Free
<1> QED BY <1>3, <1>4, <1>5 DEF c

\* What strings.Cut finds: the text up to the first b, and the text after it.
LEMMA CutAt ==
    ASSUME NEW S, NEW s \in Seq(S), NEW b \in S, NEW t \in Seq(S), Free(s, b)
    PROVE  /\ Positions(s, b) = {} /\ Before(s, b) = s
           /\ Positions(Cat(Add(s, b), t), b) # {}
           /\ Before(Cat(Add(s, b), t), b) = s
           /\ After(Cat(Add(s, b), t), b) = t
<1> DEFINE a == Add(s, b)
           c == Cat(a, t)
           n == Len(s)
<1>0. n \in Nat /\ Len(t) \in Nat
  OBVIOUS
<1>1. a \in Seq(S) /\ Len(a) = n + 1 /\ a[n + 1] = b /\ \A i \in 1 .. n : a[i] = s[i]
  BY AddType, LastAdd
<1>2. c \in Seq(S) /\ Len(c) = n + 1 + Len(t)
      /\ (\A i \in 1 .. n + 1 : c[i] = a[i]) /\ \A i \in 1 .. Len(t) : c[n + 1 + i] = t[i]
  <2> HIDE DEF a, n
  <2>1. c \in Seq(S)
    BY <1>1, CatType
  <2>2. /\ Len(c) = Len(a) + Len(t)
        /\ \A i \in 1 .. Len(a) : c[i] = a[i]
        /\ \A i \in 1 .. Len(t) : c[Len(a) + i] = t[i]
    <3>1. a \in Seq(S)
      BY <1>1
    <3> QED BY <3>1, CatParts
  <2> HIDE DEF c
  <2> QED BY <1>1, <2>1, <2>2
<1> HIDE DEF a, c, n
<1>3. DOMAIN c = 1 .. Len(c) /\ DOMAIN s = 1 .. n
  BY <1>2 DEF n
<1>4. Positions(s, b) = {} /\ Before(s, b) = s
  BY <1>3 DEF Positions, Before, Free, n
<1>5. n + 1 \in Positions(c, b)
  BY <1>0, <1>1, <1>2, <1>3 DEF Positions
<1>6. ASSUME NEW i \in Positions(c, b) PROVE n + 1 <= i
  <2>1. i \in 1 .. Len(c) /\ c[i] = b
    BY <1>3 DEF Positions
  <2>2. ASSUME i <= n PROVE FALSE
    <3>1. c[i] = s[i] /\ i \in 1 .. Len(s)
      BY <1>0, <1>1, <1>2, <2>1, <2>2 DEF n
    <3> QED BY <2>1, <3>1 DEF Free
  <2> QED BY <1>0, <1>2, <2>1, <2>2
<1>7. Min(Positions(c, b)) = n + 1
  <2>1. \A i \in Positions(c, b) : i \in Int
    BY <1>0, <1>2, <1>3 DEF Positions
  <2> QED BY <1>0, <1>5, <1>6, <2>1 DEF Min
<1>8. Before(c, b) = s
  <2>1. Before(c, b) = SubSeq(c, 1, n)
    <3>1. Before(c, b) = SubSeq(c, 1, Min(Positions(c, b)) - 1)
      BY <1>5 DEF Before
    <3>2. Min(Positions(c, b)) - 1 = n
      BY <1>0, <1>7
    <3> QED BY <3>1, <3>2, Zenon
  <2>2. SubSeq(c, 1, n) = s
    <3> DEFINE q == SubSeq(c, 1, n)
    <3>1. /\ q \in Seq(S) /\ Len(q) = (IF 1 <= n THEN n - 1 + 1 ELSE 0)
          /\ \A i \in 1 .. n - 1 + 1 : q[i] = c[1 + i - 1]
      <4>1. \A i \in 1 .. n : c[i] \in S
        BY <1>0, <1>2
      <4> QED BY <1>0, <4>1, SubSeqProperties
    <3> HIDE DEF q
    <3>2. Len(q) = n
      <4>1. \A m \in Nat : (IF 1 <= m THEN m - 1 + 1 ELSE 0) = m
        OBVIOUS
      <4> QED BY <1>0, <3>1, <4>1, Zenon
    <3>3. ASSUME NEW i \in 1 .. n PROVE q[i] = s[i]
      <4>1. i \in 1 .. n - 1 + 1 /\ 1 + i - 1 = i /\ i \in 1 .. n + 1
        BY <1>0
      <4> QED BY <1>1, <1>2, <3>1, <4>1
    <3>4. q = s
      BY <3>1, <3>2, <3>3, SeqEqual DEF n
    <3> QED BY <3>4 DEF q
  <2> QED BY <2>1, <2>2
<1>9. After(c, b) = t
  <2>1. After(c, b) = SubSeq(c, n + 2, Len(c))
    BY <1>8 DEF After, n
  <2> DEFINE q == SubSeq(c, n + 2, Len(c))
             m == Len(t)
  <2>2. /\ q \in Seq(S) /\ Len(q) = (IF n + 2 <= Len(c) THEN Len(c) - (n + 2) + 1 ELSE 0)
        /\ \A i \in 1 .. Len(c) - (n + 2) + 1 : q[i] = c[n + 2 + i - 1]
    <3>1. n + 2 \in Int /\ Len(c) \in Int /\ \A i \in n + 2 .. Len(c) : c[i] \in S
      BY <1>0, <1>2
    <3> QED BY <3>1, SubSeqProperties
  <2> HIDE DEF q, m
  <2>3. m \in Nat /\ Len(c) = n + 1 + m
    BY <1>0, <1>2 DEF m
  <2>4. Len(q) = m
    <3>1. \A j, k, l \in Nat : l = j + 1 + k => (IF j + 2 <= l THEN l - (j + 2) + 1 ELSE 0) = k
      OBVIOUS
    <3>2. Len(q) = (IF n + 2 <= Len(c) THEN Len(c) - (n + 2) + 1 ELSE 0) /\ Len(c) \in Nat
      BY <1>0, <2>2, <2>3
    <3> QED BY <1>0, <2>3, <3>1, <3>2, Zenon
  <2>5. ASSUME NEW i \in 1 .. m PROVE q[i] = t[i]
    <3>1. i \in 1 .. Len(c) - (n + 2) + 1 /\ n + 2 + i - 1 = n + 1 + i
      BY <1>0, <2>3
    <3>2. q[i] = c[n + 1 + i]
      BY <2>2, <3>1
    <3> QED BY <1>2, <3>2 DEF m
  <2>6. q = t
    BY <2>2, <2>4, <2>5, SeqEqual DEF m
  <2> QED BY <2>1, <2>6 DEF q
<1> QED BY <1>4, <1>5, <1>8, <1>9 DEF a, c

\* And what it finds is the whole text.
LEMMA CutWhole ==
    ASSUME NEW S, NEW r \in Seq(S), NEW b \in S, Positions(r, b) # {}
    PROVE  /\ Before(r, b) \in Seq(S) /\ After(r, b) \in Seq(S) /\ Free(Before(r, b), b)
           /\ r = Cat(Add(Before(r, b), b), After(r, b))
<1>1. PICK m \in Positions(r, b) : \A i \in Positions(r, b) : m <= i
  <2>1. Positions(r, b) \subseteq Nat
    BY DEF Positions
  <2> QED BY <2>1, Least
<1>2. m \in 1 .. Len(r) /\ r[m] = b /\ Len(r) \in Nat /\ Min(Positions(r, b)) = m
  <2>1. DOMAIN r = 1 .. Len(r) /\ Len(r) \in Nat
    OBVIOUS
  <2>2. \A i \in Positions(r, b) : i \in Int
    BY <2>1 DEF Positions
  <2> QED BY <1>1, <2>1, <2>2 DEF Positions, Min
<1> DEFINE s == SubSeq(r, 1, m - 1)
           t == SubSeq(r, m + 1, Len(r))
<1>3. s \in Seq(S) /\ Len(s) = m - 1 /\ \A i \in 1 .. m - 1 : s[i] = r[i]
  <2>1. m - 1 \in Int /\ \A i \in 1 .. m - 1 : r[i] \in S
    BY <1>2
  <2>2. s \in Seq(S) /\ Len(s) = (IF 1 <= m - 1 THEN m - 1 - 1 + 1 ELSE 0)
        /\ \A i \in 1 .. m - 1 - 1 + 1 : s[i] = r[1 + i - 1]
    BY <2>1, SubSeqProperties
  <2> HIDE DEF s
  <2>3. Len(s) = m - 1
    <3>1. \A k \in Nat : k >= 1 => (IF 1 <= k - 1 THEN k - 1 - 1 + 1 ELSE 0) = k - 1
      OBVIOUS
    <3>2. m \in Nat /\ m >= 1
      BY <1>2
    <3> QED BY <2>2, <3>1, <3>2, Zenon
  <2>4. ASSUME NEW i \in 1 .. m - 1 PROVE s[i] = r[i]
    <3>1. i \in 1 .. m - 1 - 1 + 1 /\ 1 + i - 1 = i
      BY <1>2
    <3> QED BY <2>2, <3>1
  <2> QED BY <2>2, <2>3, <2>4
<1>4. t \in Seq(S) /\ Len(t) = Len(r) - m /\ \A i \in 1 .. Len(t) : t[i] = r[m + i]
  <2>1. m + 1 \in Int /\ Len(r) \in Int /\ \A i \in m + 1 .. Len(r) : r[i] \in S
    BY <1>2
  <2>2. t \in Seq(S) /\ Len(t) = (IF m + 1 <= Len(r) THEN Len(r) - (m + 1) + 1 ELSE 0)
        /\ \A i \in 1 .. Len(r) - (m + 1) + 1 : t[i] = r[m + 1 + i - 1]
    BY <2>1, SubSeqProperties
  <2> HIDE DEF t
  <2>3. Len(t) = Len(r) - m
    <3>1. \A k, l \in Nat : k <= l => (IF k + 1 <= l THEN l - (k + 1) + 1 ELSE 0) = l - k
      OBVIOUS
    <3>2. m \in Nat /\ m <= Len(r)
      BY <1>2
    <3> QED BY <1>2, <2>2, <3>1, <3>2, Zenon
  <2>4. ASSUME NEW i \in 1 .. Len(t) PROVE t[i] = r[m + i]
    <3>1. i \in 1 .. Len(r) - (m + 1) + 1 /\ m + 1 + i - 1 = m + i
      BY <1>2, <2>3
    <3> QED BY <2>2, <3>1
  <2> QED BY <2>2, <2>3, <2>4
<1>5. Before(r, b) = s
  BY <1>2 DEF Before
<1>6. After(r, b) = t
  <2>1. Len(Before(r, b)) + 2 = m + 1
    <3> HIDE DEF s
    <3> QED BY <1>2, <1>3, <1>5
  <2>2. After(r, b) = SubSeq(r, Len(Before(r, b)) + 2, Len(r))
    BY DEF After
  <2> QED BY <2>1, <2>2, Zenon
<1> HIDE DEF s, t
<1>7. Free(s, b)
  <2>1. ASSUME NEW i \in 1 .. Len(s), s[i] = b PROVE FALSE
    <3>1. i \in Positions(r, b) /\ i < m
      BY <1>2, <1>3, <2>1 DEF Positions
    <3> QED BY <1>1, <1>2, <3>1
  <2> QED BY <2>1 DEF Free
<1>8. r = Cat(Add(s, b), t)
  <2> DEFINE a == Add(s, b)
  <2>1. a \in Seq(S) /\ Len(a) = Len(s) + 1 /\ a[Len(s) + 1] = b /\ \A i \in 1 .. Len(s) : a[i] = s[i]
    BY <1>3, AddType, LastAdd
  <2> HIDE DEF a
  <2>2. Len(a) = m
    BY <1>2, <1>3, <2>1
  <2>3. Len(r) = Len(a) + Len(t)
    BY <1>2, <1>4, <2>2
  <2>4. ASSUME NEW i \in 1 .. Len(a) PROVE r[i] = a[i]
    <3>1. CASE i = m
      BY <1>2, <1>3, <2>1, <3>1
    <3>2. CASE i # m
      <4>1. i \in 1 .. m - 1
        BY <1>2, <2>2, <3>2
      <4> QED BY <1>3, <2>1, <4>1
    <3> QED BY <3>1, <3>2
  <2>5. \A i \in 1 .. Len(t) : r[Len(a) + i] = t[i]
    BY <1>4, <2>2
  <2>6. r = Cat(a, t)
    BY <1>4, <2>1, <2>3, <2>4, <2>5, CatEqual
  <2> QED BY <2>6 DEF a
<1> QED BY <1>3, <1>4, <1>5, <1>6, <1>7, <1>8

--------------------------------------------------------------------------------
(* url.PathEscape and url.PathUnescape *)

Byte == 0 .. 255

\* Text, by its set of bytes.
LEMMA TextDef == Text = Seq(Byte)
  BY DEF Text, Byte

\* A hex digit has the value it was written for.
LEMMA HexRoundTrip ==
    ASSUME NEW n \in 0 .. 15
    PROVE  /\ HexDigit(n) \in Byte /\ IsHex(HexDigit(n)) /\ HexValue(HexDigit(n)) = n
           /\ HexDigit(n) # Slash /\ HexDigit(n) # Percent
  BY DEF HexDigit, IsHex, HexValue, Digit, Byte, Slash, Percent

\* An escape spells its byte, and no escape has a slash in it.
LEMMA EscapedByteShape ==
    ASSUME NEW e \in Byte
    PROVE  /\ EscapedByte(e) \in Text /\ Free(EscapedByte(e), Slash)
           /\ \/ EscapedByte(e) = <<e>> /\ e # Percent
              \/ \E h1, h2 \in Byte :
                     /\ EscapedByte(e) = <<Percent, h1, h2>>
                     /\ IsHex(h1) /\ IsHex(h2) /\ h1 # Percent /\ h2 # Percent
                     /\ 16 * HexValue(h1) + HexValue(h2) = e
<1>1. CASE e \in Unescaped
  <2>1. EscapedByte(e) = <<e>>
    BY <1>1 DEF EscapedByte
  <2>2. e # Slash /\ e # Percent
    BY <1>1 DEF Unescaped, Digit, Lower, Upper, Slash, Percent
  <2> QED BY <2>1, <2>2 DEF Free, Text, Byte
<1>2. CASE e \notin Unescaped
  <2> DEFINE h1 == HexDigit(e \div 16)
             h2 == HexDigit(e % 16)
  <2>1. e \div 16 \in 0 .. 15 /\ e % 16 \in 0 .. 15 /\ 16 * (e \div 16) + (e % 16) = e
    BY DEF Byte
  <2>2. /\ h1 \in Byte /\ IsHex(h1) /\ HexValue(h1) = e \div 16 /\ h1 # Slash /\ h1 # Percent
        /\ h2 \in Byte /\ IsHex(h2) /\ HexValue(h2) = e % 16 /\ h2 # Slash /\ h2 # Percent
    BY <2>1, HexRoundTrip
  <2>3. EscapedByte(e) = <<Percent, h1, h2>>
    BY <1>2 DEF EscapedByte
  <2> HIDE DEF h1, h2
  <2>4. Percent \in Byte /\ Percent # Slash
    BY DEF Percent, Byte, Slash
  <2>5. 16 * HexValue(h1) + HexValue(h2) = e
    BY <2>1, <2>2
  <2>6. EscapedByte(e) \in Text /\ Free(EscapedByte(e), Slash)
    BY <2>2, <2>3, <2>4 DEF Free, Text, Byte
  <2> QED BY <2>2, <2>3, <2>5, <2>6
<1> QED BY <1>1, <1>2

\* PathEscape, byte by byte.
LEMMA EscapeAdd ==
    ASSUME NEW s \in Text, NEW e \in Byte
    PROVE  /\ PathEscape(<< >>) = << >> /\ PathEscape(s) \in Text
           /\ PathEscape(Add(s, e)) = Cat(PathEscape(s), EscapedByte(e))
<1> DEFINE Escapes(r) == [i \in DOMAIN r |-> EscapedByte(r[i])]
           t == Add(s, e)
           n == Len(s)
<1>1. t \in Text /\ Len(t) = n + 1 /\ t[n + 1] = e /\ \A i \in 1 .. n : t[i] = s[i]
  <2>1. s \in Seq(Byte)
    BY TextDef
  <2>2. t \in Seq(Byte)
    BY <2>1, AddType
  <2>3. Len(t) = n + 1 /\ t[n + 1] = e /\ \A i \in 1 .. n : t[i] = s[i]
    BY <2>1, LastAdd
  <2> QED BY <2>2, <2>3, TextDef
<1>2. ASSUME NEW r \in Text
      PROVE  /\ Escapes(r) \in Seq(Text) /\ Len(Escapes(r)) = Len(r)
             /\ \A i \in 1 .. Len(r) : Escapes(r)[i] = EscapedByte(r[i])
  <2>1. DOMAIN r = 1 .. Len(r) /\ Len(r) \in Nat /\ \A i \in 1 .. Len(r) : r[i] \in Byte
    BY TextDef, ElementOfSeq, LenProperties
  <2>2. \A i \in 1 .. Len(r) : EscapedByte(r[i]) \in Text
    BY <2>1, EscapedByteShape
  <2>3. Escapes(r) = [i \in 1 .. Len(r) |-> EscapedByte(r[i])]
    BY <2>1
  <2> HIDE DEF Escapes
  <2> QED BY <2>1, <2>2, <2>3
<1> HIDE DEF t, n
<1>3. Escapes(t) = Add(Escapes(s), EscapedByte(e))
  <2> DEFINE v == Escapes(t)
             w == Escapes(s)
             x == EscapedByte(e)
  <2>0. n \in Nat /\ n = Len(s)
    BY DEF n, Text
  <2> HIDE DEF Escapes
  <2>1. v \in Seq(Text) /\ w \in Seq(Text) /\ Len(v) = n + 1 /\ Len(w) = n
    BY <1>1, <1>2, <2>0
  <2>2. x \in Text
    BY EscapedByteShape
  <2>3. v[n + 1] = x
    <3>1. n + 1 \in 1 .. Len(t)
      BY <1>1, <2>0
    <3> QED BY <1>1, <1>2, <3>1
  <2>4. ASSUME NEW i \in 1 .. n PROVE v[i] = w[i]
    <3>1. i \in 1 .. Len(t) /\ i \in 1 .. Len(s)
      BY <1>1, <2>0
    <3> QED BY <1>1, <1>2, <3>1
  <2> HIDE DEF v, w, x
  <2>5. v = Add(w, x)
    BY <2>1, <2>2, <2>3, <2>4, AddEqual
  <2> QED BY <2>5 DEF v, w, x
<1>4. PathEscape(t) = FlattenSeq(Escapes(t)) /\ PathEscape(s) = FlattenSeq(Escapes(s))
  BY DEF PathEscape
<1>5. /\ FlattenSeq(Escapes(s)) \in Text
      /\ FlattenSeq(Escapes(t)) = Cat(FlattenSeq(Escapes(s)), EscapedByte(e))
  <2> HIDE DEF Escapes
  <2>1. Escapes(s) \in Seq(Seq(Byte)) /\ EscapedByte(e) \in Seq(Byte)
    BY <1>2, EscapedByteShape DEF Text, Byte
  <2>2. /\ FlattenSeq(Escapes(s)) \in Seq(Byte)
        /\ FlattenSeq(Add(Escapes(s), EscapedByte(e))) = Cat(FlattenSeq(Escapes(s)), EscapedByte(e))
    BY <2>1, FlattenAdd
  <2> QED BY <1>3, <2>2 DEF Text, Byte
<1>6. PathEscape(<< >>) = << >>
  <2>1. FlattenSeq(<< >>) = << >>
    <3>1. << >> \in Seq(Seq(Byte)) /\ << >> \in Seq(Byte)
      OBVIOUS
    <3> QED BY <3>1, FlattenAdd
  <2> QED BY <2>1 DEF PathEscape
<1> QED BY <1>4, <1>5, <1>6 DEF t

\* An escaped text has no slash: url.PathEscape escapes it.
LEMMA EscapeFree ==
    ASSUME NEW s \in Text
    PROVE  PathEscape(s) \in Text /\ Free(PathEscape(s), Slash)
<1> DEFINE T == {r \in Text : PathEscape(r) \in Text /\ Free(PathEscape(r), Slash)}
<1>1. << >> \in T
  <2>1. << >> \in Text /\ 0 \in Byte
    BY DEF Text, Byte
  <2>2. PathEscape(<< >>) = << >>
    BY <2>1, EscapeAdd
  <2> QED BY <2>1, <2>2 DEF Free
<1>2. ASSUME NEW r \in Text, NEW e \in Byte, r \in T PROVE Add(r, e) \in T
  <2>1. PathEscape(Add(r, e)) = Cat(PathEscape(r), EscapedByte(e))
    BY EscapeAdd
  <2>2. Add(r, e) \in Text
    BY AddType DEF Text, Byte
  <2> DEFINE p == PathEscape(r)
             x == EscapedByte(e)
  <2>3. p \in Text /\ Free(p, Slash) /\ x \in Text /\ Free(x, Slash)
    BY <1>2, EscapedByteShape
  <2> HIDE DEF p, x
  <2>4. Cat(p, x) \in Text /\ Free(Cat(p, x), Slash)
    BY <2>3, CatType, FreeCat DEF Text
  <2> QED BY <2>1, <2>2, <2>4 DEF p, x
<1>3. \A r \in Text : r \in T
  <2> HIDE DEF T
  <2> QED BY <1>1, <1>2, EveryText DEF Text, Byte
<1> QED BY <1>3

Escapes(p) == {i \in DOMAIN p : p[i] = Percent}

HexPlaces(p) == {i + 1 : i \in Escapes(p)} \cup {i + 2 : i \in Escapes(p)}

ByteAt(p, i) == IF i \in Escapes(p) THEN 16 * HexValue(p[i + 1]) + HexValue(p[i + 2]) ELSE p[i]

ReadAt(p, u, n) ==
    IF n = 0 THEN << >>
    ELSE IF n \in HexPlaces(p) THEN u[n - 1] ELSE Append(u[n - 1], ByteAt(p, n))

\* u holds what PathUnescape has read of p after each of its bytes.
Reads(p, u) == u = [n \in 0 .. Len(p) |-> ReadAt(p, u, n)]

Spelt(p) == \A i \in HexPlaces(p) : i \in DOMAIN p /\ IsHex(p[i])

\* PathUnescape returns what such a reading ends with.
LEMMA UnescapeReads ==
    ASSUME NEW p \in Text, Spelt(p), NEW u, Reads(p, u)
    PROVE  PathUnescape(p) = u[Len(p)]
<1>1. PathUnescape(p) = (CHOOSE f : Reads(p, f))[Len(p)]
  BY DEF PathUnescape, Reads, ReadAt, ByteAt, HexPlaces, Escapes, Spelt
<1>2. PICK f : f = (CHOOSE g : Reads(p, g)) /\ Reads(p, f)
  OBVIOUS
<1>0. Len(p) \in Nat
  BY TextDef
<1>3. \A n \in 0 .. Len(p) : f[n] = ReadAt(p, f, n) /\ u[n] = ReadAt(p, u, n)
  BY <1>2 DEF Reads
<1> DEFINE P == {n \in 0 .. Len(p) : f[n] = u[n]}
<1>4. 0 \in P
  BY <1>0, <1>3 DEF ReadAt
<1>5. ASSUME NEW n \in 0 .. Len(p) - 1, n \in P PROVE n + 1 \in P
  <2>1. n + 1 \in 0 .. Len(p) /\ f[(n + 1) - 1] = u[(n + 1) - 1]
    BY <1>0, <1>5
  <2>2. ReadAt(p, f, n + 1) = ReadAt(p, u, n + 1)
    BY <2>1, Zenon DEF ReadAt
  <2> QED BY <1>3, <2>1, <2>2
<1>6. \A n \in 0 .. Len(p) : n \in P
  <2> HIDE DEF P
  <2>1. \A n \in 0 .. Len(p) - 1 : n \in P => n + 1 \in P
    BY <1>5
  <2> QED BY <1>0, <1>4, <2>1, UpTo, Zenon
<1>7. Len(p) \in P
  BY <1>0, <1>6
<1>8. f[Len(p)] = u[Len(p)]
  BY <1>7
<1> QED BY <1>1, <1>2, <1>8, Zenon

\* A longer text with the same bytes up to the end of p is read the same so far.
LEMMA ReadsPrefix ==
    ASSUME NEW p \in Text, Spelt(p), NEW q \in Text, Len(p) <= Len(q),
           \A i \in 1 .. Len(p) : q[i] = p[i], NEW n \in 1 .. Len(p)
    PROVE  /\ n \in Escapes(q) <=> n \in Escapes(p)
           /\ n \in HexPlaces(q) <=> n \in HexPlaces(p)
           /\ ByteAt(q, n) = ByteAt(p, n)
<1>0. Len(p) \in Nat /\ Len(q) \in Nat /\ DOMAIN p = 1 .. Len(p) /\ DOMAIN q = 1 .. Len(q)
  BY TextDef, LenProperties
<1>1. \A i \in 1 .. Len(p) : i \in Escapes(q) <=> i \in Escapes(p)
  BY <1>0 DEF Escapes
<1>2. \A i \in Escapes(p) : i \in 1 .. Len(p) /\ i + 1 \in 1 .. Len(p) /\ i + 2 \in 1 .. Len(p)
  BY <1>0 DEF Escapes, HexPlaces, Spelt
<1>3. n \in HexPlaces(p) => n \in HexPlaces(q)
  BY <1>1, <1>2 DEF HexPlaces
<1>4. ASSUME n \in HexPlaces(q) PROVE n \in HexPlaces(p)
  <2>1. PICK i \in Escapes(q) : n = i + 1 \/ n = i + 2
    BY <1>4 DEF HexPlaces
  <2>2. i \in 1 .. Len(q)
    BY <1>0 DEF Escapes
  <2>3. i \in 1 .. Len(p)
    BY <1>0, <2>1, <2>2
  <2>4. i \in Escapes(p)
    BY <1>1, <2>3
  <2> QED BY <2>1, <2>4 DEF HexPlaces
<1>5. ByteAt(q, n) = ByteAt(p, n)
  <2>1. CASE n \in Escapes(p)
    <3>1. q[n + 1] = p[n + 1] /\ q[n + 2] = p[n + 2] /\ n \in Escapes(q)
      BY <1>1, <1>2, <2>1
    <3> QED BY <2>1, <3>1 DEF ByteAt
  <2>2. CASE n \notin Escapes(p)
    BY <1>1, <2>2 DEF ByteAt
  <2> QED BY <2>1, <2>2
<1> QED BY <1>1, <1>3, <1>4, <1>5

\* Once p has been read and q goes on with one byte e, spelt as it is or as an
\* escape, e is what is read next.
LEMMA ReadsMore ==
    ASSUME NEW p \in Text, Spelt(p), NEW q \in Text, Len(p) < Len(q),
           \A i \in 1 .. Len(p) : q[i] = p[i],
           NEW u, Reads(p, u), NEW e,
           Len(p) + 1 \notin HexPlaces(q), ByteAt(q, Len(p) + 1) = e,
           \A i \in Len(p) + 2 .. Len(q) : i \in HexPlaces(q)
    PROVE  \E v : Reads(q, v) /\ v[Len(q)] = Add(u[Len(p)], e)
<1> DEFINE n == Len(p)
           x == Append(u[n], e)
           v == [k \in 0 .. Len(q) |-> IF k <= n THEN u[k] ELSE x]
<1>0. n \in Nat /\ Len(q) \in Nat /\ n < Len(q)
  BY TextDef
<1>1. \A k \in 0 .. n : u[k] = ReadAt(p, u, k)
  BY DEF Reads
<1>2. ASSUME NEW k \in 0 .. Len(q) PROVE v[k] = ReadAt(q, v, k)
  <2> HIDE DEF x, n
  <2>1. CASE k = 0
    BY <1>0, <1>1, <2>1 DEF ReadAt
  <2>2. CASE k \in 1 .. n
    <3>1. v[k] = u[k] /\ v[k - 1] = u[k - 1] /\ k # 0 /\ k \in 0 .. n
      BY <1>0, <2>2
    <3>2. (k \in HexPlaces(q) <=> k \in HexPlaces(p)) /\ ByteAt(q, k) = ByteAt(p, k)
      <4>1. Len(p) <= Len(q) /\ k \in 1 .. Len(p)
        BY <1>0, <2>2 DEF n
      <4> QED BY <4>1, ReadsPrefix
    <3>3. u[k] = ReadAt(p, u, k)
      BY <1>1, <3>1
    <3> HIDE DEF v
    <3> QED BY <3>1, <3>2, <3>3, Zenon DEF ReadAt
  <2>3. CASE k = n + 1
    <3>1. v[k] = x /\ v[k - 1] = u[n] /\ k # 0
      BY <1>0, <2>3
    <3>2. k \notin HexPlaces(q) /\ ByteAt(q, k) = e
      BY <2>3 DEF n
    <3> HIDE DEF v
    <3> QED BY <3>1, <3>2, Zenon DEF ReadAt, x
  <2>4. CASE k \in n + 2 .. Len(q)
    <3>1. v[k] = x /\ v[k - 1] = x /\ k # 0
      BY <1>0, <2>4
    <3>2. k \in HexPlaces(q)
      BY <2>4 DEF n
    <3> HIDE DEF v
    <3> QED BY <3>1, <3>2, Zenon DEF ReadAt
  <2> QED BY <1>0, <2>1, <2>2, <2>3, <2>4
<1>3. v[Len(q)] = x
  <2> HIDE DEF x, n
  <2> QED BY <1>0
<1>4. Reads(q, v)
  <2>1. v = [k \in 0 .. Len(q) |-> v[k]]
    OBVIOUS
  <2> HIDE DEF v
  <2> QED BY <1>2, <2>1 DEF Reads
<1> HIDE DEF v
<1> QED BY <1>3, <1>4 DEF Add, x, n

\* A text as it is spelt in a URI is read back as it was.
Whole(p, r) == p \in Text /\ Spelt(p) /\ \E u : Reads(p, u) /\ u[Len(p)] = r

\* The empty text is read as the empty text.
LEMMA WholeNil == Whole(<< >>, << >>)
<1> DEFINE u == [n \in 0 .. 0 |-> << >>]
<1>1. << >> \in Text /\ Len(<< >>) = 0 /\ DOMAIN << >> = {}
  BY DEF Text
<1>2. Spelt(<< >>)
  BY <1>1 DEF Spelt, HexPlaces, Escapes
<1>3. u[0] = << >> /\ u = [n \in 0 .. 0 |-> ReadAt(<< >>, u, n)]
  BY DEF ReadAt
<1>4. Reads(<< >>, u)
  <2> HIDE DEF u
  <2> QED BY <1>1, <1>3 DEF Reads
<1> HIDE DEF u
<1> QED BY <1>1, <1>2, <1>3, <1>4 DEF Whole

\* One byte more, escaped or not, is read as that byte.
LEMMA WholeAdd ==
    ASSUME NEW p, NEW r, Whole(p, r), NEW e \in Byte
    PROVE  Whole(Cat(p, EscapedByte(e)), Add(r, e))
<1> DEFINE x == EscapedByte(e)
           q == Cat(p, x)
           n == Len(p)
<1>0. p \in Text /\ Spelt(p) /\ n \in Nat /\ DOMAIN p = 1 .. n
  BY TextDef, LenProperties DEF Whole
<1>1. PICK u : Reads(p, u) /\ u[n] = r
  BY DEF Whole
<1>2. x \in Text
  BY EscapedByteShape
<1>3. /\ q \in Text /\ Len(q) = n + Len(x) /\ DOMAIN q = 1 .. Len(q)
      /\ \A i \in 1 .. n : q[i] = p[i]
      /\ \A i \in 1 .. Len(x) : q[n + i] = x[i]
  <2>1. p \in Seq(Byte) /\ x \in Seq(Byte)
    BY <1>0, <1>2, TextDef
  <2> HIDE DEF x
  <2>2. /\ q \in Seq(Byte) /\ Len(q) = n + Len(x)
        /\ \A i \in 1 .. n : q[i] = p[i]
        /\ \A i \in 1 .. Len(x) : q[n + i] = x[i]
    <3>1. q \in Seq(Byte)
      BY <2>1, CatType
    <3>2. Len(q) = n + Len(x)
      BY <2>1, CatParts
    <3>3. \A i \in 1 .. n : q[i] = p[i]
      BY <2>1, CatParts
    <3>4. \A i \in 1 .. Len(x) : q[n + i] = x[i]
      BY <2>1, CatParts
    <3> HIDE DEF q, n
    <3> QED BY <3>1, <3>2, <3>3, <3>4
  <2> HIDE DEF q
  <2>3. DOMAIN q = 1 .. Len(q)
    BY <2>2, LenProperties
  <2> QED BY <2>2, <2>3, TextDef
<1>4. \A i \in Escapes(p) : i \in 1 .. n /\ i + 1 \in 1 .. n /\ i + 2 \in 1 .. n
  BY <1>0 DEF Escapes, HexPlaces, Spelt
<1> HIDE DEF q, n
<1>6. \A i \in 1 .. n : i \in HexPlaces(p) => i \in DOMAIN q /\ IsHex(q[i])
  <2>1. \A i \in 1 .. n : i \in 1 .. Len(q)
    <3>1. Len(x) \in Nat
      BY <1>2, TextDef
    <3> HIDE DEF x
    <3> QED BY <1>0, <1>3, <3>1
  <2> QED BY <1>0, <1>3, <2>1 DEF Spelt
<1>7. CASE x = <<e>> /\ e # Percent
  <2>1. Len(x) = 1 /\ x[1] = e
    BY <1>7
  <2> HIDE DEF x
  <2>2. Len(q) = n + 1 /\ q[n + 1] = e
    BY <1>3, <2>1
  <2>3. Escapes(q) = Escapes(p)
    BY <1>0, <1>3, <1>7, <2>2 DEF Escapes
  <2>4. HexPlaces(q) = HexPlaces(p) /\ n + 1 \notin HexPlaces(q) /\ n + 1 \notin Escapes(q)
    BY <1>0, <1>4, <2>3 DEF HexPlaces
  <2>5. ByteAt(q, n + 1) = e
    BY <2>2, <2>4 DEF ByteAt
  <2>6. Spelt(q)
    BY <1>4, <1>6, <2>4 DEF Spelt, HexPlaces
  <2>7. \E v : Reads(q, v) /\ v[Len(q)] = Add(u[n], e)
    <3>1. n < Len(q) /\ \A i \in n + 2 .. Len(q) : i \in HexPlaces(q)
      BY <1>0, <2>2
    <3>2. /\ Len(p) < Len(q) /\ \A i \in 1 .. Len(p) : q[i] = p[i]
          /\ Len(p) + 1 \notin HexPlaces(q) /\ ByteAt(q, Len(p) + 1) = e
          /\ \A i \in Len(p) + 2 .. Len(q) : i \in HexPlaces(q)
      BY <1>3, <2>4, <2>5, <3>1 DEF n
    <3>3. p \in Text /\ Spelt(p) /\ q \in Text /\ Reads(p, u)
      BY <1>0, <1>1, <1>3
    <3> QED BY <3>2, <3>3, ReadsMore DEF n
  <2> QED BY <1>1, <1>3, <2>6, <2>7 DEF Whole, q, x
<1>8. CASE \E h1, h2 \in Byte :
                     /\ x = <<Percent, h1, h2>>
                     /\ IsHex(h1) /\ IsHex(h2) /\ h1 # Percent /\ h2 # Percent
                     /\ 16 * HexValue(h1) + HexValue(h2) = e
  <2>0. PICK h1, h2 \in Byte :
                     /\ x = <<Percent, h1, h2>>
                     /\ IsHex(h1) /\ IsHex(h2) /\ h1 # Percent /\ h2 # Percent
                     /\ 16 * HexValue(h1) + HexValue(h2) = e
    BY <1>8
  <2>1. Len(x) = 3 /\ x[1] = Percent /\ x[2] = h1 /\ x[3] = h2
    BY <2>0
  <2> HIDE DEF x
  <2>2. Len(q) = n + 3 /\ q[n + 1] = Percent /\ q[n + 2] = h1 /\ q[n + 3] = h2
    BY <1>3, <2>1
  <2>3. Escapes(q) = Escapes(p) \cup {n + 1}
    BY <1>0, <1>3, <2>0, <2>2 DEF Escapes
  <2>4. /\ \A i : i \in HexPlaces(q) => i \in HexPlaces(p) \/ i = n + 2 \/ i = n + 3
        /\ n + 2 \in HexPlaces(q) /\ n + 3 \in HexPlaces(q)
    <3>1. n + 2 = (n + 1) + 1 /\ n + 3 = (n + 1) + 2
      BY <1>0
    <3> QED BY <2>3, <3>1 DEF HexPlaces
  <2>5. n + 1 \in Escapes(q) /\ n + 1 \notin HexPlaces(q)
    <3>1. n + 1 \notin HexPlaces(p)
      BY <1>0, <1>4 DEF HexPlaces
    <3> QED BY <1>0, <2>3, <2>4, <3>1
  <2>6. ByteAt(q, n + 1) = e
    <3>1. (n + 1) + 1 = n + 2 /\ (n + 1) + 2 = n + 3
      BY <1>0
    <3> QED BY <2>0, <2>2, <2>5, <3>1, Zenon DEF ByteAt
  <2>7. Spelt(q)
    <3>1. n + 2 \in DOMAIN q /\ n + 3 \in DOMAIN q
      BY <1>0, <1>3, <2>2
    <3>2. \A i \in HexPlaces(p) : i \in 1 .. n
      BY <1>4 DEF HexPlaces
    <3> QED BY <1>6, <2>0, <2>2, <2>4, <3>1, <3>2 DEF Spelt
  <2>8. \E v : Reads(q, v) /\ v[Len(q)] = Add(u[n], e)
    <3>1. n < Len(q) /\ \A i \in n + 2 .. Len(q) : i = n + 2 \/ i = n + 3
      BY <1>0, <2>2
    <3>2. \A i \in n + 2 .. Len(q) : i \in HexPlaces(q)
      BY <2>4, <3>1
    <3> QED BY <1>0, <1>1, <1>3, <2>5, <2>6, <3>1, <3>2, ReadsMore DEF n
  <2> QED BY <1>1, <1>3, <2>7, <2>8 DEF Whole, q, x
<1> QED BY <1>7, <1>8, EscapedByteShape

\* url.PathUnescape undoes url.PathEscape: a segment is read from a URI as the
\* segment it was made of, whatever its bytes.
THEOREM UnescapeEscape ==
    ASSUME NEW s \in Text
    PROVE  PathUnescape(PathEscape(s)) = s
<1> DEFINE T == {r \in Text : Whole(PathEscape(r), r)}
<1>1. << >> \in T
  <2>1. << >> \in Text /\ 0 \in Byte
    BY DEF Text, Byte
  <2>2. PathEscape(<< >>) = << >>
    BY <2>1, EscapeAdd
  <2> QED BY <2>1, <2>2, WholeNil
<1>2. ASSUME NEW r \in Text, NEW e \in Byte, r \in T PROVE Add(r, e) \in T
  <2>1. PathEscape(Add(r, e)) = Cat(PathEscape(r), EscapedByte(e))
    BY EscapeAdd
  <2>2. Add(r, e) \in Text
    BY AddType, TextDef
  <2>3. Whole(Cat(PathEscape(r), EscapedByte(e)), Add(r, e))
    BY <1>2, WholeAdd
  <2> QED BY <2>1, <2>2, <2>3
<1>3. \A r \in Text : r \in T
  <2> HIDE DEF T
  <2> QED BY <1>1, <1>2, EveryText, TextDef
<1>4. Whole(PathEscape(s), s)
  BY <1>3
<1> DEFINE p == PathEscape(s)
<1>5. Whole(p, s)
  BY <1>4
<1> HIDE DEF p
<1>6. PathUnescape(p) = s
  BY <1>5, UnescapeReads DEF Whole
<1> QED BY <1>6 DEF p

--------------------------------------------------------------------------------
(* Parse and New *)

\* What is left of a text after its first n bytes.
Rest(v, n) == SubSeq(v, n + 1, Len(v))

\* Rest undoes Cat.
LEMMA RestCat ==
    ASSUME NEW S, NEW p \in Seq(S), NEW r \in Seq(S)
    PROVE  Rest(Cat(p, r), Len(p)) = r
<1> DEFINE c == Cat(p, r)
           n == Len(p)
           m == Len(c)
           q == SubSeq(c, n + 1, m)
<1>1. c \in Seq(S)
  BY CatType
<1>2. /\ Len(c) = n + Len(r)
      /\ \A i \in 1 .. Len(r) : c[n + i] = r[i]
  BY CatParts
<1> HIDE DEF c
<1>0. n \in Nat /\ Len(r) \in Nat /\ m = n + Len(r) /\ \A i \in n + 1 .. m : c[i] \in S
  BY <1>1, <1>2
<1>3. q \in Seq(S) /\ Len(q) = (IF n + 1 <= m THEN m - (n + 1) + 1 ELSE 0)
      /\ \A i \in 1 .. m - (n + 1) + 1 : q[i] = c[n + 1 + i - 1]
  BY <1>0, SubSeqProperties
<1> HIDE DEF q, m, n
<1>4. Len(q) = Len(r)
  <2>1. \A j, k, l \in Nat : l = j + k => (IF j + 1 <= l THEN l - (j + 1) + 1 ELSE 0) = k
    OBVIOUS
  <2>2. m \in Nat /\ n \in Nat /\ Len(r) \in Nat /\ m = n + Len(r)
    BY <1>0
  <2>3. (IF n + 1 <= m THEN m - (n + 1) + 1 ELSE 0) = Len(r)
    BY <2>1, <2>2, Zenon
  <2>4. Len(q) = (IF n + 1 <= m THEN m - (n + 1) + 1 ELSE 0)
    BY <1>3
  <2> HIDE DEF c
  <2> QED BY <2>3, <2>4
<1>5. ASSUME NEW i \in 1 .. Len(r) PROVE q[i] = r[i]
  <2>1. i \in 1 .. m - (n + 1) + 1 /\ n + 1 + i - 1 = n + i
    BY <1>0
  <2> QED BY <1>2, <1>3, <2>1
<1>6. q = r
  BY <1>3, <1>4, <1>5, SeqEqual
<1> QED BY <1>6 DEF q, m, n, c, Rest

\* A text with the prefix p is p and the rest.
LEMMA PrefixCat ==
    ASSUME NEW S, NEW p \in Seq(S), NEW v \in Seq(S), IsPrefix(p, v)
    PROVE  Rest(v, Len(p)) \in Seq(S) /\ v = Cat(p, Rest(v, Len(p)))
<1> DEFINE n == Len(p)
           m == Len(v)
           q == SubSeq(v, n + 1, m)
<1>0. n \in Nat /\ m \in Nat /\ n <= m
  BY DEF IsPrefix
<1>1. \A i \in 1 .. n : v[i] = p[i]
  <2>1. SubSeq(v, 1, n) = p
    BY SubSeqFull DEF IsPrefix
  <2>2. \A i \in 1 .. n : v[i] \in S
    BY <1>0
  <2>3. \A i \in 1 .. n - 1 + 1 : SubSeq(v, 1, n)[i] = v[1 + i - 1]
    BY <1>0, <2>2, SubSeqProperties
  <2> DEFINE w == SubSeq(v, 1, n)
  <2> HIDE DEF w
  <2>4. ASSUME NEW i \in 1 .. n PROVE w[i] = v[i]
    <3>1. i \in 1 .. n - 1 + 1 /\ 1 + i - 1 = i
      BY <1>0
    <3> QED BY <2>3, <3>1 DEF w
  <2> QED BY <2>1, <2>4 DEF w
<1>3. q \in Seq(S) /\ Len(q) = (IF n + 1 <= m THEN m - (n + 1) + 1 ELSE 0)
      /\ \A i \in 1 .. m - (n + 1) + 1 : q[i] = v[n + 1 + i - 1]
  <2>1. \A i \in n + 1 .. m : v[i] \in S
    BY <1>0
  <2> QED BY <1>0, <2>1, SubSeqProperties
<1> HIDE DEF q, m, n
<1>4. Len(q) = m - n
  <2>1. \A j, l \in Nat : j <= l => (IF j + 1 <= l THEN l - (j + 1) + 1 ELSE 0) = l - j
    OBVIOUS
  <2> QED BY <1>0, <1>3, <2>1, Zenon
<1>5. ASSUME NEW i \in 1 .. Len(q) PROVE v[n + i] = q[i]
  <2>1. i \in 1 .. m - (n + 1) + 1 /\ n + 1 + i - 1 = n + i
    BY <1>0, <1>4
  <2> QED BY <1>3, <2>1
<1>6. v = Cat(p, q)
  <2>1. Len(v) = Len(p) + Len(q)
    BY <1>0, <1>4 DEF m, n
  <2> QED BY <1>1, <1>3, <1>5, <2>1, CatEqual DEF n
<1> QED BY <1>3, <1>6 DEF q, m, n, Rest

\* The scheme and the separators are bytes.
LEMMA SchemeType == Scheme \in Text /\ Slash \in Byte /\ Colon \in Byte
  BY DEF Scheme, Text, Byte, Slash, Colon

Remainder(v) == Rest(v, Len(Scheme))

Parts(r) == IF Positions(r, Slash) = {} THEN << >> ELSE Split(After(r, Slash), Slash)

\* What Parse has checked of a text that it accepts.
LEMMA ParseAccepts ==
    ASSUME NEW v, Parse(v) # Error
    PROVE  LET r == Remainder(v)
           IN  /\ IsPrefix(Scheme, v) /\ ValidStore(Before(r, Slash))
               /\ \A k \in DOMAIN Parts(r) : CanonicalPart(Parts(r)[k])
               /\ Parse(v) = [value |-> v, store |-> Before(r, Slash),
                              segments |-> [k \in DOMAIN Parts(r) |-> PathUnescape(Parts(r)[k])]]
  BY Zenon DEF Parse, Remainder, Rest, Parts

\* The text that New makes of a store and segments.
Spelling(store, segments) ==
    IF segments = << >>
    THEN Scheme \o store
    ELSE Scheme \o store \o <<Slash>>
            \o Join([k \in DOMAIN segments |-> PathEscape(segments[k])], Slash)

\* New is Parse of the spelling.
LEMMA NewSpelling ==
    ASSUME NEW store, NEW segments
    PROVE  New(store, segments) = Parse(Spelling(store, segments))
  BY Zenon DEF New, Spelling

\* Every text that Parse accepts is what New makes of the store and the
\* segments that Parse has read in it.
LEMMA ParseSpelling ==
    ASSUME NEW S, Byte \subseteq S, NEW v \in Seq(S), Parse(v) # Error
    PROVE  /\ Parse(v).value = v
           /\ v = Spelling(Parse(v).store, Parse(v).segments)
           /\ \E n \in Nat : \E f : Parse(v).segments = [k \in 1 .. n |-> f[k]]
<1> DEFINE r == Remainder(v)
           parts == Parts(r)
           a == Parse(v)
           store == Before(r, Slash)
           segments == [k \in DOMAIN parts |-> PathUnescape(parts[k])]
<1>1. /\ IsPrefix(Scheme, v)
      /\ \A k \in DOMAIN parts : CanonicalPart(parts[k])
      /\ a = [value |-> v, store |-> store, segments |-> segments]
  BY ParseAccepts, Zenon
<1>2. a.value = v /\ a.store = store /\ a.segments = segments
  <2> HIDE DEF r, parts, a, store, segments
  <2> QED BY <1>1
<1>0. Scheme \in Seq(S) /\ Slash \in S /\ << >> \in Seq(S)
  BY DEF Scheme, Slash, Byte
<1>3. r \in Seq(S) /\ v = Cat(Scheme, r)
  BY <1>0, <1>1, PrefixCat DEF Remainder
<1>4. parts \in Seq(Seq(S)) /\ (Positions(r, Slash) # {} => parts # << >>)
  <2>1. CASE Positions(r, Slash) = {}
    BY <2>1 DEF Parts
  <2>2. CASE Positions(r, Slash) # {}
    <3>1. After(r, Slash) \in Seq(S)
      BY <1>0, <1>3, <2>2, CutWhole
    <3>2. parts = Split(After(r, Slash), Slash)
      BY <2>2 DEF Parts
    <3> QED BY <3>1, <3>2, SplitType
  <2> QED BY <2>1, <2>2
<1> HIDE DEF r, parts, a
<1>5. [k \in DOMAIN segments |-> PathEscape(segments[k])] = parts
  <2>1. \A k \in DOMAIN parts : PathEscape(PathUnescape(parts[k])) = parts[k]
    BY <1>1 DEF CanonicalPart
  <2>2. parts = [k \in DOMAIN parts |-> parts[k]]
    BY <1>4
  <2> QED BY <2>1, <2>2
<1>6. segments = << >> <=> parts = << >>
  <2>1. DOMAIN parts = 1 .. Len(parts) /\ Len(parts) \in Nat
    BY <1>4, LenProperties
  <2>2. segments = << >> => DOMAIN parts = {}
    OBVIOUS
  <2>3. DOMAIN parts = {} => parts = << >>
    BY <1>4, <2>1
  <2>4. parts = << >> => segments = << >>
    OBVIOUS
  <2> QED BY <2>2, <2>3, <2>4
<1>7. \E n \in Nat : \E f : segments = [k \in 1 .. n |-> f[k]]
  <2>1. DOMAIN parts = 1 .. Len(parts) /\ Len(parts) \in Nat
    BY <1>4, LenProperties
  <2>2. segments = [k \in 1 .. Len(parts) |-> segments[k]]
    BY <2>1
  <2> HIDE DEF segments
  <2> QED BY <2>1, <2>2
<1> HIDE DEF segments
<1>8. CASE Positions(r, Slash) = {}
  <2>1. parts = << >> /\ store = r
    BY <1>8 DEF Parts, parts, Before
  <2>2. segments = << >>
    BY <1>6, <2>1
  <2>3. v = Scheme \o store
    BY <1>3, <2>1 DEF Cat
  <2> QED BY <1>2, <1>7, <2>2, <2>3 DEF Spelling, a
<1>9. CASE Positions(r, Slash) # {}
  <2> DEFINE t == After(r, Slash)
             o == <<Slash>>
             j == Join(parts, Slash)
  <2>1. store \in Seq(S) /\ t \in Seq(S) /\ r = Cat(Add(store, Slash), t)
    BY <1>0, <1>3, <1>9, CutWhole
  <2>2. parts # << >> /\ parts = Split(t, Slash)
    BY <1>4, <1>9 DEF Parts, parts
  <2>3. j = t
    BY <1>0, <2>1, <2>2, JoinSplit
  <2>4. Add(store, Slash) = Cat(store, o) /\ o \in Seq(S)
    BY <1>0, <2>1, AddType
  <2> HIDE DEF o, t, store
  <2>5. v = Cat(Cat(Cat(Scheme, store), o), t)
    <3>1. r = Cat(Cat(store, o), t)
      BY <2>1, <2>4, Zenon
    <3>2. Cat(Cat(store, o), t) = Cat(store, Cat(o, t)) /\ Cat(o, t) \in Seq(S)
      BY <2>1, <2>4, CatAssoc, CatType
    <3>3. Cat(Cat(Scheme, store), Cat(o, t)) = Cat(Scheme, Cat(store, Cat(o, t)))
      BY <1>0, <2>1, <3>2, CatAssoc
    <3>4. Cat(Cat(Cat(Scheme, store), o), t) = Cat(Cat(Scheme, store), Cat(o, t))
      <4>1. Cat(Scheme, store) \in Seq(S)
        BY <1>0, <2>1, CatType
      <4> QED BY <2>1, <2>4, <4>1, CatAssoc
    <3> QED BY <1>3, <3>1, <3>2, <3>3, <3>4, Zenon
  <2>6. segments # << >>
    BY <1>6, <2>2
  <2>7. Spelling(store, segments) = Scheme \o store \o o \o j
    BY <1>5, <2>6, Zenon DEF Spelling, o
  <2>8. v = Spelling(store, segments)
    BY <2>3, <2>5, <2>7, Zenon DEF Cat
  <2> QED BY <1>2, <1>7, <2>8, Zenon DEF a, store
<1> QED BY <1>8, <1>9

\* What Parse reads in one part more.
LEMMA SegmentsAdd ==
    ASSUME NEW p \in Seq(Text), NEW x \in Text
    PROVE  LET Read(q) == [k \in DOMAIN q |-> PathUnescape(q[k])]
           IN  /\ Read(p) \in Seq({PathUnescape(y) : y \in Text})
               /\ Read(Add(p, x)) = Add(Read(p), PathUnescape(x))
<1> DEFINE U == {PathUnescape(y) : y \in Text}
           Read(q) == [k \in DOMAIN q |-> PathUnescape(q[k])]
           t == Add(p, x)
           n == Len(p)
<1>1. n \in Nat /\ t \in Seq(Text)
  <2>1. t \in Seq(Text)
    BY AddType
  <2> QED BY <2>1, LenProperties
<1>2. Len(t) = n + 1 /\ t[n + 1] = x /\ \A i \in 1 .. n : t[i] = p[i]
  BY LastAdd
<1>3. ASSUME NEW q \in Seq(Text)
      PROVE  /\ Read(q) \in Seq(U) /\ Len(Read(q)) = Len(q)
             /\ \A i \in 1 .. Len(q) : Read(q)[i] = PathUnescape(q[i])
  <2>1. DOMAIN q = 1 .. Len(q) /\ Len(q) \in Nat /\ \A i \in 1 .. Len(q) : q[i] \in Text
    <3> DEFINE X == Text
    <3>1. q \in Seq(X)
      OBVIOUS
    <3> HIDE DEF X
    <3>2. DOMAIN q = 1 .. Len(q) /\ Len(q) \in Nat /\ \A i \in 1 .. Len(q) : q[i] \in X
      BY <3>1, LenProperties, ElementOfSeq
    <3> QED BY <3>2 DEF X
  <2>2. \A i \in 1 .. Len(q) : PathUnescape(q[i]) \in U
    BY <2>1
  <2>3. Read(q) = [k \in 1 .. Len(q) |-> PathUnescape(q[k])]
    BY <2>1
  <2> HIDE DEF U, Read
  <2> QED BY <2>1, <2>2, <2>3
<1> HIDE DEF t, n
<1>4. PathUnescape(x) \in U
  OBVIOUS
<1> DEFINE v == Read(t)
           w == Read(p)
           y == PathUnescape(x)
<1>5. n = Len(p)
  BY DEF n
<1> HIDE DEF U, Read
<1>6. v \in Seq(U) /\ w \in Seq(U) /\ Len(v) = n + 1 /\ Len(w) = n
  BY <1>1, <1>2, <1>3, <1>5
<1>7. v[n + 1] = y
  <2>1. n + 1 \in 1 .. Len(t)
    BY <1>1, <1>2
  <2> QED BY <1>1, <1>2, <1>3, <2>1
<1>8. ASSUME NEW i \in 1 .. n PROVE v[i] = w[i]
  <2>1. i \in 1 .. Len(t) /\ i \in 1 .. Len(p)
    BY <1>1, <1>2, <1>5
  <2> QED BY <1>1, <1>2, <1>3, <2>1
<1> HIDE DEF v, w, y
<1>9. v = Add(w, y)
  BY <1>4, <1>6, <1>7, <1>8, AddEqual DEF y
<1> QED BY <1>6, <1>9 DEF v, w, y, Read, t, U

\* A URI that is another one with one part more: the same store, and one
\* segment more.
LEMMA ParseExtend ==
    ASSUME NEW R \in Text, Parse(R) # Error, NEW x \in Text, Free(x, Slash),
           Parse(Cat(Add(R, Slash), x)) # Error
    PROVE  LET a == Parse(Cat(Add(R, Slash), x))
           IN  /\ a.store = Parse(R).store
               /\ a.segments = Add(Parse(R).segments, PathUnescape(x))
               /\ Parse(R).segments \in Seq({PathUnescape(y) : y \in Text})
<1> DEFINE v == Cat(Add(R, Slash), x)
           r == Remainder(R)
           q == Remainder(v)
           Read(p) == [k \in DOMAIN p |-> PathUnescape(p[k])]
<1>0. R \in Seq(Byte) /\ x \in Seq(Byte) /\ Slash \in Byte /\ Scheme \in Seq(Byte)
  BY SchemeType, TextDef
<1>1. IsPrefix(Scheme, R) /\ Parse(R).store = Before(r, Slash) /\ Parse(R).segments = Read(Parts(r))
  <2> HIDE DEF r
  <2>1. IsPrefix(Scheme, R)
        /\ Parse(R) = [value |-> R, store |-> Before(r, Slash), segments |-> Read(Parts(r))]
    BY ParseAccepts, Zenon DEF r
  <2> HIDE DEF Read
  <2> QED BY <2>1
<1>2. Parse(v).store = Before(q, Slash) /\ Parse(v).segments = Read(Parts(q))
  <2> HIDE DEF q
  <2>1. Parse(v) = [value |-> v, store |-> Before(q, Slash), segments |-> Read(Parts(q))]
    BY ParseAccepts, Zenon DEF q
  <2> HIDE DEF Read, v
  <2> QED BY <2>1
<1>3. r \in Seq(Byte) /\ R = Cat(Scheme, r)
  BY <1>0, <1>1, PrefixCat DEF Remainder
<1> HIDE DEF r
<1>4. q = Cat(Add(r, Slash), x)
  <2>1. Add(r, Slash) \in Seq(Byte) /\ Cat(Add(r, Slash), x) \in Seq(Byte)
    BY <1>0, <1>3, AddType, CatType
  <2>2. Add(R, Slash) = Cat(Scheme, Add(r, Slash))
    BY <1>0, <1>3, CatAdd
  <2>3. v = Cat(Scheme, Cat(Add(r, Slash), x))
    BY <1>0, <2>1, <2>2, CatAssoc
  <2> HIDE DEF v
  <2> QED BY <1>0, <2>1, <2>3, RestCat DEF Remainder
<1> HIDE DEF q, v, Read
<1>5. CASE Positions(r, Slash) = {}
  <2>1. Free(r, Slash)
    BY <1>3, <1>5, LenProperties DEF Free, Positions
  <2>2. Before(r, Slash) = r /\ Positions(q, Slash) # {} /\ Before(q, Slash) = r /\ After(q, Slash) = x
    BY <1>0, <1>3, <1>4, <2>1, CutAt
  <2>3. Parts(q) = Add(<< >>, x) /\ Parts(r) = << >>
    <3>1. Split(x, Slash) = <<x>>
      BY <1>0, <1>3, SplitTail
    <3> QED BY <1>5, <2>2, <3>1 DEF Parts, Add
  <2>4. Read(Add(<< >>, x)) = Add(Read(<< >>), PathUnescape(x))
        /\ Read(<< >>) \in Seq({PathUnescape(y) : y \in Text})
    <3> DEFINE o == << >>
    <3>1. o \in Seq(Text)
      OBVIOUS
    <3> HIDE DEF o
    <3>2. Read(Add(o, x)) = Add(Read(o), PathUnescape(x))
          /\ Read(o) \in Seq({PathUnescape(y) : y \in Text})
      BY <3>1, SegmentsAdd DEF Read
    <3> QED BY <3>2 DEF o
  <2> QED BY <1>1, <1>2, <2>2, <2>3, <2>4 DEF v
<1>6. CASE Positions(r, Slash) # {}
  <2> DEFINE s == Before(r, Slash)
             t == After(r, Slash)
             u == Cat(Add(t, Slash), x)
  <2>1. s \in Seq(Byte) /\ t \in Seq(Byte) /\ Free(s, Slash) /\ r = Cat(Add(s, Slash), t)
    BY <1>0, <1>3, <1>6, CutWhole
  <2> HIDE DEF s, t
  <2>2. q = Cat(Add(s, Slash), u) /\ u \in Seq(Byte)
    <3>1. Add(s, Slash) \in Seq(Byte) /\ Add(t, Slash) \in Seq(Byte)
      BY <1>0, <2>1, AddType
    <3>2. Add(r, Slash) = Cat(Add(s, Slash), Add(t, Slash))
      BY <1>0, <2>1, <3>1, CatAdd
    <3>3. u \in Seq(Byte)
      BY <1>0, <3>1, CatType
    <3> QED BY <1>0, <1>4, <3>1, <3>2, <3>3, CatAssoc
  <2> HIDE DEF u
  <2>3. Positions(q, Slash) # {} /\ Before(q, Slash) = s /\ After(q, Slash) = u
    BY <1>0, <2>1, <2>2, CutAt
  <2>4. Parts(r) = Split(t, Slash) /\ Parts(q) = Split(u, Slash)
    BY <1>6, <2>3 DEF Parts, t
  <2>5. Split(u, Slash) = Add(Split(t, Slash), x)
    BY <1>0, <2>1, SplitTail DEF u
  <2>6. Split(t, Slash) \in Seq(Text)
    BY <1>0, <2>1, SplitType, TextDef
  <2>7. Read(Add(Split(t, Slash), x)) = Add(Read(Split(t, Slash)), PathUnescape(x))
        /\ Read(Split(t, Slash)) \in Seq({PathUnescape(y) : y \in Text})
    BY <2>6, SegmentsAdd DEF Read
  <2> QED BY <1>1, <1>2, <2>3, <2>4, <2>5, <2>7 DEF v, s
<1> QED BY <1>5, <1>6

\* The URI of a record leads back to its resource and to the text of its key.
LEMMA RecordAddress ==
    ASSUME NEW R \in Text, NEW key, FormatKey(key) \in Text, AppendKey(R, key) # Error
    PROVE  LET a == AppendKey(R, key)
           IN  /\ a.value \in Text /\ a = Parse(a.value) /\ a.segments # << >>
               /\ Last(a.segments) = FormatKey(key)
               /\ New(a.store, Front(a.segments)).value = R
<1> DEFINE x == PathEscape(FormatKey(key))
           v == Cat(Add(R, Slash), x)
           U == {PathUnescape(y) : y \in Text}
           g == Parse(R).segments
<1>0. R \in Seq(Byte) /\ x \in Seq(Byte) /\ Slash \in Byte
  BY EscapeFree, SchemeType, TextDef
<1>1. Parse(R) # Error /\ FormatKey(key) # Error
  BY Zenon DEF AppendKey
<1>2. Parse(R).value = R /\ R = Spelling(Parse(R).store, g)
  BY <1>0, <1>1, ParseSpelling
<1>3. AppendKey(R, key) = Parse(v)
  <2>1. AppendKey(R, key) = Parse(Parse(R).value \o <<Slash>> \o x)
    BY <1>1, Zenon DEF AppendKey
  <2>2. AppendKey(R, key) = Parse(Cat(Cat(R, <<Slash>>), x))
    BY <1>2, <2>1, Zenon DEF Cat
  <2>3. Add(R, Slash) = Cat(R, <<Slash>>)
    BY <1>0, AddType
  <2> QED BY <2>2, <2>3, Zenon
<1>4. v \in Seq(Byte)
  <2> HIDE DEF x
  <2>1. Add(R, Slash) \in Seq(Byte)
    BY <1>0, AddType
  <2> QED BY <1>0, <2>1, CatType
<1>5. Parse(v).value = v
  <2> HIDE DEF v
  <2> QED BY <1>3, <1>4, ParseSpelling
<1>6. Parse(v).store = Parse(R).store /\ Parse(v).segments = Add(g, PathUnescape(x)) /\ g \in Seq(U)
  <2>1. Free(x, Slash) /\ x \in Text
    BY EscapeFree
  <2> HIDE DEF x
  <2> QED BY <1>1, <1>3, <2>1, ParseExtend
<1>7. PathUnescape(x) = FormatKey(key)
  BY UnescapeEscape
<1>8. FormatKey(key) \in U
  BY <1>0, <1>7, TextDef
<1>9. /\ Parse(v).segments # << >> /\ Front(Parse(v).segments) = g
      /\ Last(Parse(v).segments) = FormatKey(key)
  <2> HIDE DEF v, x, U, g
  <2> QED BY <1>6, <1>7, <1>8, LastAdd
<1>10. New(Parse(v).store, Front(Parse(v).segments)).value = R
  BY <1>2, <1>6, <1>9, NewSpelling
<1> QED BY <1>3, <1>4, <1>5, <1>9, <1>10, TextDef

\* Every URI that Parse accepts is the one that New makes of what was read in it.
THEOREM ParseNew ==
    ASSUME NEW v \in Text, Parse(v) # Error
    PROVE  New(Parse(v).store, Parse(v).segments) = Parse(v)
<1>1. v \in Seq(Byte)
  BY TextDef
<1>2. v = Spelling(Parse(v).store, Parse(v).segments)
  BY <1>1, ParseSpelling
<1> QED BY <1>2, NewSpelling

\* Parts without a b are found again in what Join makes of them.
LEMMA SplitJoin ==
    ASSUME NEW S, NEW b \in S, NEW parts \in Seq(Seq(S)), parts # << >>,
           \A k \in 1 .. Len(parts) : Free(parts[k], b)
    PROVE  Split(Join(parts, b), b) = parts
<1> DEFINE Clean(p) == \A k \in 1 .. Len(p) : Free(p[k], b)
           Back(p) == Split(Join(p, b), b) = p
           T == {p \in Seq(Seq(S)) : p # << >> /\ Clean(p) => Back(p)}
<1>1. << >> \in T
  OBVIOUS
<1>2. ASSUME NEW p \in Seq(Seq(S)), NEW x \in Seq(S), p \in T PROVE Add(p, x) \in T
  <2>1. Add(p, x) \in Seq(Seq(S))
    BY AddType
  <2> SUFFICES ASSUME Clean(Add(p, x)) PROVE Back(Add(p, x))
    <3> HIDE DEF Clean, Back
    <3> QED BY <2>1
  <2> DEFINE t == Add(p, x)
  <2>2. /\ Len(t) = Len(p) + 1 /\ t[Len(p) + 1] = x /\ Len(p) \in Nat
        /\ \A i \in 1 .. Len(p) : t[i] = p[i]
    BY LastAdd, LenProperties
  <2>3. Clean(t)
    OBVIOUS
  <2> HIDE DEF t
  <2>4. Free(x, b)
    <3>1. Len(p) + 1 \in 1 .. Len(t)
      BY <2>2
    <3> QED BY <2>2, <2>3, <3>1
  <2>5. Clean(p)
    <3>1. ASSUME NEW k \in 1 .. Len(p) PROVE Free(p[k], b)
      <4>1. k \in 1 .. Len(t) /\ t[k] = p[k]
        BY <2>2
      <4> QED BY <2>3, <4>1
    <3> QED BY <3>1
  <2> HIDE DEF Clean
  <2>6. CASE p = << >>
    <3> DEFINE o == << >>
    <3>1. o \in Seq(Seq(S)) /\ o \in Seq(S) /\ p = o
      BY <2>6
    <3>2. Split(x, b) = <<x>>
      BY <2>4, SplitTail
    <3>3. <<x>> = Add(o, x)
      BY DEF Add
    <3> HIDE DEF o
    <3>4. Join(Add(p, x), b) = x
      <4>1. Join(Add(p, x), b) = IF p = << >> THEN x ELSE Cat(Add(Join(p, b), b), x)
        <5> HIDE DEF T, Back
        <5> QED BY JoinAdd
      <4> QED BY <2>6, <4>1, Zenon
    <3> QED BY <3>1, <3>2, <3>3, <3>4, Zenon
  <2>7. CASE p # << >>
    <3> DEFINE j == Join(p, b)
    <3>1. j \in Seq(S) /\ Join(Add(p, x), b) = Cat(Add(j, b), x)
      BY <2>7, JoinAdd
    <3>2. Split(j, b) = p
      BY <1>2, <2>5, <2>7
    <3> HIDE DEF j
    <3>3. Split(Cat(Add(j, b), x), b) = Add(Split(j, b), x)
      BY <2>4, <3>1, SplitTail
    <3> QED BY <3>1, <3>2, <3>3, Zenon
  <2> QED BY <2>6, <2>7
<1>3. \A p \in Seq(Seq(S)) : p \in T
  <2> HIDE DEF T
  <2> DEFINE X == Seq(S)
  <2>1. << >> \in T /\ \A p \in Seq(X), x \in X : p \in T => Add(p, x) \in T
    BY <1>1, <1>2
  <2> HIDE DEF X
  <2>2. \A p \in Seq(X) : p \in T
    BY <2>1, EveryText
  <2> QED BY <2>2 DEF X
<1> QED BY <1>3

\* New keeps the store and the segments it is given, whatever their bytes, as
\* long as the store is no path: New leaves it to Parse to find where it ends.
THEOREM NewParse ==
    ASSUME NEW store \in Text, Free(store, Slash), NEW segments \in Seq(Text),
           New(store, segments) # Error
    PROVE  New(store, segments).store = store /\ New(store, segments).segments = segments
<1> DEFINE v == Spelling(store, segments)
           r == Remainder(v)
           p == [k \in DOMAIN segments |-> PathEscape(segments[k])]
           j == Join(p, Slash)
           Read(q) == [k \in DOMAIN q |-> PathUnescape(q[k])]
<1>0. /\ store \in Seq(Byte) /\ Slash \in Byte /\ Scheme \in Seq(Byte)
      /\ DOMAIN segments = 1 .. Len(segments) /\ Len(segments) \in Nat
      /\ \A k \in 1 .. Len(segments) : segments[k] \in Text
  <2> DEFINE X == Text
  <2>1. segments \in Seq(X)
    OBVIOUS
  <2> HIDE DEF X
  <2>2. /\ DOMAIN segments = 1 .. Len(segments) /\ Len(segments) \in Nat
        /\ \A k \in 1 .. Len(segments) : segments[k] \in X
    BY <2>1, LenProperties, ElementOfSeq
  <2> QED BY <2>2, SchemeType, TextDef DEF X
<1>1. New(store, segments) = Parse(v) /\ Parse(v) # Error
  BY NewSpelling
<1>2. Parse(v).store = Before(r, Slash) /\ Parse(v).segments = Read(Parts(r))
  <2> HIDE DEF v
  <2>1. Parse(v) = [value |-> v, store |-> Before(r, Slash), segments |-> Read(Parts(r))]
    BY <1>1, ParseAccepts, Zenon
  <2> HIDE DEF Read, r
  <2> QED BY <2>1
<1>3. /\ p \in Seq(Seq(Byte)) /\ Len(p) = Len(segments) /\ DOMAIN p = DOMAIN segments
      /\ \A k \in 1 .. Len(p) : p[k] = PathEscape(segments[k]) /\ Free(p[k], Slash)
  <2>1. \A k \in 1 .. Len(segments) : PathEscape(segments[k]) \in Seq(Byte)
                                      /\ Free(PathEscape(segments[k]), Slash)
    BY <1>0, EscapeFree, TextDef
  <2>2. p = [k \in 1 .. Len(segments) |-> PathEscape(segments[k])]
    BY <1>0
  <2> HIDE DEF p
  <2>3. p \in Seq(Seq(Byte)) /\ Len(p) = Len(segments) /\ DOMAIN p = 1 .. Len(segments)
    BY <1>0, <2>1, <2>2
  <2> QED BY <1>0, <2>1, <2>2, <2>3
<1>4. Read(p) = segments
  <2>1. \A k \in 1 .. Len(segments) : PathUnescape(PathEscape(segments[k])) = segments[k]
    BY <1>0, UnescapeEscape
  <2>2. Read(p) = [k \in 1 .. Len(segments) |-> segments[k]]
    BY <1>0, <2>1
  <2>3. segments = [k \in 1 .. Len(segments) |-> segments[k]]
    BY <1>0
  <2> HIDE DEF Read
  <2> QED BY <2>2, <2>3
<1> HIDE DEF p
<1>5. CASE segments = << >>
  <2>1. v = Cat(Scheme, store)
    BY <1>5, Zenon DEF Spelling, Cat
  <2>2. r = store
    <3> HIDE DEF v
    <3> QED BY <1>0, <2>1, RestCat DEF Remainder
  <2>3. Positions(store, Slash) = {} /\ Before(store, Slash) = store
    <3> DEFINE o == << >>
    <3>1. o \in Seq(Byte)
      OBVIOUS
    <3> HIDE DEF o
    <3> QED BY <1>0, <3>1, CutAt
  <2> HIDE DEF r, v
  <2>4. Parts(r) = << >>
    BY <2>2, <2>3 DEF Parts
  <2>5. Read(<< >>) = << >>
    OBVIOUS
  <2> HIDE DEF Read
  <2> QED BY <1>1, <1>2, <1>5, <2>2, <2>3, <2>4, <2>5, Zenon
<1>6. CASE segments # << >>
  <2> DEFINE o == << >>
             s == <<Slash>>
  <2>0. j \in Seq(Byte) /\ o \in Seq(Byte) /\ s \in Seq(Byte)
    <3>1. o \in Seq(Byte) /\ s \in Seq(Byte)
      BY <1>0
    <3> HIDE DEF o
    <3>2. j \in Seq(Byte)
      BY <1>0, <1>3, <3>1, JoinAdd
    <3> QED BY <3>1, <3>2
  <2>1. v = Cat(Cat(Cat(Scheme, store), s), j)
    BY <1>6, Zenon DEF Spelling, Cat, p
  <2>2. Add(store, Slash) = Cat(store, s)
    BY <1>0, AddType
  <2> HIDE DEF j, s, v
  <2>3. v = Cat(Scheme, Cat(Add(store, Slash), j)) /\ Cat(Add(store, Slash), j) \in Seq(Byte)
    <3>1. Cat(Cat(Scheme, store), s) = Cat(Scheme, Cat(store, s)) /\ Cat(store, s) \in Seq(Byte)
      BY <1>0, <2>0, CatAssoc, CatType
    <3>2. /\ Cat(Cat(Scheme, Cat(store, s)), j) = Cat(Scheme, Cat(Cat(store, s), j))
          /\ Cat(Cat(store, s), j) \in Seq(Byte)
      BY <1>0, <2>0, <3>1, CatAssoc, CatType
    <3> QED BY <2>1, <2>2, <3>1, <3>2, Zenon
  <2>4. r = Cat(Add(store, Slash), j)
    BY <1>0, <2>3, RestCat DEF Remainder
  <2> HIDE DEF r
  <2>5. Positions(r, Slash) # {} /\ Before(r, Slash) = store /\ After(r, Slash) = j
    BY <1>0, <2>0, <2>4, CutAt
  <2>6. Split(j, Slash) = p
    <3>1. p # << >>
      BY <1>0, <1>3, <1>6
    <3> QED BY <1>0, <1>3, <3>1, SplitJoin DEF j
  <2>7. Parts(r) = p
    BY <2>5, <2>6 DEF Parts
  <2> HIDE DEF Read
  <2> QED BY <1>1, <1>2, <1>4, <2>5, <2>7, Zenon
<1> QED BY <1>5, <1>6

--------------------------------------------------------------------------------
(* base64.RawURLEncoding *)

\* The bytes of s, and zeros after them.
Padded(s, i) == IF i <= Len(s) THEN s[i] ELSE 0

\* The four groups of six bits that three bytes are.
Sextet(b1, b2, b3, m) ==
    <<b1 \div 4, (b1 % 4) * 16 + (b2 \div 16), (b2 % 16) * 4 + (b3 \div 64), b3 % 64>>[m]

SextetAt(s, k) ==
    LET i == 3 * ((k - 1) \div 4) + 1
    IN  Sextet(Padded(s, i), Padded(s, i + 1), Padded(s, i + 2), ((k - 1) % 4) + 1)

\* A sextet has six bits.
LEMMA SextetType ==
    ASSUME NEW b1 \in Byte, NEW b2 \in Byte, NEW b3 \in Byte, NEW m \in 1 .. 4
    PROVE  Sextet(b1, b2, b3, m) \in 0 .. 63
<1>1. /\ b1 \div 4 \in 0 .. 63 /\ (b1 % 4) * 16 + (b2 \div 16) \in 0 .. 63
      /\ (b2 % 16) * 4 + (b3 \div 64) \in 0 .. 63 /\ b3 % 64 \in 0 .. 63
  BY DEF Byte
<1>2. m = 1 \/ m = 2 \/ m = 3 \/ m = 4
  OBVIOUS
<1> QED BY <1>1, <1>2 DEF Sextet

\* No two sextets have the same character, and none a separator or a line end.
LEMMA Base64Injective ==
    ASSUME NEW n \in 0 .. 63
    PROVE  /\ Base64Char(n) \in Base64Chars /\ Base64Value[Base64Char(n)] = n
           /\ Base64Char(n) \in Byte /\ Base64Char(n) # Colon /\ Base64Char(n) \notin {10, 13}
<1>1. Base64Char(n) \in Base64Chars
  BY DEF Base64Chars
<1>2. \A m \in 0 .. 63 : Base64Char(m) = Base64Char(n) => m = n
  BY DEF Base64Char
<1>3. Base64Value[Base64Char(n)] = n
  <2>1. Base64Value[Base64Char(n)] = CHOOSE m \in 0 .. 63 : Base64Char(m) = Base64Char(n)
    BY <1>1 DEF Base64Value
  <2> QED BY <1>2, <2>1
<1>4. Base64Char(n) \in Byte /\ Base64Char(n) # Colon /\ Base64Char(n) \notin {10, 13}
  BY DEF Base64Char, Byte, Colon
<1> QED BY <1>1, <1>3, <1>4

\* EncodeBase64 writes the sextets of the bytes, one character each.
LEMMA EncodeShape ==
    ASSUME NEW s \in Text
    PROVE  LET e == EncodeBase64(s)
           IN  /\ e \in Seq(Base64Chars) /\ e \in Text /\ Len(e) = (8 * Len(s) + 5) \div 6
               /\ Free(e, Colon)
               /\ \A k \in 1 .. Len(e) : e[k] = Base64Char(SextetAt(s, k)) /\ SextetAt(s, k) \in 0 .. 63
<1> DEFINE n == (8 * Len(s) + 5) \div 6
           e == EncodeBase64(s)
<1>0. Len(s) \in Nat /\ \A i \in 1 .. Len(s) : s[i] \in Byte
  BY TextDef, ElementOfSeq, LenProperties
<1>1. n \in Nat
  BY <1>0
<1>2. e = [k \in 1 .. n |-> Base64Char(SextetAt(s, k))]
  BY DEF EncodeBase64, SextetAt, Sextet, Padded
<1>3. ASSUME NEW k \in 1 .. n PROVE SextetAt(s, k) \in 0 .. 63
  <2> DEFINE i == 3 * ((k - 1) \div 4) + 1
             m == ((k - 1) % 4) + 1
  <2>1. i \in Nat /\ i >= 1 /\ m \in 1 .. 4
    BY <1>1
  <2> HIDE DEF i, m, n
  <2>2. \A j \in Nat : j >= 1 => Padded(s, j) \in Byte
    BY <1>0 DEF Padded, Byte
  <2>3. Padded(s, i) \in Byte /\ Padded(s, i + 1) \in Byte /\ Padded(s, i + 2) \in Byte
    BY <2>1, <2>2
  <2>4. SextetAt(s, k) = Sextet(Padded(s, i), Padded(s, i + 1), Padded(s, i + 2), m)
    BY DEF SextetAt, i, m
  <2> QED BY <2>1, <2>3, <2>4, SextetType
<1> HIDE DEF n, e
<1>4. \A k \in 1 .. n : /\ Base64Char(SextetAt(s, k)) \in Base64Chars
                        /\ Base64Char(SextetAt(s, k)) \in Byte /\ Base64Char(SextetAt(s, k)) # Colon
  BY <1>3, Base64Injective
<1>5. e \in Seq(Base64Chars) /\ e \in Seq(Byte) /\ Len(e) = n
  BY <1>1, <1>2, <1>4
<1>6. Free(e, Colon)
  BY <1>2, <1>4, <1>5 DEF Free
<1>7. \A k \in 1 .. Len(e) : e[k] = Base64Char(SextetAt(s, k)) /\ SextetAt(s, k) \in 0 .. 63
  BY <1>2, <1>3, <1>5
<1> QED BY <1>5, <1>6, <1>7, TextDef DEF n, e

\* A text without line ends is decoded as it is.
LEMMA LineEndsFree ==
    ASSUME NEW S, NEW s \in Seq(S), \A i \in 1 .. Len(s) : s[i] \notin {10, 13}
    PROVE  WithoutLineEnds(s) = s
<1> DEFINE E(f, n) == IF n = 0 THEN << >>
                      ELSE IF s[n] \in {10, 13} THEN f[n - 1] ELSE Append(f[n - 1], s[n])
           Q(f) == f = [n \in 0 .. Len(s) |-> E(f, n)]
           Pre(n) == SubSeq(s, 1, n)
           g == [n \in 0 .. Len(s) |-> Pre(n)]
<1>0. Len(s) \in Nat /\ Pre(0) = << >> /\ Pre(Len(s)) = s
  BY SubSeqEmpty, SubSeqFull
<1>1. WithoutLineEnds(s) = (CHOOSE f : Q(f))[Len(s)]
  BY DEF WithoutLineEnds
<1>2. ASSUME NEW n \in 1 .. Len(s) PROVE Pre(n) = Append(Pre(n - 1), s[n])
  <2>1. SubSeq(s, 1, n - 1) \in Seq(S) /\ s[n] \in S /\ n - 1 \in 0 .. Len(s) - 1 /\ (n - 1) + 1 = n
    BY <1>0
  <2>2. SubSeq(s, 1, (n - 1) + 1) = SubSeq(s, 1, n - 1) \o <<s[(n - 1) + 1]>>
    BY <2>1, SubSeqRecursiveSecond
  <2> QED BY <2>1, <2>2, AppendIsConcat
<1> HIDE DEF Pre
<1>3. Q(g)
  <2>1. ASSUME NEW n \in 0 .. Len(s) PROVE Pre(n) = E(g, n)
    <3>1. CASE n = 0
      BY <1>0, <3>1
    <3>2. CASE n # 0
      <4>1. n \in 1 .. Len(s) /\ g[n - 1] = Pre(n - 1) /\ s[n] \notin {10, 13}
        BY <1>0, <3>2
      <4>2. Pre(n) = Append(Pre(n - 1), s[n])
        BY <1>2, <4>1
      <4> HIDE DEF g
      <4> QED BY <3>2, <4>1, <4>2, Zenon
    <3> QED BY <3>1, <3>2
  <2> HIDE DEF E
  <2> QED BY <2>1
<1>4. PICK f : f = (CHOOSE h : Q(h)) /\ Q(f)
  <2> HIDE DEF Q
  <2> QED BY <1>3
<1>5. ASSUME NEW n \in 0 .. Len(s) PROVE f[n] = E(f, n)
  <2> HIDE DEF E
  <2> QED BY <1>4
<1> DEFINE P == {n \in 0 .. Len(s) : f[n] = Pre(n)}
<1>6. 0 \in P
  BY <1>0, <1>5
<1>7. ASSUME NEW n \in 0 .. Len(s) - 1, n \in P PROVE n + 1 \in P
  <2>1. n + 1 \in 1 .. Len(s) /\ n + 1 # 0 /\ (n + 1) - 1 = n /\ s[n + 1] \notin {10, 13} /\ f[n] = Pre(n)
    BY <1>0, <1>7
  <2>2. f[n + 1] = E(f, n + 1)
    <3> HIDE DEF E
    <3> QED BY <1>0, <1>5
  <2>3. f[n + 1] = Append(f[n], s[n + 1])
    BY <2>1, <2>2, Zenon
  <2>4. Pre(n + 1) = Append(Pre(n), s[n + 1])
    BY <1>2, <2>1
  <2>5. f[n + 1] = Pre(n + 1)
    BY <2>1, <2>3, <2>4, Zenon
  <2> QED BY <1>0, <2>1, <2>5
<1>8. Len(s) \in P
  <2> HIDE DEF P
  <2>1. \A n \in 0 .. Len(s) - 1 : n \in P => n + 1 \in P
    BY <1>7
  <2>2. \A n \in 0 .. Len(s) : n \in P
    BY <1>0, <1>6, <2>1, UpTo, Zenon
  <2> QED BY <1>0, <2>2
<1>9. f[Len(s)] = s
  BY <1>0, <1>8
<1> HIDE DEF Q
<1> QED BY <1>1, <1>4, <1>9, Zenon

\* The three bytes that four groups of six bits are.
Octet(n1, n2, n3, n4, m) == <<n1 * 4 + (n2 \div 16), (n2 % 16) * 16 + (n3 \div 4), (n3 % 4) * 64 + n4>>[m]

SymbolAt(e, i) == IF i <= Len(e) THEN Base64Value[e[i]] ELSE 0

OctetAt(e, k) ==
    LET i == 4 * ((k - 1) \div 3) + 1
    IN  Octet(SymbolAt(e, i), SymbolAt(e, i + 1), SymbolAt(e, i + 2), SymbolAt(e, i + 3), ((k - 1) % 3) + 1)

\* The second byte needs no more than the first three groups, and so on.
LEMMA OctetSextet ==
    ASSUME NEW b1 \in Byte, NEW b2 \in Byte, NEW b3 \in Byte, NEW n3, NEW n4
    PROVE  LET g(m) == Sextet(b1, b2, b3, m)
           IN  /\ Octet(g(1), g(2), n3, n4, 1) = b1
               /\ Octet(g(1), g(2), g(3), n4, 2) = b2
               /\ Octet(g(1), g(2), g(3), g(4), 3) = b3
<1> DEFINE g1 == b1 \div 4
           g2 == (b1 % 4) * 16 + (b2 \div 16)
           g3 == (b2 % 16) * 4 + (b3 \div 64)
           g4 == b3 % 64
<1>1. g1 * 4 + (g2 \div 16) = b1 /\ (g2 % 16) * 16 + (g3 \div 4) = b2 /\ (g3 % 4) * 64 + g4 = b3
  BY DEF Byte
<1>2. /\ Sextet(b1, b2, b3, 1) = g1 /\ Sextet(b1, b2, b3, 2) = g2
      /\ Sextet(b1, b2, b3, 3) = g3 /\ Sextet(b1, b2, b3, 4) = g4
  BY DEF Sextet
<1> HIDE DEF g1, g2, g3, g4
<1> QED BY <1>1, <1>2 DEF Octet

\* Every byte is in the characters that EncodeBase64 wrote.
LEMMA OctetOfEncoding ==
    ASSUME NEW s \in Text, NEW k \in 1 .. Len(s)
    PROVE  OctetAt(EncodeBase64(s), k) = s[k]
<1> DEFINE e == EncodeBase64(s)
           g == (k - 1) \div 3
           j == (k - 1) % 3
           b1 == Padded(s, 3 * g + 1)
           b2 == Padded(s, 3 * g + 2)
           b3 == Padded(s, 3 * g + 3)
           Y(i) == SymbolAt(e, i)
<1>0. Len(s) \in Nat /\ \A i \in 1 .. Len(s) : s[i] \in Byte
  BY TextDef, ElementOfSeq, LenProperties
<1>1. g \in Nat /\ j \in 0 .. 2 /\ k = 3 * g + j + 1
  BY <1>0
<1>2. /\ Len(e) = (8 * Len(s) + 5) \div 6
      /\ \A i \in 1 .. Len(e) : e[i] = Base64Char(SextetAt(s, i)) /\ SextetAt(s, i) \in 0 .. 63
  BY EncodeShape
<1> HIDE DEF e, g, j
<1>3. b1 \in Byte /\ b2 \in Byte /\ b3 \in Byte
  BY <1>0, <1>1 DEF Padded, Byte
<1>4. Len(e) >= 4 * g + j + 2 /\ Len(e) \in Nat
  BY <1>0, <1>1, <1>2
<1>5. ASSUME NEW m \in 1 .. j + 2 PROVE Y(4 * g + m) = Sextet(b1, b2, b3, m)
  <2>1. 4 * g + m \in 1 .. Len(e) /\ 4 * g + m <= Len(e)
    BY <1>1, <1>4
  <2>2. Y(4 * g + m) = SextetAt(s, 4 * g + m)
    <3>1. Base64Value[Base64Char(SextetAt(s, 4 * g + m))] = SextetAt(s, 4 * g + m)
      BY <1>2, <2>1, Base64Injective
    <3> QED BY <1>2, <2>1, <3>1 DEF SymbolAt
  <2>3. ((4 * g + m) - 1) \div 4 = g /\ (((4 * g + m) - 1) % 4) + 1 = m
    <3>1. m \in 1 .. 4
      BY <1>1
    <3> QED BY <1>1, <3>1
  <2>4. /\ 3 * (((4 * g + m) - 1) \div 4) + 1 = 3 * g + 1
        /\ 3 * (((4 * g + m) - 1) \div 4) + 1 + 1 = 3 * g + 2
        /\ 3 * (((4 * g + m) - 1) \div 4) + 1 + 2 = 3 * g + 3
    BY <1>1, <2>3
  <2>5. SextetAt(s, 4 * g + m) = Sextet(b1, b2, b3, m)
    BY <2>3, <2>4, Zenon DEF SextetAt
  <2> QED BY <2>2, <2>5
<1>6. OctetAt(e, k) = Octet(Y(4 * g + 1), Y(4 * g + 2), Y(4 * g + 3), Y(4 * g + 4), j + 1)
  <2>1. /\ 4 * g + 1 + 1 = 4 * g + 2 /\ 4 * g + 1 + 2 = 4 * g + 3 /\ 4 * g + 1 + 3 = 4 * g + 4
    BY <1>1
  <2> QED BY <2>1, Zenon DEF OctetAt, g, j
<1> HIDE DEF b1, b2, b3, Y
<1>7. CASE j = 0
  <2>1. Y(4 * g + 1) = Sextet(b1, b2, b3, 1) /\ Y(4 * g + 2) = Sextet(b1, b2, b3, 2)
    BY <1>5, <1>7
  <2>2. OctetAt(e, k) = b1
    <3>1. j + 1 = 1
      BY <1>7
    <3> QED BY <1>3, <1>6, <2>1, <3>1, OctetSextet
  <2> QED BY <1>0, <1>1, <1>7, <2>2 DEF b1, Padded, e
<1>8. CASE j = 1
  <2>1. /\ Y(4 * g + 1) = Sextet(b1, b2, b3, 1) /\ Y(4 * g + 2) = Sextet(b1, b2, b3, 2)
        /\ Y(4 * g + 3) = Sextet(b1, b2, b3, 3)
    BY <1>5, <1>8
  <2>2. OctetAt(e, k) = b2
    <3>1. j + 1 = 2
      BY <1>8
    <3> QED BY <1>3, <1>6, <2>1, <3>1, OctetSextet
  <2> QED BY <1>0, <1>1, <1>8, <2>2 DEF b2, Padded, e
<1>9. CASE j = 2
  <2>1. /\ Y(4 * g + 1) = Sextet(b1, b2, b3, 1) /\ Y(4 * g + 2) = Sextet(b1, b2, b3, 2)
        /\ Y(4 * g + 3) = Sextet(b1, b2, b3, 3) /\ Y(4 * g + 4) = Sextet(b1, b2, b3, 4)
    BY <1>5, <1>9
  <2>2. OctetAt(e, k) = b3
    <3>1. j + 1 = 3
      BY <1>9
    <3> QED BY <1>3, <1>6, <2>1, <3>1, OctetSextet
  <2> QED BY <1>0, <1>1, <1>9, <2>2 DEF b3, Padded, e
<1> QED BY <1>1, <1>7, <1>8, <1>9

\* What base64 encodes is decoded to the bytes it was made of.
THEOREM DecodeEncode ==
    ASSUME NEW s \in Text
    PROVE  DecodeBase64(EncodeBase64(s)) = s
<1> DEFINE e == EncodeBase64(s)
           n == (6 * Len(e)) \div 8
           octets == [k \in 1 .. n |-> OctetAt(e, k)]
<1>1. /\ e \in Seq(Base64Chars) /\ Len(e) = (8 * Len(s) + 5) \div 6
      /\ \A i \in 1 .. Len(e) : e[i] = Base64Char(SextetAt(s, i)) /\ SextetAt(s, i) \in 0 .. 63
  BY EncodeShape
<1>0. Len(s) \in Nat /\ s = [k \in 1 .. Len(s) |-> s[k]]
  <2>1. s \in Seq(Byte)
    BY TextDef
  <2> QED BY <2>1
<1>2. \A k \in 1 .. Len(s) : OctetAt(e, k) = s[k]
  BY OctetOfEncoding
<1> HIDE DEF e
<1>3. WithoutLineEnds(e) = e
  <2>1. \A i \in 1 .. Len(e) : e[i] \notin {10, 13}
    BY <1>1, Base64Injective
  <2> QED BY <1>1, <2>1, LineEndsFree
<1>4. n = Len(s) /\ Len(e) % 4 # 1
  <2>1. Len(e) = (8 * Len(s) + 5) \div 6 /\ Len(e) \in Nat /\ Len(s) \in Nat
    BY <1>0, <1>1
  <2>2. \A l, q \in Nat : q = (8 * l + 5) \div 6 => (6 * q) \div 8 = l
    OBVIOUS
  <2>3. \A l, q \in Nat : q = (8 * l + 5) \div 6 => q % 4 # 1
    OBVIOUS
  <2> QED BY <2>1, <2>2, <2>3, Zenon
<1>5. octets = s
  <2> HIDE DEF n
  <2>1. octets = [k \in 1 .. Len(s) |-> s[k]]
    BY <1>2, <1>4
  <2> HIDE DEF octets
  <2> QED BY <1>0, <2>1
<1>6. Range(e) \subseteq Base64Chars
  <2>1. DOMAIN e = 1 .. Len(e) /\ \A i \in 1 .. Len(e) : e[i] \in Base64Chars
    BY <1>1, LenProperties, ElementOfSeq
  <2> QED BY <2>1 DEF Range
<1>7. DecodeBase64(e) = IF Range(e) \subseteq Base64Chars /\ Len(e) % 4 # 1 /\ EncodeBase64(octets) = e
                        THEN octets ELSE Error
  <2> DEFINE w == WithoutLineEnds(e)
  <2>1. DecodeBase64(e) = IF Range(w) \subseteq Base64Chars /\ Len(w) % 4 # 1
                              /\ EncodeBase64([k \in 1 .. (6 * Len(w)) \div 8 |-> OctetAt(w, k)]) = w
                          THEN [k \in 1 .. (6 * Len(w)) \div 8 |-> OctetAt(w, k)] ELSE Error
    BY Zenon DEF DecodeBase64, OctetAt, Octet, SymbolAt
  <2> HIDE DEF w
  <2>2. w = e
    BY <1>3 DEF w
  <2> QED BY <2>1, <2>2, Zenon
<1> HIDE DEF octets
<1>8. EncodeBase64(octets) = e
  BY <1>5 DEF e
<1> QED BY <1>4, <1>5, <1>6, <1>7, <1>8, Zenon DEF e

--------------------------------------------------------------------------------
(* strconv *)

\* What one digit more makes of a number.
NumberStep == [p \in Int \X Int |-> 10 * p[1] + p[2] - 48]

\* Number is a scan of the digits.
LEMMA NumberScan ==
    ASSUME NEW d \in Seq(Int)
    PROVE  \E f : Scan(Int, Int, 0, NumberStep, d, f) /\ Number(d) = f[Len(d)]
<1> DEFINE E(f, n) == IF n = 0 THEN 0 ELSE 10 * f[n - 1] + d[n] - 48
           Q(f) == f = [n \in 0 .. Len(d) |-> E(f, n)]
<1>1. Number(d) = (CHOOSE f : Q(f))[Len(d)]
  BY DEF Number
<1>2. NumberStep \in [Int \X Int -> Int] /\ 0 \in Int /\ Len(d) \in Nat
  BY DEF NumberStep
<1>3. PICK g \in [0 .. Len(d) -> Int] : Scan(Int, Int, 0, NumberStep, d, g)
  BY <1>2, ScanExists
<1>4. ASSUME NEW n \in 0 .. Len(d) PROVE g[n] = E(g, n)
  <2>1. CASE n = 0
    BY <1>3, <2>1 DEF Scan
  <2>2. CASE n # 0
    <3>1. g[n - 1] \in Int /\ d[n] \in Int
      BY <2>2
    <3>2. g[n] = NumberStep[<<g[n - 1], d[n]>>]
      BY <1>3, <2>2 DEF Scan
    <3> QED BY <2>2, <3>1, <3>2 DEF NumberStep
  <2> QED BY <2>1, <2>2
<1>5. Q(g)
  <2> HIDE DEF E
  <2> QED BY <1>4
<1>6. PICK f : f = (CHOOSE h : Q(h)) /\ Q(f)
  <2> HIDE DEF Q
  <2> QED BY <1>5
<1>7. ASSUME NEW n \in 0 .. Len(d) PROVE f[n] = E(f, n)
  <2> HIDE DEF E
  <2> QED BY <1>6
<1> DEFINE P == {n \in 0 .. Len(d) : f[n] = g[n]}
<1>8. 0 \in P
  BY <1>2, <1>4, <1>7
<1>9. ASSUME NEW n \in 0 .. Len(d) - 1, n \in P PROVE n + 1 \in P
  <2>1. n + 1 \in 0 .. Len(d) /\ n + 1 # 0 /\ (n + 1) - 1 = n
    BY <1>2
  <2>2. f[n + 1] = E(f, n + 1) /\ g[n + 1] = E(g, n + 1)
    <3> HIDE DEF E
    <3> QED BY <1>4, <1>7, <2>1
  <2>3. f[n] = g[n]
    BY <1>9
  <2> QED BY <2>1, <2>2, <2>3
<1>10. Len(d) \in P
  <2> HIDE DEF P
  <2>1. \A n \in 0 .. Len(d) - 1 : n \in P => n + 1 \in P
    BY <1>9
  <2>2. \A n \in 0 .. Len(d) : n \in P
    BY <1>2, <1>8, <2>1, UpTo, Zenon
  <2> QED BY <1>2, <2>2
<1>11. f[Len(d)] = g[Len(d)]
  BY <1>10
<1> HIDE DEF Q
<1> QED BY <1>1, <1>3, <1>6, <1>11

\* The value of no digits, and of one digit more.
LEMMA NumberAdd ==
    ASSUME NEW d \in Seq(Int), NEW e \in Int
    PROVE  /\ Number(<< >>) = 0 /\ Number(d) \in Int
           /\ Number(Add(d, e)) = 10 * Number(d) + e - 48
<1> DEFINE t == Add(d, e)
           o == << >>
<1>1. /\ t \in Seq(Int) /\ Len(t) = Len(d) + 1 /\ t[Len(t)] = e
      /\ OneMore(d, t)
  <2>1. t \in Seq(Int)
    BY AddType
  <2> QED BY <2>1, LastAdd DEF OneMore
<1>2. o \in Seq(Int) /\ Len(o) = 0
  OBVIOUS
<1> HIDE DEF t, o
<1>3. PICK f : Scan(Int, Int, 0, NumberStep, d, f) /\ Number(d) = f[Len(d)]
  BY NumberScan
<1>4. PICK g : Scan(Int, Int, 0, NumberStep, t, g) /\ Number(t) = g[Len(t)]
  BY <1>1, NumberScan
<1>5. PICK h : Scan(Int, Int, 0, NumberStep, o, h) /\ Number(o) = h[Len(o)]
  BY <1>2, NumberScan
<1>6. Number(o) = 0
  BY <1>2, <1>5 DEF Scan
<1>7. f[Len(d)] \in Int /\ g[Len(t)] = Stepped(NumberStep, f[Len(d)], t[Len(t)])
  BY <1>1, <1>3, <1>4, ScanStep
<1>8. Number(d) \in Int /\ Number(t) = NumberStep[<<Number(d), e>>]
  BY <1>1, <1>3, <1>4, <1>7 DEF Stepped
<1>9. Number(t) = 10 * Number(d) + e - 48
  BY <1>8 DEF NumberStep
<1> QED BY <1>6, <1>8, <1>9 DEF t, o

\* What FormatNat writes for m, given what it writes for the numbers below.
Written(f, m) == IF m < 10 THEN <<48 + m>> ELSE Append(f[m \div 10], 48 + (m % 10))

\* FormatNat is defined: the digits of a number come from a smaller one.
LEMMA DecimalSteps ==
    ASSUME NEW N \in Nat
    PROVE  \E f : /\ \A m \in 0 .. N : f[m] = Written(f, m)
                  /\ FormatNat(N) = f[N]
<1> DEFINE Q(f, n) == f = [m \in 0 .. n |-> Written(f, m)]
           P == {n \in 0 .. N : \E f : Q(f, n)}
<1>1. FormatNat(N) = (CHOOSE f : Q(f, N))[N]
  BY DEF FormatNat, Written
<1>2. 0 \in P
  <2> DEFINE f == [m \in 0 .. 0 |-> <<48 + m>>]
  <2>1. \A m \in 0 .. 0 : Written(f, m) = <<48 + m>>
    BY DEF Written
  <2>2. Q(f, 0)
    BY <2>1
  <2> HIDE DEF Q, f
  <2> QED BY <2>2
<1>3. ASSUME NEW n \in 0 .. N - 1, n \in P PROVE n + 1 \in P
  <2>1. PICK f : Q(f, n)
    BY <1>3
  <2> DEFINE g == [m \in 0 .. n + 1 |-> IF m = n + 1 THEN Written(f, m) ELSE f[m]]
  <2>2. ASSUME NEW m \in 0 .. n PROVE f[m] = Written(f, m) /\ g[m] = f[m]
    <3>1. f[m] = Written(f, m)
      BY <2>1
    <3> QED BY <3>1
  <2>3. ASSUME NEW m \in 0 .. n + 1 PROVE g[m] = Written(g, m)
    <3>1. g[m] = Written(f, m)
      <4>1. CASE m = n + 1
        BY <4>1
      <4>2. CASE m # n + 1
        <5>1. m \in 0 .. n
          BY <4>2
        <5> QED BY <2>2, <5>1
      <4> QED BY <4>1, <4>2
    <3>2. ~ (m < 10) => m \div 10 \in 0 .. n
      OBVIOUS
    <3>3. ~ (m < 10) => g[m \div 10] = f[m \div 10]
      BY <2>2, <3>2
    <3> HIDE DEF g
    <3>4. Written(g, m) = Written(f, m)
      BY <3>3, Zenon DEF Written
    <3> QED BY <3>1, <3>4
  <2>4. g = [m \in 0 .. n + 1 |-> g[m]]
    OBVIOUS
  <2> HIDE DEF g
  <2>5. Q(g, n + 1)
    BY <2>3, <2>4
  <2> HIDE DEF Q
  <2> QED BY <2>5
<1>4. N \in P
  <2> HIDE DEF P
  <2>1. \A n \in 0 .. N - 1 : n \in P => n + 1 \in P
    BY <1>3
  <2>2. \A n \in 0 .. N : n \in P
    BY <1>2, <2>1, UpTo, Zenon
  <2> QED BY <2>2
<1>5. PICK f : f = (CHOOSE h : Q(h, N)) /\ Q(f, N)
  <2> HIDE DEF Q
  <2> QED BY <1>4
<1>6. ASSUME NEW m \in 0 .. N PROVE f[m] = Written(f, m)
  BY <1>5
<1> HIDE DEF Q
<1> QED BY <1>1, <1>5, <1>6

\* The digits that FormatNat writes have the value of the number.
LEMMA FormatNatNumber ==
    ASSUME NEW n \in Nat
    PROVE  LET d == FormatNat(n)
           IN  d \in Seq(Digit) /\ d # << >> /\ Number(d) = n
<1>1. PICK f : /\ \A m \in 0 .. n : f[m] = Written(f, m)
               /\ FormatNat(n) = f[n]
  BY DecimalSteps
<1> DEFINE Decimal(m) == f[m] \in Seq(Digit) /\ f[m] # << >> /\ Number(f[m]) = m
           P == {k \in 0 .. n : \A m \in 0 .. k : Decimal(m)}
<1>0. \A e \in Digit : e \in Int
  BY DEF Digit
<1>2. ASSUME NEW d \in Seq(Digit), NEW e \in Digit
      PROVE  Add(d, e) \in Seq(Digit) /\ Add(d, e) # << >>
             /\ Number(Add(d, e)) = 10 * Number(d) + e - 48
  <2>1. d \in Seq(Int) /\ e \in Int
    <3>1. Digit \subseteq Int
      BY <1>0
    <3> QED BY <3>1, SeqMonotonic
  <2>2. Add(d, e) \in Seq(Digit)
    BY AddType
  <2>3. Len(Add(d, e)) = Len(d) + 1 /\ Len(d) \in Nat
    BY LastAdd
  <2>4. Number(Add(d, e)) = 10 * Number(d) + e - 48
    BY <2>1, NumberAdd
  <2> DEFINE t == Add(d, e)
  <2> HIDE DEF t
  <2>5. t # << >>
    BY <2>3 DEF t
  <2> QED BY <2>2, <2>4, <2>5 DEF t
<1>3. ASSUME NEW m \in 0 .. n, m < 10 PROVE Decimal(m)
  <2> DEFINE e == 48 + m
             o == << >>
  <2>1. f[m] = <<e>> /\ e \in Digit /\ e \in Int /\ m = e - 48
    <3>1. f[m] = Written(f, m)
      BY <1>1
    <3>2. Written(f, m) = <<e>>
      BY <1>3, Zenon DEF Written
    <3>3. e \in Digit /\ e \in Int /\ m = e - 48
      BY <1>3 DEF Digit
    <3> HIDE DEF e
    <3> QED BY <3>1, <3>2, <3>3
  <2> HIDE DEF e
  <2>2. o \in Seq(Digit) /\ o \in Seq(Int) /\ Append(o, e) = <<e>>
    OBVIOUS
  <2>3. Number(o) = 0
    BY <2>1, <2>2, NumberAdd
  <2> HIDE DEF o
  <2>4. f[m] = Add(o, e)
    BY <2>1, <2>2 DEF Add
  <2>5. f[m] \in Seq(Digit) /\ f[m] # << >> /\ Number(f[m]) = 10 * Number(o) + e - 48
    BY <1>2, <2>1, <2>2, <2>4
  <2>6. 10 * Number(o) + e - 48 = m
    BY <2>1, <2>3
  <2> QED BY <2>5, <2>6
<1>4. ASSUME NEW m \in 0 .. n, ~ (m < 10), Decimal(m \div 10) PROVE Decimal(m)
  <2> DEFINE e == 48 + (m % 10)
             d == f[m \div 10]
  <2>1. f[m] = Add(d, e)
    BY <1>1, <1>4, Zenon DEF Written, Add
  <2>2. e \in Digit /\ e \in Int /\ 10 * (m \div 10) + e - 48 = m
    BY DEF Digit
  <2>3. d \in Seq(Digit) /\ Number(d) = m \div 10
    BY <1>4
  <2> HIDE DEF e, d
  <2>4. f[m] \in Seq(Digit) /\ f[m] # << >> /\ Number(f[m]) = 10 * Number(d) + e - 48
    BY <1>2, <2>1, <2>2, <2>3
  <2> QED BY <2>2, <2>3, <2>4
<1> HIDE DEF Decimal
<1>5. 0 \in P
  BY <1>3
<1>6. ASSUME NEW k \in 0 .. n - 1, k \in P PROVE k + 1 \in P
  <2>1. k + 1 \in 0 .. n /\ (~ (k + 1 < 10) => (k + 1) \div 10 \in 0 .. k)
    OBVIOUS
  <2>2. \A m \in 0 .. k : Decimal(m)
    BY <1>6
  <2>3. Decimal(k + 1)
    BY <1>3, <1>4, <2>1, <2>2
  <2>4. \A m \in 0 .. k + 1 : m \in 0 .. k \/ m = k + 1
    OBVIOUS
  <2> QED BY <2>1, <2>2, <2>3, <2>4
<1>7. n \in P
  <2> HIDE DEF P
  <2>1. \A k \in 0 .. n - 1 : k \in P => k + 1 \in P
    BY <1>6
  <2>2. \A k \in 0 .. n : k \in P
    BY <1>5, <2>1, UpTo, Zenon
  <2> QED BY <2>2
<1>8. Decimal(n)
  BY <1>7
<1> QED BY <1>1, <1>8 DEF Decimal

\* g repeats a step H, N times from b on.
Repeats(b, H, N, g) == g[0] = b /\ \A n \in 1 .. N : g[n] = H[g[n - 1]]

\* There is such a function.
LEMMA Repeated ==
    ASSUME NEW A, NEW b \in A, NEW H \in [A -> A], NEW N \in Nat
    PROVE  \E g \in [0 .. N -> A] : Repeats(b, H, N, g)
<1> DEFINE G == [p \in A \X A |-> H[p[1]]]
           s == [i \in 1 .. N |-> b]
<1>1. s \in Seq(A) /\ Len(s) = N /\ \A i \in 1 .. N : s[i] = b
  OBVIOUS
<1>2. G \in [A \X A -> A] /\ \A x, y \in A : G[<<x, y>>] = H[x]
  OBVIOUS
<1> HIDE DEF G, s
<1>3. PICK g \in [0 .. N -> A] : Scan(A, A, b, G, s, g)
  BY <1>1, <1>2, ScanExists
<1>4. g[0] = b
  BY <1>3 DEF Scan
<1>5. ASSUME NEW n \in 1 .. N PROVE g[n] = H[g[n - 1]]
  <2>1. g[n] = G[<<g[n - 1], s[n]>>]
    BY <1>1, <1>3 DEF Scan
  <2>2. g[n - 1] \in A
    OBVIOUS
  <2> QED BY <1>1, <1>2, <2>1, <2>2
<1> QED BY <1>4, <1>5 DEF Repeats

\* IntLimit is 128 times 256, for every byte but the first.
LEMMA LimitSteps ==
    \E f : /\ f[0] = 128 /\ \A n \in 1 .. IntBytes - 1 : f[n] = 256 * f[n - 1]
           /\ IntLimit = f[IntBytes - 1]
<1> DEFINE H == [x \in Int |-> 256 * x]
           N == IntBytes - 1
           E(f, n) == IF n = 0 THEN 128 ELSE 256 * f[n - 1]
           Q(f) == f = [n \in 0 .. N |-> E(f, n)]
<1>0. N \in Nat /\ H \in [Int -> Int] /\ 128 \in Int /\ \A x \in Int : H[x] = 256 * x
  BY IntWidth
<1>1. IntLimit = (CHOOSE f : Q(f))[N]
  BY DEF IntLimit
<1> HIDE DEF N, H
<1>2. PICK g \in [0 .. N -> Int] : g[0] = 128 /\ \A n \in 1 .. N : g[n] = H[g[n - 1]]
  <2> DEFINE A == Int
             b == 128
  <2>1. N \in Nat /\ H \in [A -> A] /\ b \in A
    BY <1>0
  <2> HIDE DEF A, b
  <2>2. \E g \in [0 .. N -> A] : Repeats(b, H, N, g)
    BY <2>1, Repeated
  <2> QED BY <2>2 DEF A, b, Repeats
<1>3. ASSUME NEW n \in 0 .. N PROVE g[n] = E(g, n)
  <2>1. CASE n = 0
    BY <1>2, <2>1
  <2>2. CASE n # 0
    <3>1. n \in 1 .. N /\ g[n - 1] \in Int
      BY <1>0, <2>2
    <3> QED BY <1>0, <1>2, <2>2, <3>1
  <2> QED BY <2>1, <2>2
<1>4. Q(g)
  <2> HIDE DEF E
  <2> QED BY <1>3
<1>5. PICK f : f = (CHOOSE h : Q(h)) /\ Q(f)
  <2> HIDE DEF Q
  <2> QED BY <1>4
<1>6. ASSUME NEW n \in 0 .. N PROVE f[n] = E(f, n)
  <2> HIDE DEF E
  <2> QED BY <1>5
<1>7. f[0] = 128
  <2>1. 0 \in 0 .. N
    BY <1>0
  <2>2. f[0] = E(f, 0)
    BY <1>6, <2>1, Zenon
  <2> QED BY <2>2
<1>8. ASSUME NEW n \in 1 .. N PROVE f[n] = 256 * f[n - 1]
  <2>1. n \in 0 .. N /\ n # 0
    BY <1>0
  <2>2. f[n] = E(f, n)
    BY <1>6, <2>1, Zenon
  <2> QED BY <2>1, <2>2, Zenon
<1> HIDE DEF Q
<1> QED BY <1>1, <1>5, <1>7, <1>8 DEF N

\* IntLimit is a positive number.
LEMMA LimitType == IntLimit \in Nat \ {0}
<1>1. PICK f : /\ f[0] = 128 /\ \A n \in 1 .. IntBytes - 1 : f[n] = 256 * f[n - 1]
               /\ IntLimit = f[IntBytes - 1]
  BY LimitSteps
<1> DEFINE N == IntBytes - 1
           P == {n \in 0 .. N : f[n] \in Nat \ {0}}
<1>0. N \in Nat
  BY IntWidth
<1>2. 0 \in P
  BY <1>0, <1>1
<1>3. ASSUME NEW n \in 0 .. N - 1, n \in P PROVE n + 1 \in P
  <2>1. f[n + 1] = 256 * f[(n + 1) - 1] /\ n + 1 \in 0 .. N /\ (n + 1) - 1 = n
    BY <1>0, <1>1
  <2>2. f[n + 1] = 256 * f[n] /\ f[n] \in Nat \ {0}
    BY <1>3, <2>1
  <2> QED BY <2>1, <2>2
<1>4. N \in P
  <2> HIDE DEF P, N
  <2>1. \A n \in 0 .. N - 1 : n \in P => n + 1 \in P
    BY <1>3
  <2>2. \A n \in 0 .. N : n \in P
    BY <1>0, <1>2, <2>1, UpTo, Zenon
  <2> QED BY <1>0, <2>2
<1> QED BY <1>1, <1>4

\* What the code writes for an int64 is read as the same number.
LEMMA ParseFormatInt ==
    ASSUME NEW n \in Int64
    PROVE  FormatInt(n) \in Text /\ ParseInt(FormatInt(n)) = n
<1>0. n \in Int
  BY LimitType DEF Int64
<1>1. CASE n < 0
  <2> DEFINE d == FormatNat(-n)
             s == <<Minus>> \o d
  <2>1. d \in Seq(Digit) /\ d # << >> /\ Number(d) = -n
    <3>1. -n \in Nat
      BY <1>0, <1>1
    <3> QED BY <3>1, FormatNatNumber, Zenon
  <2> HIDE DEF d
  <2>2. FormatInt(n) = s
    BY <1>1, Zenon DEF FormatInt, d
  <2>3. d \in Seq(Byte) /\ <<Minus>> \in Seq(Byte) /\ Range(d) \subseteq Digit
    BY <2>1 DEF Digit, Byte, Minus, Range
  <2>4. s \in Seq(Byte) /\ s # << >> /\ s[1] = Minus /\ Tail(s) = d
    BY <2>1, <2>3
  <2> HIDE DEF s
  <2>5. ParseInt(s) = IF Tail(s) # << >> /\ Range(Tail(s)) \subseteq Digit
                         /\ -Number(Tail(s)) \in Int64
                      THEN -Number(Tail(s)) ELSE Error
    <3>1. s # << >> /\ s[1] \in {Plus, Minus} /\ s[1] = Minus
      BY <2>4
    <3> QED BY <3>1, Zenon DEF ParseInt
  <2>6. - Number(d) = n
    BY <1>0, <2>1
  <2>7. ParseInt(s) = n
    BY <2>1, <2>3, <2>4, <2>5, <2>6, Zenon
  <2> QED BY <2>2, <2>4, <2>7, TextDef
<1>2. CASE ~ (n < 0)
  <2> DEFINE d == FormatNat(n)
  <2>1. d \in Seq(Digit) /\ d # << >> /\ Number(d) = n
    <3>1. n \in Nat
      BY <1>0, <1>2
    <3> QED BY <3>1, FormatNatNumber, Zenon
  <2> HIDE DEF d
  <2>2. FormatInt(n) = d
    BY <1>2, Zenon DEF FormatInt, d
  <2>3. d \in Seq(Byte) /\ Range(d) \subseteq Digit
    BY <2>1 DEF Digit, Byte, Range
  <2>4. d[1] \notin {Plus, Minus}
    BY <2>1 DEF Digit, Plus, Minus
  <2>5. ParseInt(d) = IF d # << >> /\ Range(d) \subseteq Digit
                         /\ Number(d) \in Int64
                      THEN Number(d) ELSE Error
    BY <2>4, Zenon DEF ParseInt
  <2>6. ParseInt(d) = n
    BY <2>1, <2>3, <2>5, Zenon
  <2> QED BY <2>2, <2>3, <2>6, TextDef
<1> QED BY <1>1, <1>2

--------------------------------------------------------------------------------
(* FormatKey and ParseKey *)

\* The keys that uriKey makes: an int64 is its bytes, and only an opaque key
\* has a type of its own.
URIKeys ==
    {k \in [Type : KeyTypes, kind : Text, Data : Text] :
        /\ k.Type # "opaque" => k.kind = << >>
        /\ k.Type = "int64" => Len(k.Data) = IntBytes}

\* A key's text: its tag, a colon, and its value.
Tagged(tag, value) == <<tag, Colon>> \o value

\* seg is cut at its first colon into the tag and the value.
TaggedAs(seg, tag, value) ==
    /\ seg \in Text /\ Positions(seg, Colon) # {}
    /\ Before(seg, Colon) = <<tag>> /\ After(seg, Colon) = value

\* Whatever the value holds, colons too, it is cut off after the tag.
LEMMA TaggedRead ==
    ASSUME NEW tag \in Byte \ {Colon}, NEW value \in Text
    PROVE  TaggedAs(Tagged(tag, value), tag, value)
<1> DEFINE o == <<tag>>
           x == <<tag, Colon>>
<1>0. value \in Seq(Byte) /\ Colon \in Byte /\ tag \in Byte
  BY TextDef, SchemeType
<1>1. o \in Seq(Byte) /\ Len(o) = 1 /\ o[1] = tag /\ Free(o, Colon)
  BY DEF Free
<1>2. x \in Seq(Byte) /\ Len(x) = 2 /\ x[1] = tag /\ x[2] = Colon
  BY <1>0
<1> HIDE DEF o, x
<1>3. x = Add(o, Colon)
  <2>1. x[Len(o) + 1] = Colon /\ Len(x) = Len(o) + 1
    BY <1>1, <1>2
  <2>2. \A i \in 1 .. Len(o) : x[i] = o[i]
    BY <1>1, <1>2
  <2>3. o \in Seq(Byte) /\ x \in Seq(Byte)
    BY <1>1, <1>2
  <2> QED BY <1>0, <2>1, <2>2, <2>3, AddEqual
<1>4. Cat(x, value) \in Seq(Byte)
  BY <1>0, <1>2, CatType
<1>5. /\ Positions(Cat(x, value), Colon) # {}
      /\ Before(Cat(x, value), Colon) = o
      /\ After(Cat(x, value), Colon) = value
  BY <1>0, <1>1, <1>3, CutAt
<1>6. Tagged(tag, value) = Cat(x, value)
  BY Zenon DEF Cat, Tagged, x
<1> QED BY <1>4, <1>5, <1>6, TextDef DEF TaggedAs, o

\* The fields of a key, none of which is Error.
LEMMA KeyFields ==
    ASSUME NEW key \in URIKeys
    PROVE  /\ key.Type \in KeyTypes /\ key.kind \in Text /\ key.Data \in Text /\ key # Error
           /\ key.kind # Error /\ key.Data # Error
           /\ key = URIKey(key.Type, key.kind, key.Data)
           /\ key.Type # "opaque" => key.kind = << >>
           /\ key.Type = "int64" => Len(key.Data) = IntBytes
<1>1. key \in [Type : KeyTypes, kind : Text, Data : Text]
  BY DEF URIKeys
<1> DEFINE X == Text
<1>2. key \in [Type : KeyTypes, kind : X, Data : X]
  BY <1>1
<1>3. Error \notin X /\ Error \notin [Type : KeyTypes, kind : X, Data : X]
  BY ErrorAssumption
<1> HIDE DEF X
<1>4. /\ key.Type \in KeyTypes /\ key.kind \in X /\ key.Data \in X /\ key # Error
      /\ key.kind # Error /\ key.Data # Error
      /\ key = [Type |-> key.Type, kind |-> key.kind, Data |-> key.Data]
  BY <1>2, <1>3
<1>5. /\ key.Type # "opaque" => key.kind = << >>
      /\ key.Type = "int64" => Len(key.Data) = IntBytes
  BY DEF URIKeys
<1> QED BY <1>4, <1>5, Zenon DEF X, URIKey

\* Signed takes one byte more at a time, from the sign on.
LEMMA SignedSteps ==
    ASSUME NEW data \in Seq(Int), Len(data) = IntBytes
    PROVE  \E f : /\ f[0] = IF data[1] < 128 THEN 0 ELSE -1
                  /\ \A n \in 1 .. IntBytes : f[n] = 256 * f[n - 1] + data[n]
                  /\ Signed(data) = f[IntBytes]
<1> DEFINE G == [p \in Int \X Int |-> 256 * p[1] + p[2]]
           sign == IF data[1] < 128 THEN 0 ELSE -1
           E(f, n) == IF n = 0 THEN sign ELSE 256 * f[n - 1] + data[n]
           Q(f) == f = [n \in 0 .. IntBytes |-> E(f, n)]
<1>0. /\ IntBytes \in Nat /\ G \in [Int \X Int -> Int] /\ sign \in Int
      /\ \A x, y \in Int : G[<<x, y>>] = 256 * x + y
  BY IntWidth
<1>1. Signed(data) = (CHOOSE f : Q(f))[IntBytes]
  BY DEF Signed
<1> HIDE DEF G, sign
<1>2. PICK g \in [0 .. IntBytes -> Int] : Scan(Int, Int, sign, G, data, g)
  BY <1>0, ScanExists
<1>3. ASSUME NEW n \in 0 .. IntBytes PROVE g[n] = E(g, n)
  <2>1. CASE n = 0
    BY <1>2, <2>1 DEF Scan
  <2>2. CASE n # 0
    <3>1. g[n - 1] \in Int /\ data[n] \in Int
      BY <1>0, <2>2
    <3>2. g[n] = G[<<g[n - 1], data[n]>>]
      BY <1>0, <1>2, <2>2 DEF Scan
    <3>3. g[n] = 256 * g[n - 1] + data[n]
      BY <1>0, <3>1, <3>2
    <3> QED BY <2>2, <3>3, Zenon
  <2> QED BY <2>1, <2>2
<1>4. Q(g)
  <2> HIDE DEF E
  <2> QED BY <1>3
<1>5. PICK f : f = (CHOOSE h : Q(h)) /\ Q(f)
  <2> HIDE DEF Q
  <2> QED BY <1>4
<1>6. ASSUME NEW n \in 0 .. IntBytes PROVE f[n] = E(f, n)
  <2> HIDE DEF E
  <2> QED BY <1>5
<1>7. f[0] = sign
  <2>1. 0 \in 0 .. IntBytes
    BY <1>0
  <2>2. f[0] = E(f, 0)
    BY <1>6, <2>1, Zenon
  <2> QED BY <2>2
<1>8. ASSUME NEW n \in 1 .. IntBytes PROVE f[n] = 256 * f[n - 1] + data[n]
  <2>1. n \in 0 .. IntBytes /\ n # 0
    BY <1>0
  <2>2. f[n] = E(f, n)
    BY <1>6, <2>1, Zenon
  <2> QED BY <2>1, <2>2, Zenon
<1> HIDE DEF Q
<1> QED BY <1>1, <1>5, <1>7, <1>8 DEF sign

\* PutUint64 takes the bytes of n from the lowest on.
LEMMA PutSteps ==
    ASSUME NEW n \in Int
    PROVE  \E f : /\ f[0] = n /\ \A k \in 1 .. IntBytes - 1 : f[k] = f[k - 1] \div 256
                  /\ PutUint64(n) = [i \in 1 .. IntBytes |-> f[IntBytes - i] % 256]
<1> DEFINE H == [x \in Int |-> x \div 256]
           N == IntBytes - 1
           E(f, k) == IF k = 0 THEN n ELSE f[k - 1] \div 256
           Q(f) == f = [k \in 0 .. N |-> E(f, k)]
           c == CHOOSE f : Q(f)
<1>0. N \in Nat /\ H \in [Int -> Int] /\ \A x \in Int : H[x] = x \div 256
  BY IntWidth
<1>1. PutUint64(n) = [i \in 1 .. IntBytes |-> c[IntBytes - i] % 256]
  BY DEF PutUint64
<1> HIDE DEF N, H
<1>2. PICK g \in [0 .. N -> Int] : g[0] = n /\ \A k \in 1 .. N : g[k] = H[g[k - 1]]
  <2> DEFINE A == Int
  <2>1. N \in Nat /\ H \in [A -> A] /\ n \in A
    BY <1>0
  <2> HIDE DEF A
  <2>2. \E g \in [0 .. N -> A] : Repeats(n, H, N, g)
    BY <2>1, Repeated
  <2> QED BY <2>2 DEF A, Repeats
<1>3. ASSUME NEW k \in 0 .. N PROVE g[k] = E(g, k)
  <2>1. CASE k = 0
    BY <1>2, <2>1
  <2>2. CASE k # 0
    <3>1. k \in 1 .. N /\ g[k - 1] \in Int
      BY <1>0, <2>2
    <3>2. g[k] = g[k - 1] \div 256
      BY <1>0, <1>2, <3>1
    <3> QED BY <2>2, <3>2, Zenon
  <2> QED BY <2>1, <2>2
<1>4. Q(g)
  <2> HIDE DEF E
  <2> QED BY <1>3
<1>5. Q(c)
  <2> HIDE DEF Q
  <2> QED BY <1>4
<1> HIDE DEF c
<1>6. ASSUME NEW k \in 0 .. N PROVE c[k] = E(c, k)
  <2> HIDE DEF E
  <2> QED BY <1>5
<1>7. c[0] = n
  <2>1. 0 \in 0 .. N
    BY <1>0
  <2>2. c[0] = E(c, 0)
    BY <1>6, <2>1, Zenon
  <2> QED BY <2>2
<1>8. ASSUME NEW k \in 1 .. N PROVE c[k] = c[k - 1] \div 256
  <2>1. k \in 0 .. N /\ k # 0
    BY <1>0
  <2>2. c[k] = E(c, k)
    BY <1>6, <2>1
  <2> QED BY <2>1, <2>2, Zenon
<1> HIDE DEF Q
<1> QED BY <1>1, <1>7, <1>8 DEF N

\* Whatever the number, PutUint64 fills IntBytes bytes.
LEMMA PutType ==
    ASSUME NEW n \in Int
    PROVE  PutUint64(n) \in Text /\ Len(PutUint64(n)) = IntBytes
<1>1. PICK f : /\ f[0] = n /\ \A k \in 1 .. IntBytes - 1 : f[k] = f[k - 1] \div 256
               /\ PutUint64(n) = [i \in 1 .. IntBytes |-> f[IntBytes - i] % 256]
  BY PutSteps
<1> DEFINE N == IntBytes - 1
           P == {k \in 0 .. N : f[k] \in Int}
<1>0. N \in Nat /\ IntBytes \in Nat
  BY IntWidth
<1>2. 0 \in P
  BY <1>0, <1>1
<1>3. ASSUME NEW k \in 0 .. N - 1, k \in P PROVE k + 1 \in P
  <2>1. f[k + 1] = f[(k + 1) - 1] \div 256 /\ k + 1 \in 0 .. N /\ (k + 1) - 1 = k
    BY <1>0, <1>1
  <2>2. f[k + 1] = f[k] \div 256 /\ f[k] \in Int
    BY <1>3, <2>1
  <2> QED BY <2>1, <2>2
<1>4. \A k \in 0 .. N : k \in P
  <2> HIDE DEF P, N
  <2>1. \A k \in 0 .. N - 1 : k \in P => k + 1 \in P
    BY <1>3
  <2> QED BY <1>0, <1>2, <2>1, UpTo, Zenon
<1>5. ASSUME NEW i \in 1 .. IntBytes PROVE f[IntBytes - i] % 256 \in Byte
  <2>1. IntBytes - i \in 0 .. N
    BY <1>0
  <2>2. f[IntBytes - i] \in Int
    BY <1>4, <2>1
  <2> QED BY <2>2 DEF Byte
<1> DEFINE d == [i \in 1 .. IntBytes |-> f[IntBytes - i] % 256]
<1>6. d \in Seq(Byte) /\ Len(d) = IntBytes
  BY <1>0, <1>5
<1> QED BY <1>1, <1>6, TextDef

\* The bytes of an int64 key and its value are the same.
LEMMA SignedUnsigned ==
    ASSUME NEW data \in Text, Len(data) = IntBytes
    PROVE  /\ Signed(data) \in Int64
           /\ PutUint64(Signed(data)) = data
<1>0. IntBytes \in Nat \ {0} /\ IntBytes - 1 \in Nat
  BY IntWidth
<1>1. data \in Seq(Byte) /\ data \in Seq(Int) /\ \A i \in 1 .. IntBytes : data[i] \in 0 .. 255
  <2>1. data \in Seq(Byte)
    BY TextDef
  <2>2. \A i \in 1 .. IntBytes : data[i] \in Byte
    BY <2>1, ElementOfSeq
  <2>3. Byte \subseteq Int
    BY DEF Byte
  <2>4. data \in Seq(Int)
    BY <2>1, <2>3, SeqMonotonic
  <2>5. \A i \in 1 .. IntBytes : data[i] \in 0 .. 255
    BY <2>2 DEF Byte
  <2> QED BY <2>1, <2>4, <2>5
<1>2. PICK v : /\ v[0] = IF data[1] < 128 THEN 0 ELSE -1
               /\ \A n \in 1 .. IntBytes : v[n] = 256 * v[n - 1] + data[n]
               /\ Signed(data) = v[IntBytes]
  BY <1>1, SignedSteps
<1>3. PICK l : /\ l[0] = 128 /\ \A n \in 1 .. IntBytes - 1 : l[n] = 256 * l[n - 1]
               /\ IntLimit = l[IntBytes - 1]
  BY LimitSteps
<1> DEFINE Within(n) == /\ v[n + 1] \in Int /\ l[n] \in Int
                        /\ -l[n] <= v[n + 1] /\ v[n + 1] <= l[n] - 1
           N == IntBytes - 1
           P == {n \in 0 .. N : Within(n)}
<1>4. v[0] \in Int /\ v[1] = 256 * v[0] + data[1] /\ data[1] \in 0 .. 255
  <2>1. 1 \in 1 .. IntBytes /\ 1 - 1 = 0
    BY <1>0
  <2>2. v[1] = 256 * v[1 - 1] + data[1]
    BY <1>2, <2>1
  <2> QED BY <1>1, <1>2, <2>1, <2>2
<1>5. 0 \in P
  <2>1. v[1] \in Int /\ -128 <= v[1] /\ v[1] <= 127
    <3> DEFINE x == v[0]
               y == data[1]
    <3>1. /\ v[1] = 256 * x + y /\ y \in 0 .. 255
          /\ y < 128 => x = 0
          /\ ~ (y < 128) => x = -1
      <4>1. x = IF y < 128 THEN 0 ELSE -1
        BY <1>2
      <4>2. v[1] = 256 * x + y /\ y \in 0 .. 255
        BY <1>4
      <4> HIDE DEF x, y
      <4> QED BY <4>1, <4>2
    <3> HIDE DEF x, y
    <3>2. CASE y < 128
      BY <3>1, <3>2
    <3>3. CASE ~ (y < 128)
      BY <3>1, <3>3
    <3> QED BY <3>2, <3>3
  <2>2. 0 + 1 = 1 /\ 0 \in 0 .. N
    BY <1>0
  <2> QED BY <1>3, <2>1, <2>2
<1>6. ASSUME NEW n \in 0 .. N - 1, n \in P PROVE n + 1 \in P
  <2>1. n + 1 \in 0 .. N /\ n + 1 \in 1 .. IntBytes - 1 /\ (n + 1) + 1 \in 1 .. IntBytes
        /\ ((n + 1) + 1) - 1 = n + 1 /\ (n + 1) - 1 = n
    BY <1>0
  <2>2. v[(n + 1) + 1] = 256 * v[n + 1] + data[(n + 1) + 1] /\ data[(n + 1) + 1] \in 0 .. 255
    BY <1>1, <1>2, <2>1
  <2>3. l[n + 1] = 256 * l[n]
    BY <1>3, <2>1
  <2>4. Within(n)
    BY <1>6
  <2>5. Within(n + 1)
    <3> DEFINE x == v[n + 1]
               y == data[(n + 1) + 1]
               z == l[n]
    <3>1. x \in Int /\ y \in 0 .. 255 /\ z \in Int /\ -z <= x /\ x <= z - 1
      BY <2>2, <2>4
    <3>2. v[(n + 1) + 1] = 256 * x + y /\ l[n + 1] = 256 * z
      BY <2>2, <2>3
    <3> HIDE DEF x, y, z
    <3>3. /\ 256 * x + y \in Int /\ 256 * z \in Int
          /\ -(256 * z) <= 256 * x + y /\ 256 * x + y <= 256 * z - 1
      BY <3>1
    <3> QED BY <3>2, <3>3
  <2> QED BY <2>1, <2>5
<1>7. \A n \in 0 .. N : n \in P
  <2> HIDE DEF P, N
  <2>0. N \in Nat
    BY <1>0 DEF N
  <2>1. \A n \in 0 .. N - 1 : n \in P => n + 1 \in P
    BY <1>6
  <2> QED BY <1>5, <2>0, <2>1, UpTo, Zenon
<1>8. \A n \in 0 .. IntBytes : v[n] \in Int
  <2> SUFFICES ASSUME NEW n \in 0 .. IntBytes PROVE v[n] \in Int
    OBVIOUS
  <2>1. CASE n = 0
    BY <1>4, <2>1
  <2>2. CASE n # 0
    <3>1. n - 1 \in 0 .. N /\ (n - 1) + 1 = n
      BY <1>0, <2>2
    <3>2. Within(n - 1)
      BY <1>7, <3>1
    <3> QED BY <3>1, <3>2
  <2> QED BY <2>1, <2>2
<1>9. Signed(data) \in Int64
  <2>1. N \in 0 .. N /\ N + 1 = IntBytes
    BY <1>0
  <2>2. Within(N)
    BY <1>7, <2>1
  <2> HIDE DEF N
  <2>3. v[IntBytes] \in Int /\ l[N] \in Int /\ -l[N] <= v[IntBytes] /\ v[IntBytes] <= l[N] - 1
    BY <2>1, <2>2
  <2>4. IntLimit = l[N]
    BY <1>3 DEF N
  <2> QED BY <1>2, <2>3, <2>4 DEF Int64
<1> HIDE DEF P, Within
<1>10. PICK f : /\ f[0] = v[IntBytes] /\ \A k \in 1 .. IntBytes - 1 : f[k] = f[k - 1] \div 256
                /\ PutUint64(v[IntBytes]) = [i \in 1 .. IntBytes |-> f[IntBytes - i] % 256]
  <2>1. v[IntBytes] \in Int
    BY <1>0, <1>8
  <2> QED BY <2>1, PutSteps
<1>11. ASSUME NEW n \in 1 .. IntBytes PROVE v[n] % 256 = data[n] /\ v[n] \div 256 = v[n - 1]
  <2>1. n - 1 \in 0 .. IntBytes
    BY <1>0
  <2> DEFINE x == v[n - 1]
             y == data[n]
  <2>2. x \in Int /\ y \in 0 .. 255 /\ v[n] = 256 * x + y
    BY <1>1, <1>2, <1>8, <2>1
  <2> HIDE DEF x, y
  <2>3. (256 * x + y) % 256 = y /\ (256 * x + y) \div 256 = x
    BY <2>2
  <2> QED BY <2>2, <2>3 DEF x, y
<1> DEFINE R == {k \in 0 .. N : f[k] = v[IntBytes - k]}
<1>12. 0 \in R
  BY <1>0, <1>10
<1>13. ASSUME NEW k \in 0 .. N - 1, k \in R PROVE k + 1 \in R
  <2>1. k + 1 \in 0 .. N /\ k + 1 \in 1 .. IntBytes - 1 /\ (k + 1) - 1 = k
        /\ IntBytes - k \in 1 .. IntBytes /\ (IntBytes - k) - 1 = IntBytes - (k + 1)
    BY <1>0
  <2>2. f[k + 1] = f[k] \div 256
    BY <1>10, <2>1
  <2>3. f[k] = v[IntBytes - k]
    BY <1>13
  <2>4. v[IntBytes - k] \div 256 = v[(IntBytes - k) - 1]
    BY <1>11, <2>1
  <2> QED BY <2>1, <2>2, <2>3, <2>4
<1>14. \A k \in 0 .. N : k \in R
  <2> HIDE DEF R, N
  <2>0. N \in Nat
    BY <1>0 DEF N
  <2>1. \A k \in 0 .. N - 1 : k \in R => k + 1 \in R
    BY <1>13
  <2> QED BY <1>12, <2>0, <2>1, UpTo, Zenon
<1>15. ASSUME NEW i \in 1 .. IntBytes PROVE f[IntBytes - i] % 256 = data[i]
  <2>1. IntBytes - i \in 0 .. N /\ IntBytes - (IntBytes - i) = i
    BY <1>0
  <2>2. f[IntBytes - i] = v[i]
    BY <1>14, <2>1
  <2> QED BY <1>11, <2>2
<1> DEFINE d == [i \in 1 .. IntBytes |-> f[IntBytes - i] % 256]
<1>16. d = data
  <2>1. d = [i \in 1 .. IntBytes |-> data[i]]
    BY <1>15
  <2>2. data = [i \in 1 .. IntBytes |-> data[i]]
    BY <1>0, <1>1
  <2> HIDE DEF d
  <2> QED BY <2>1, <2>2
<1> QED BY <1>2, <1>9, <1>10, <1>16

\* A key is read back from its text as the key it was, its type included.
THEOREM KeyRoundTrip ==
    ASSUME NEW key \in URIKeys, FormatKey(key) # Error
    PROVE  FormatKey(key) \in Text /\ ParseKey(FormatKey(key)) = key
<1> DEFINE data == key.Data
           kind == key.kind
           seg == FormatKey(key)
<1>0. /\ key.Type \in KeyTypes /\ kind \in Text /\ data \in Text /\ key # Error
      /\ kind # Error /\ data # Error
      /\ key = URIKey(key.Type, kind, data)
      /\ key.Type # "opaque" => kind = << >>
      /\ key.Type = "int64" => Len(data) = IntBytes
  BY KeyFields
<1>1. SUFFICES seg \in Text /\ ReadKey(seg) = key
  <2>1. ASSUME ReadKey(seg) = key PROVE ParseKey(seg) = key
    BY <1>0, <2>1, Zenon DEF ParseKey
  <2> QED BY <2>1
<1>2. /\ 115 \in Byte \ {Colon} /\ 105 \in Byte \ {Colon}
      /\ 98 \in Byte \ {Colon} /\ 111 \in Byte \ {Colon}
  BY DEF Byte, Colon
<1>3. CASE key.Type = "string"
  <2>1. seg = Tagged(115, data)
    BY <1>3 DEF FormatKey, Tagged
  <2>3. TaggedAs(seg, 115, data)
    BY <1>2, <1>0, <2>1, TaggedRead
  <2> HIDE DEF seg
  <2>4. ReadKey(seg) = URIKey("string", << >>, data)
    BY <1>2, <2>3 DEF ReadKey, TaggedAs
  <2> QED BY <1>0, <1>3, <2>3, <2>4 DEF TaggedAs
<1>4. CASE key.Type = "bytes"
  <2> DEFINE e == EncodeBase64(data)
  <2>0. e \in Text /\ DecodeBase64(e) = data
    BY <1>0, EncodeShape, DecodeEncode
  <2>1. seg = Tagged(98, e)
    BY <1>4 DEF FormatKey, Tagged
  <2> HIDE DEF e
  <2>3. TaggedAs(seg, 98, e)
    BY <1>2, <2>0, <2>1, TaggedRead
  <2> HIDE DEF seg
  <2>4. ReadKey(seg) = URIKey("bytes", << >>, data)
    BY <1>2, <2>0, <2>3 DEF ReadKey, TaggedAs
  <2> QED BY <1>0, <1>4, <2>3, <2>4 DEF TaggedAs
<1>5. CASE key.Type = "int64"
  <2> DEFINE n == Signed(data)
             t == FormatInt(n)
  <2>0. t \in Text /\ ParseInt(t) = n /\ PutUint64(n) = data /\ n # Error
    <3>1. n \in Int64 /\ PutUint64(n) = data
      BY <1>0, <1>5, SignedUnsigned
    <3> HIDE DEF n
    <3>2. n \in Int
      BY <3>1, LimitType DEF Int64
    <3> QED BY <3>1, <3>2, ParseFormatInt, ErrorAssumption
  <2>1. seg = Tagged(105, t)
    BY <1>0, <1>5 DEF FormatKey, Tagged
  <2> HIDE DEF t, n
  <2>3. TaggedAs(seg, 105, t)
    BY <1>2, <2>0, <2>1, TaggedRead
  <2> HIDE DEF seg
  <2>4. ReadKey(seg) = URIKey("int64", << >>, data)
    BY <1>2, <2>0, <2>3 DEF ReadKey, TaggedAs
  <2> QED BY <1>0, <1>5, <2>3, <2>4 DEF TaggedAs
<1>6. CASE key.Type = "opaque"
  <2> DEFINE e == EncodeBase64(kind)
             f == EncodeBase64(data)
             t == Cat(Add(e, Colon), f)
  <2>0. e \in Text /\ DecodeBase64(e) = kind /\ Free(e, Colon) /\ f \in Text /\ DecodeBase64(f) = data
    BY <1>0, EncodeShape, DecodeEncode
  <2>1. seg = <<111, Colon>> \o e \o <<Colon>> \o f
    BY <1>6 DEF FormatKey
  <2> HIDE DEF e, f
  <2>2. e \in Seq(Byte) /\ f \in Seq(Byte) /\ Colon \in Byte
    BY <2>0, TextDef, SchemeType
  <2>3. t \in Seq(Byte) /\ Positions(t, Colon) # {} /\ Before(t, Colon) = e /\ After(t, Colon) = f
    <3>1. Add(e, Colon) \in Seq(Byte)
      BY <2>2, AddType
    <3> QED BY <2>0, <2>2, <3>1, CatType, CutAt
  <2>4. seg = Tagged(111, t)
    <3> DEFINE o == <<111, Colon>>
               c == <<Colon>>
    <3>1. o \in Seq(Byte) /\ c \in Seq(Byte)
      BY <1>2, <2>2
    <3>2. Add(e, Colon) = Cat(e, c)
      BY <2>2, AddType
    <3>3. seg = Cat(Cat(Cat(o, e), c), f)
      BY <2>1, Zenon DEF Cat
    <3> HIDE DEF o, c, seg
    <3>4. Cat(Cat(o, e), c) = Cat(o, Cat(e, c)) /\ Cat(e, c) \in Seq(Byte)
      BY <2>2, <3>1, CatAssoc, CatType
    <3>5. Cat(Cat(o, Cat(e, c)), f) = Cat(o, Cat(Cat(e, c), f))
      BY <2>2, <3>1, <3>4, CatAssoc
    <3>6. seg = Cat(o, t)
      BY <3>2, <3>3, <3>4, <3>5, Zenon
    <3> QED BY <3>6, Zenon DEF Cat, o, Tagged
  <2> HIDE DEF t
  <2>5. t \in Text
    BY <2>3, TextDef
  <2>7. TaggedAs(seg, 111, t)
    BY <1>2, <2>4, <2>5, TaggedRead
  <2> HIDE DEF seg
  <2>8. ReadKey(seg) = URIKey("opaque", kind, data)
    BY <1>2, <2>0, <2>3, <2>7 DEF ReadKey, TaggedAs
  <2> QED BY <1>0, <1>6, <2>7, <2>8 DEF TaggedAs
<1>7. CASE key.Type = "unspecified"
  <2>1. seg = Error
    BY <1>7 DEF FormatKey
  <2> QED BY <2>1
<1> QED BY <1>0, <1>3, <1>4, <1>5, <1>6, <1>7 DEF KeyTypes

--------------------------------------------------------------------------------
(* The invariant of the specification *)

\* A text that Parse has taken, of one segment or more.
Accepted(a) ==
    /\ a.value \in Seq(Range(a.value))
    /\ a = Parse(a.value)
    /\ a.segments # << >>

KnownAccepted == \A i \in DOMAIN known : known[i].address # Error => Accepted(known[i].address)

KnownMade ==
    \A i \in DOMAIN known :
        Made(known[i]) =>
            /\ known[i].resource \in Text
            /\ known[i].key \in URIKeys
            /\ known[i].address = AppendKey(known[i].resource, known[i].key)

URIInv ==
    /\ known \in Seq(Range(known))
    /\ KnownAccepted
    /\ KnownMade

\* The parts of a text that a respelling keeps.
LEMMA Pieces ==
    ASSUME NEW S, NEW s \in Seq(S), NEW i \in 0 .. Len(s) + 1, NEW j \in 1 .. Len(s) + 3
    PROVE  SubSeq(s, 1, i - 1) \in Seq(S) /\ SubSeq(s, j, Len(s)) \in Seq(S)
<1>0. Len(s) \in Nat
  OBVIOUS
<1>1. i - 1 \in Int /\ \A k \in 1 .. i - 1 : s[k] \in S
  BY <1>0
<1>2. j \in Int /\ Len(s) \in Int /\ \A k \in j .. Len(s) : s[k] \in S
  BY <1>0
<1> QED BY <1>1, <1>2, SubSeqProperties

\* Whatever becomes of a URI, it is still a text.
LEMMA RespellingType ==
    ASSUME NEW S, NEW s \in Seq(S), NEW v \in Respellings(s)
    PROVE  v \in Seq(Range(v))
<1> DEFINE T == S \cup {x + 32 : x \in S} \cup {37, 45, 46, 47, 48, 43, 65}
                  \cup {HexDigit(x \div 16) : x \in S} \cup {HexDigit(x % 16) : x \in S}
                  \cup {16 * HexValue(s[i + 1]) + HexValue(s[i + 2]) : i \in DOMAIN s}
<1>0. DOMAIN s = 1 .. Len(s) /\ Len(s) \in Nat /\ \A i \in 1 .. Len(s) : s[i] \in S
  OBVIOUS
<1>1. s \in Seq(T)
  OBVIOUS
<1>2. /\ \A i \in DOMAIN s : /\ s[i] + 32 \in T /\ HexDigit(s[i] \div 16) \in T
                             /\ HexDigit(s[i] % 16) \in T
                             /\ 16 * HexValue(s[i + 1]) + HexValue(s[i + 2]) \in T
      /\ 37 \in T /\ 45 \in T /\ 46 \in T /\ 47 \in T /\ 48 \in T /\ 43 \in T /\ 65 \in T
  BY <1>0
<1> HIDE DEF T
<1>3. ASSUME NEW i \in 0 .. Len(s) + 1, NEW j \in 1 .. Len(s) + 3, NEW b \in Seq(T)
      PROVE  SubSeq(s, 1, i - 1) \o b \o SubSeq(s, j, Len(s)) \in Seq(T)
  <2> DEFINE x == SubSeq(s, 1, i - 1)
             y == SubSeq(s, j, Len(s))
  <2>1. x \in Seq(T) /\ y \in Seq(T)
    BY <1>1, Pieces
  <2> HIDE DEF x, y
  <2>2. (x \o b) \o y \in Seq(T)
    BY <2>1
  <2> QED BY <2>2 DEF x, y
<1>4. ASSUME NEW i \in DOMAIN s, NEW x \in T PROVE [s EXCEPT ![i] = x] \in Seq(T)
  BY <1>0, <1>1, ExceptSeq
<1>5. v \in Seq(T)
  <2> DEFINE B == {<<Slash>>, <<Dot>>, <<48>>, <<Plus>>, <<Minus>>, <<Percent, 48, 65>>}
             F(i, b) == SubSeq(s, 1, i) \o b \o SubSeq(s, i + 1, Len(s))
             R1 == {[s EXCEPT ![i] = @ + 32] : i \in {i \in DOMAIN s : s[i] \in Upper}}
             R2 == {ReplaceAt(s, i, 37) : i \in DOMAIN s}
             R3 == {SubSeq(s, 1, i - 1) \o <<Percent, HexDigit(s[i] \div 16), HexDigit(s[i] % 16)>>
                       \o SubSeq(s, i + 1, Len(s)) : i \in {i \in DOMAIN s : i > Len(Scheme)}}
             R4 == {SubSeq(s, 1, i - 1) \o <<16 * HexValue(s[i + 1]) + HexValue(s[i + 2])>>
                       \o SubSeq(s, i + 3, Len(s)) : i \in Positions(s, Percent)}
             R5 == {F(i, b) : i \in Len(Scheme) .. Len(s), b \in B}
  <2>0. Respellings(s) = R1 \cup R2 \cup R3 \cup R4 \cup R5
    BY DEF Respellings
  <2> HIDE DEF F
  <2>1. CASE v \in R1
    <3>1. PICK i \in DOMAIN s : v = [s EXCEPT ![i] = s[i] + 32]
      BY <2>1
    <3> QED BY <1>2, <1>4, <3>1
  <2>2. CASE v \in R2
    <3>1. PICK i \in DOMAIN s : v = [s EXCEPT ![i] = 37]
      BY <2>2 DEF ReplaceAt
    <3> QED BY <1>2, <1>4, <3>1
  <2>3. CASE v \in R3
    <3>1. PICK i \in DOMAIN s : v = SubSeq(s, 1, i - 1)
             \o <<Percent, HexDigit(s[i] \div 16), HexDigit(s[i] % 16)>> \o SubSeq(s, i + 1, Len(s))
      BY <2>3, Zenon
    <3>2. <<Percent, HexDigit(s[i] \div 16), HexDigit(s[i] % 16)>> \in Seq(T)
      BY <1>2 DEF Percent
    <3>3. i \in 0 .. Len(s) + 1 /\ i + 1 \in 1 .. Len(s) + 3
      BY <1>0
    <3> QED BY <1>3, <3>1, <3>2, <3>3, Zenon
  <2>4. CASE v \in R4
    <3>1. PICK i \in DOMAIN s : v = SubSeq(s, 1, i - 1)
             \o <<16 * HexValue(s[i + 1]) + HexValue(s[i + 2])>> \o SubSeq(s, i + 3, Len(s))
      BY <2>4, Zenon DEF Positions
    <3>2. <<16 * HexValue(s[i + 1]) + HexValue(s[i + 2])>> \in Seq(T)
      BY <1>2
    <3>3. i \in 0 .. Len(s) + 1 /\ i + 3 \in 1 .. Len(s) + 3
      BY <1>0
    <3> QED BY <1>3, <3>1, <3>2, <3>3, Zenon
  <2>5. CASE v \in R5
    <3>0. Len(Scheme) \in Nat /\ B \subseteq Seq(T)
      BY <1>2 DEF Scheme, Slash, Dot, Plus, Minus, Percent
    <3> HIDE DEF B
    <3>1. PICK i \in Len(Scheme) .. Len(s), b \in B :
               v = F(i, b)
      BY <2>5
    <3>2. i + 1 \in 0 .. Len(s) + 1 /\ i + 1 \in 1 .. Len(s) + 3 /\ (i + 1) - 1 = i
      BY <1>0, <3>0
    <3>3. b \in Seq(T)
      BY <3>0
    <3>4. SubSeq(s, 1, (i + 1) - 1) \o b \o SubSeq(s, i + 1, Len(s)) \in Seq(T)
      BY <1>3, <3>2, <3>3, Zenon
    <3> QED BY <3>1, <3>2, <3>4, Zenon DEF F
  <2> HIDE DEF R1, R2, R3, R4, R5
  <2> QED BY <2>0, <2>1, <2>2, <2>3, <2>4, <2>5
<1> QED BY <1>5, SeqOfRange

\* A store and segments of bytes are spelt in bytes.
LEMMA SpellingType ==
    ASSUME NEW store \in Text, NEW path \in Seq(Text), New(store, path) # Error
    PROVE  New(store, path).value \in Text
<1> DEFINE p == [k \in DOMAIN path |-> PathEscape(path[k])]
           j == Join(p, Slash)
<1>1. p \in Seq(Text)
  <2> DEFINE X == Text
  <2>1. path \in Seq(X) /\ \A x \in X : PathEscape(x) \in X
    BY EscapeFree
  <2> HIDE DEF X
  <2>2. DOMAIN path = 1 .. Len(path) /\ Len(path) \in Nat /\ \A k \in 1 .. Len(path) : path[k] \in X
    BY <2>1, LenProperties, ElementOfSeq
  <2>3. p = [k \in 1 .. Len(path) |-> PathEscape(path[k])]
    BY <2>2
  <2>4. \A k \in 1 .. Len(path) : PathEscape(path[k]) \in X
    BY <2>1, <2>2
  <2> HIDE DEF p
  <2>5. p \in Seq(X)
    BY <2>2, <2>3, <2>4
  <2> QED BY <2>5 DEF X
<1> HIDE DEF p
<1>2. j \in Seq(Byte)
  <2> DEFINE o == << >>
  <2>1. p \in Seq(Seq(Byte)) /\ Slash \in Byte /\ o \in Seq(Byte)
    BY <1>1, TextDef, SchemeType
  <2> HIDE DEF o
  <2> QED BY <2>1, JoinAdd
<1> HIDE DEF j
<1>3. Spelling(store, path) \in Seq(Byte)
  <2>0. Scheme \in Seq(Byte) /\ store \in Seq(Byte) /\ <<Slash>> \in Seq(Byte)
    BY SchemeType, TextDef
  <2>1. Scheme \o store \in Seq(Byte)
    BY <2>0, ConcatProperties
  <2>2. Scheme \o store \o <<Slash>> \in Seq(Byte)
    <3> DEFINE x == Scheme \o store
               y == <<Slash>>
    <3>1. x \in Seq(Byte) /\ y \in Seq(Byte)
      BY <2>0, <2>1
    <3> HIDE DEF x, y
    <3>2. x \o y \in Seq(Byte)
      BY <3>1
    <3> QED BY <3>2 DEF x, y
  <2>3. Scheme \o store \o <<Slash>> \o j \in Seq(Byte)
    <3> DEFINE x == Scheme \o store \o <<Slash>>
    <3>1. x \in Seq(Byte)
      BY <2>2
    <3> HIDE DEF x
    <3>2. x \o j \in Seq(Byte)
      BY <1>2, <3>1
    <3> QED BY <3>2 DEF x
  <2> QED BY <2>1, <2>3, Zenon DEF Spelling, j, p
<1>4. New(store, path) = Parse(Spelling(store, path))
  BY NewSpelling
<1> DEFINE v == Spelling(store, path)
<1> HIDE DEF v
<1>5. v \in Seq(Byte) /\ Parse(v) # Error
  BY <1>3, <1>4 DEF v
<1>6. Parse(v).value = v
  BY <1>5, ParseSpelling
<1> QED BY <1>4, <1>5, <1>6, TextDef DEF v

\* uriKey makes such keys of the keys of the SDK.
LEMMA UriKeyType ==
    ASSUME NEW k \in Keys
    PROVE  uriKey(k) \in URIKeys
<1>0. /\ k.kind \in KeyTypes /\ k.opaqueType \in Text
      /\ IF k.kind = "int64" THEN k.value \in Int64 ELSE k.value \in Text
  BY InputsAssumption
<1>1. << >> \in Text
  BY DEF Text
<1>2. CASE k.kind = "int64"
  <2> DEFINE d == PutUint64(k.value)
  <2>1. k.value \in Int
    BY <1>0, <1>2, LimitType DEF Int64
  <2>3. d \in Text /\ Len(d) = IntBytes
    BY <2>1, PutType
  <2> HIDE DEF d
  <2>4. uriKey(k) = [Type |-> "int64", kind |-> << >>, Data |-> d]
    BY <1>2 DEF uriKey, URIKey, d
  <2> QED BY <1>1, <2>3, <2>4 DEF URIKeys, KeyTypes
<1>3. CASE k.kind = "opaque"
  <2>1. uriKey(k) = [Type |-> "opaque", kind |-> k.opaqueType, Data |-> k.value]
    BY <1>3 DEF uriKey, URIKey
  <2> QED BY <1>0, <1>3, <2>1 DEF URIKeys, KeyTypes
<1>4. CASE k.kind # "int64" /\ k.kind # "opaque"
  <2>1. uriKey(k) = [Type |-> k.kind, kind |-> << >>, Data |-> k.value]
    BY <1>4 DEF uriKey, URIKey
  <2> QED BY <1>0, <1>1, <1>4, <2>1 DEF URIKeys
<1> QED BY <1>2, <1>3, <1>4

\* What Made and the invariant say of one entry.
Entry(e) ==
    /\ e.address # Error => Accepted(e.address)
    /\ Made(e) => /\ e.resource \in Text /\ e.key \in URIKeys
                  /\ e.address = AppendKey(e.resource, e.key)

\* URIInv, entry by entry.
LEMMA URIInvEntries ==
    URIInv <=> known \in Seq(Range(known)) /\ \A i \in DOMAIN known : Entry(known[i])
  BY DEF URIInv, KnownAccepted, KnownMade, Entry

\* Parse accepts with the value it was given.
LEMMA ParsedAccepted ==
    ASSUME NEW v, v \in Seq(Range(v)), NEW a, a = Parse(v), a # Error, a.segments # << >>
    PROVE  Accepted(a)
<1> DEFINE S == Byte \cup Range(v)
<1>1. v \in Seq(S) /\ Byte \subseteq S
  <2>1. Range(v) \subseteq S
    OBVIOUS
  <2> HIDE DEF S
  <2>2. v \in Seq(S)
    BY <2>1, SeqMonotonic
  <2> QED BY <2>2 DEF S
<1> HIDE DEF S
<1>2. a.value = v
  BY <1>1, ParseSpelling
<1> QED BY <1>2 DEF Accepted

\* MakeRecord learns such an entry.
LEMMA RecordEntry ==
    ASSUME NEW store \in Stores, NEW path \in Paths, NEW k \in Keys, New(store, path) # Error
    PROVE  LET resource == New(store, path).value
           IN  Entry([resource |-> resource, key |-> uriKey(k), address |-> NewRecordAddress(resource, k)])
<1> DEFINE R == New(store, path).value
           key == uriKey(k)
           a == NewRecordAddress(R, k)
           e == [resource |-> R, key |-> key, address |-> a]
<1>1. R \in Text
  <2>1. store \in Text /\ path \in Seq(Text)
    BY InputsAssumption
  <2> QED BY <2>1, SpellingType
<1>2. key \in URIKeys
  BY UriKeyType
<1>3. a # Error => a = AppendKey(R, key)
  BY DEF NewRecordAddress
<1> HIDE DEF R, key, a
<1>4. e.resource = R /\ e.key = key /\ e.address = a
  OBVIOUS
<1> HIDE DEF e
<1>5. ASSUME a # Error PROVE Accepted(a)
  <2>1. AppendKey(R, key) # Error
    BY <1>3, <1>5
  <2>2. FormatKey(key) \in Text
    <3>1. FormatKey(key) # Error
      BY <2>1, Zenon DEF AppendKey
    <3> QED BY <1>2, <3>1, KeyRoundTrip
  <2>3. a.value \in Text /\ a = Parse(a.value) /\ a.segments # << >>
    BY <1>1, <1>3, <1>5, <2>1, <2>2, RecordAddress
  <2>4. a.value \in Seq(Range(a.value))
    BY <2>3, SeqOfRange, TextDef
  <2> QED BY <2>3, <2>4 DEF Accepted
<1>6. Entry(e)
  BY <1>1, <1>2, <1>3, <1>4, <1>5 DEF Entry, Made
<1> QED BY <1>6 DEF e, R, key, a

\* And so does TakeAddress, whatever the text.
LEMMA TakenEntry ==
    ASSUME NEW v, v \in Seq(Range(v))
    PROVE  Entry([resource |-> Error, key |-> Error, address |-> NewAddress(v)])
<1> DEFINE a == NewAddress(v)
           e == [resource |-> Error, key |-> Error, address |-> a]
<1>1. a # Error => a = Parse(v) /\ a.segments # << >>
  BY Zenon DEF NewAddress
<1> HIDE DEF a
<1>2. e.key = Error /\ e.address = a
  OBVIOUS
<1> HIDE DEF e
<1>3. a # Error => Accepted(a)
  BY <1>1, ParsedAccepted
<1>4. Entry(e)
  BY <1>2, <1>3 DEF Entry, Made
<1> QED BY <1>4 DEF e, a

\* Learning one keeps the invariant.
LEMMA LearnEntry ==
    ASSUME URIInv, NEW resource, NEW key, NEW address, Learn(resource, key, address),
           Entry([resource |-> resource, key |-> key, address |-> address])
    PROVE  URIInv'
<1> DEFINE e == [resource |-> resource, key |-> key, address |-> address]
           S == Range(known) \cup {e}
           t == Append(known, e)
<1>0. Entry(e) /\ known' = t
  BY DEF Learn
<1> HIDE DEF e
<1>1. known \in Seq(Range(known)) /\ \A i \in DOMAIN known : Entry(known[i])
  BY URIInvEntries
<1>2. known \in Seq(S) /\ e \in S
  BY <1>1, SeqMonotonic
<1> HIDE DEF S
<1>3. /\ t \in Seq(S) /\ Len(t) = Len(known) + 1 /\ t[Len(known) + 1] = e
      /\ \A i \in 1 .. Len(known) : t[i] = known[i]
  <2>1. t \in Seq(S)
    BY <1>2, AppendProperties
  <2> QED BY <1>2, <2>1, LastAdd DEF Add
<1> HIDE DEF t
<1>4. t \in Seq(Range(t))
  BY <1>3, SeqOfRange
<1>5. ASSUME NEW i \in DOMAIN t PROVE Entry(t[i])
  <2>1. i \in 1 .. Len(known) + 1 /\ DOMAIN known = 1 .. Len(known) /\ Len(known) \in Nat
    BY <1>2, <1>3, LenProperties
  <2>2. i = Len(known) + 1 \/ i \in 1 .. Len(known)
    BY <2>1
  <2> QED BY <1>0, <1>1, <1>3, <2>1, <2>2
<1>6. known' \in Seq(Range(known')) /\ \A i \in DOMAIN known' : Entry(known'[i])
  BY <1>0, <1>4, <1>5
<1> QED BY <1>6 DEF URIInv, KnownAccepted, KnownMade, Entry

\* The addresses the application has were accepted by Parse, and the ones it
\* made of a resource and a key are what AppendKey returned for them.
LEMMA URIInvHolds == URISpec => []URIInv
<1>1. URIInit => URIInv
  <2> SUFFICES ASSUME URIInit PROVE URIInv
    OBVIOUS
  <2>1. known \in Seq({}) /\ DOMAIN known = {}
    BY DEF URIInit
  <2>2. known \in Seq(Range(known))
    BY <2>1, SeqOfRange
  <2> QED BY <2>1, <2>2, URIInvEntries
<1>2. URIInv /\ [URINext]_known => URIInv'
  <2> SUFFICES ASSUME URIInv, [URINext]_known PROVE URIInv'
    OBVIOUS
  <2>1. ASSUME NEW store \in Stores, NEW path \in Paths, NEW k \in Keys, MakeRecord(store, path, k)
        PROVE  URIInv'
    BY <2>1, RecordEntry, LearnEntry DEF MakeRecord
  <2>2. ASSUME Len(known) = 1, known[1].address # Error,
               NEW value \in Respellings(known[1].address.value), TakeAddress(value)
        PROVE  URIInv'
    <3> DEFINE a == known[1].address
    <3>1. known \in Seq(Range(known)) /\ \A i \in DOMAIN known : Entry(known[i])
      BY URIInvEntries
    <3>2. 1 \in DOMAIN known
      BY <2>2, <3>1, LenProperties
    <3>3. Accepted(a)
      BY <2>2, <3>1, <3>2 DEF Entry
    <3> HIDE DEF a
    <3>4. value \in Seq(Range(value))
      <4>1. value \in Respellings(a.value)
        BY DEF a
      <4>2. a.value \in Seq(Range(a.value))
        BY <3>3 DEF Accepted
      <4> DEFINE s == a.value
                 S == Range(s)
      <4>3. s \in Seq(S) /\ value \in Respellings(s)
        BY <4>1, <4>2
      <4> HIDE DEF s, S
      <4> QED BY <4>3, RespellingType
    <3> QED BY <2>2, <3>4, TakenEntry, LearnEntry DEF TakeAddress
  <2>3. ASSUME Forget PROVE URIInv'
    <3>1. known' = << >>
      BY <2>3 DEF Forget
    <3>2. known' \in Seq({}) /\ DOMAIN known' = {}
      BY <3>1
    <3>3. known' \in Seq(Range(known'))
      BY <3>2, SeqOfRange
    <3> QED BY <3>2, <3>3 DEF URIInv, KnownAccepted, KnownMade
  <2>4. ASSUME UNCHANGED known PROVE URIInv'
    BY <2>4 DEF URIInv, KnownAccepted, KnownMade, Made
  <2>5. ASSUME NEW value \in Offered, TakeAddress(value) PROVE URIInv'
    <3>1. value \in Seq(Range(value))
      BY InputsAssumption, TextDef, SeqOfRange
    <3> QED BY <2>5, <3>1, TakenEntry, LearnEntry DEF TakeAddress
  <2> QED BY <2>1, <2>2, <2>3, <2>4, <2>5 DEF URINext
<1> QED BY <1>1, <1>2, PTL DEF URISpec

\* An accepted address is spelt as New spells its store and segments.
LEMMA AcceptedSpelling ==
    ASSUME NEW a, a # Error, Accepted(a)
    PROVE  /\ a.value = Spelling(a.store, a.segments)
           /\ \E S : a.segments \in Seq(S)
<1> DEFINE v == a.value
           S == Byte \cup Range(v)
<1>1. v \in Seq(S) /\ Byte \subseteq S
  <2>1. Range(v) \subseteq S /\ v \in Seq(Range(v))
    BY DEF Accepted
  <2> HIDE DEF S, v
  <2>2. v \in Seq(S)
    BY <2>1, SeqMonotonic
  <2> QED BY <2>2 DEF S
<1>2. Parse(v) = a
  BY DEF Accepted
<1> HIDE DEF v, S
<1>3. /\ v = Spelling(a.store, a.segments)
      /\ \E n \in Nat : \E f : a.segments = [k \in 1 .. n |-> f[k]]
  <2>1. Parse(v) # Error
    BY <1>2
  <2>2. /\ v = Spelling(Parse(v).store, Parse(v).segments)
        /\ \E n \in Nat : \E f : Parse(v).segments = [k \in 1 .. n |-> f[k]]
    BY <1>1, <2>1, ParseSpelling
  <2> QED BY <1>2, <2>2, Zenon
<1>4. PICK n \in Nat : \E f : a.segments = [k \in 1 .. n |-> f[k]]
  BY <1>3
<1>6. PICK f : a.segments = [k \in 1 .. n |-> f[k]]
  BY <1>4
<1>5. a.segments \in Seq({f[k] : k \in 1 .. n})
  BY <1>6
<1> QED BY <1>3, <1>5 DEF v

\* So two of them with the same store and segments are the same text, and the
\* last segment is what FormatKey writes for the key that it is read as.
LEMMA SameSpelling ==
    ASSUME NEW a, a # Error, Accepted(a), NEW b, b # Error, Accepted(b), a.store = b.store
    PROVE  /\ a.segments = b.segments => a.value = b.value
           /\ Front(a.segments) = Front(b.segments)
                /\ ParseKey(Last(a.segments)) = ParseKey(Last(b.segments))
                /\ ParseKey(Last(a.segments)) # Error
              => a.value = b.value
<1> DEFINE g == a.segments
           h == b.segments
<1>1. /\ a.value = Spelling(a.store, g) /\ b.value = Spelling(b.store, h)
      /\ \E S : g \in Seq(S) /\ \E T : h \in Seq(T)
      /\ g # << >> /\ h # << >>
  BY AcceptedSpelling DEF Accepted
<1> HIDE DEF g, h
<1>2. ASSUME g = h PROVE a.value = b.value
  BY <1>1, <1>2, Zenon
<1>3. ASSUME NEW s, ParseKey(s) # Error PROVE FormatKey(ParseKey(s)) = s
  BY <1>3, Zenon DEF ParseKey
<1>4. ASSUME Front(g) = Front(h), ParseKey(Last(g)) = ParseKey(Last(h)), ParseKey(Last(g)) # Error
      PROVE  a.value = b.value
  <2>1. Last(g) = Last(h)
    BY <1>3, <1>4, Zenon
  <2>2. g = Add(Front(g), Last(g)) /\ h = Add(Front(h), Last(h))
    BY <1>1, AddLast
  <2>3. g = h
    BY <1>4, <2>1, <2>2, Zenon
  <2> QED BY <1>2, <2>3
<1> QED BY <1>2, <1>4 DEF g, h

\* OneSpelling (address.go, key.go): whatever text an application passes, no
\* store and segments, and no resource and key, is accepted in two spellings.
THEOREM OneSpellingTheorem == URISpec => []OneSpelling
<1>1. URIInv => OneSpelling
  <2> SUFFICES ASSUME URIInv, NEW i \in DOMAIN known, NEW j \in DOMAIN known,
                      known[i].address # Error, known[j].address # Error,
                      known[i].address.store = known[j].address.store
               PROVE  LET a == known[i].address b == known[j].address
                      IN  /\ a.segments = b.segments => a.value = b.value
                          /\ Front(a.segments) = Front(b.segments)
                               /\ ParseKey(Last(a.segments)) = ParseKey(Last(b.segments))
                               /\ ParseKey(Last(a.segments)) # Error
                             => a.value = b.value
    BY Zenon DEF OneSpelling
  <2>1. Accepted(known[i].address) /\ Accepted(known[j].address)
    BY DEF URIInv, KnownAccepted
  <2> QED BY <2>1, SameSpelling, Zenon
<1> QED BY <1>1, URIInvHolds, PTL

\* The resource and the key can be read back from the address of a record.
LEMMA MadeReadBack ==
    ASSUME URIInv, NEW i \in DOMAIN known, Made(known[i])
    PROVE  LET a == known[i].address
           IN  /\ ParseKey(Last(a.segments)) = known[i].key
               /\ New(a.store, Front(a.segments)).value = known[i].resource
               /\ a = Parse(a.value)
               /\ a = AppendKey(known[i].resource, known[i].key)
<1> DEFINE e == known[i]
           R == e.resource
           key == e.key
           a == e.address
<1>1. R \in Text /\ key \in URIKeys /\ a = AppendKey(R, key) /\ a # Error /\ Accepted(a)
  BY DEF URIInv, KnownAccepted, KnownMade, Made
<1> HIDE DEF R, key, a
<1>2. FormatKey(key) # Error
  BY <1>1, Zenon DEF AppendKey
<1>3. FormatKey(key) \in Text /\ ParseKey(FormatKey(key)) = key
  BY <1>1, <1>2, KeyRoundTrip
<1>4. Last(a.segments) = FormatKey(key) /\ New(a.store, Front(a.segments)).value = R
  BY <1>1, <1>3, RecordAddress
<1>5. a = Parse(a.value)
  BY <1>1 DEF Accepted
<1> QED BY <1>1, <1>3, <1>4, <1>5 DEF R, key, a

\* KeyIdentity (key.go, types.go): for all stores, paths and keys, the URI of a
\* record tells which resource and key it was made of, the key's type included.
THEOREM KeyIdentityTheorem == URISpec => []KeyIdentity
<1>1. URIInv => KeyIdentity
  <2> SUFFICES ASSUME URIInv, NEW i \in DOMAIN known, NEW j \in DOMAIN known,
                      Made(known[i]), Made(known[j])
               PROVE  LET a == known[i].address b == known[j].address
                      IN  /\ (a.value = b.value) =
                               (known[i].resource = known[j].resource /\ known[i].key = known[j].key)
                          /\ ParseKey(Last(a.segments)) = known[i].key
                          /\ New(a.store, Front(a.segments)).value = known[i].resource
    BY Zenon DEF KeyIdentity
  <2> DEFINE a == known[i].address
             b == known[j].address
  <2>1. /\ ParseKey(Last(a.segments)) = known[i].key
        /\ New(a.store, Front(a.segments)).value = known[i].resource
        /\ a = Parse(a.value) /\ a = AppendKey(known[i].resource, known[i].key)
    BY MadeReadBack, Zenon
  <2>2. /\ ParseKey(Last(b.segments)) = known[j].key
        /\ New(b.store, Front(b.segments)).value = known[j].resource
        /\ b = Parse(b.value) /\ b = AppendKey(known[j].resource, known[j].key)
    BY MadeReadBack, Zenon
  <2> HIDE DEF a, b
  <2>3. ASSUME a.value = b.value
        PROVE  known[i].resource = known[j].resource /\ known[i].key = known[j].key
    <3>1. a = b
      BY <2>1, <2>2, <2>3, Zenon
    <3> QED BY <2>1, <2>2, <3>1, Zenon
  <2>4. ASSUME known[i].resource = known[j].resource, known[i].key = known[j].key
        PROVE  a.value = b.value
    BY <2>1, <2>2, <2>4, Zenon
  <2>5. (a.value = b.value) = (known[i].resource = known[j].resource /\ known[i].key = known[j].key)
    BY <2>3, <2>4, Zenon
  <2> QED BY <2>1, <2>5 DEF a, b
<1> QED BY <1>1, URIInvHolds, PTL

--------------------------------------------------------------------------------
(* VTMarshal *)

INSTANCE VTMarshal

\* b is what is written where n bytes were announced.
Fits(b, n) == b \in Bytes /\ n \in Nat /\ Len(b) = n

\* What is written one after the other fits what was announced together.
LEMMA FitsCat ==
    ASSUME NEW a, NEW m, NEW b, NEW n, Fits(a, m), Fits(b, n)
    PROVE  Fits(a \o b, m + n)
<1> DEFINE B == 0 .. 255
<1>1. a \in Seq(B) /\ b \in Seq(B) /\ m \in Nat /\ n \in Nat /\ Len(a) = m /\ Len(b) = n
  BY DEF Fits, Bytes
<1> HIDE DEF B
<1>2. a \o b \in Seq(B) /\ Len(a \o b) = Len(a) + Len(b)
  BY <1>1
<1>3. m + n \in Nat
  BY <1>1
<1> QED BY <1>1, <1>2, <1>3, Zenon DEF Fits, Bytes, B

\* A byte string, such as the unknownFields of a message, fits its own length.
LEMMA FitsUnknown ==
    ASSUME NEW b \in Bytes
    PROVE  Fits(b, Len(b))
  BY DEF Fits, Bytes

\* The positions, the elements and the beginnings of a sequence.
LEMMA SeqParts ==
    ASSUME NEW S, NEW s \in Seq(S)
    PROVE  /\ DOMAIN s = 1 .. Len(s) /\ Len(s) \in Nat
           /\ \A i \in 1 .. Len(s) : s[i] \in S
           /\ \A k \in 0 .. Len(s) : SubSeq(s, 1, k) \in Seq(S)
  OBVIOUS

\* A sequence with one element replaced.
LEMMA SeqChanged ==
    ASSUME NEW S, NEW s \in Seq(S), NEW i \in 1 .. Len(s), NEW e \in S
    PROVE  [s EXCEPT ![i] = e] \in Seq(S)
  BY ExceptSeq

\* Without its leading zeros a number is still one.
LEMMA TrimType ==
    ASSUME NEW d \in Numbers, Len(d) = 5
    PROVE  Trim(d) \in Numbers
<1> DEFINE N == {i \in DOMAIN d : d[i] # 0}
<1>1. CASE N = {}
  BY <1>1 DEF Trim, Numbers
<1>2. CASE N # {}
  <2>1. N \subseteq 1 .. 5
    BY DEF Numbers
  <2>2. \E x \in N : \A y \in N : x >= y
    <3>1. 5 \in N \/ (5 \notin N /\ 4 \in N) \/ (5 \notin N /\ 4 \notin N /\ 3 \in N)
          \/ (N \subseteq 1 .. 2 /\ 2 \in N) \/ (N = {1})
      BY <1>2, <2>1
    <3> HIDE DEF N
    <3> QED BY <2>1, <3>1
  <2>3. Max(N) \in N
    <3> HIDE DEF N
    <3> QED BY <2>2 DEF Max
  <2>4. Max(N) \in 1 .. 5
    BY <2>1, <2>3
  <2>5. Trim(d) = SubSeq(d, 1, Max(N))
    BY <1>2 DEF Trim
  <2>6. \A k \in 1 .. 5 : SubSeq(d, 1, k) \in Seq(0 .. 127)
    <3> DEFINE D == 0 .. 127
    <3>1. d \in Seq(D)
      BY Zenon DEF Numbers
    <3> HIDE DEF D
    <3>0. \A k \in 0 .. Len(d) : SubSeq(d, 1, k) \in Seq(D)
      BY <3>1, SeqParts, Zenon
    <3>2. \A k \in 1 .. 5 : SubSeq(d, 1, k) \in Seq(D)
      BY <3>0
    <3> QED BY <3>2 DEF D
  <2> HIDE DEF N
  <2> QED BY <2>4, <2>5, <2>6, Zenon DEF Numbers
<1> QED BY <1>1, <1>2

\* The digits of a count are a number.
LEMMA DigitsType ==
    ASSUME NEW n \in Nat
    PROVE  Digits(n) \in Numbers
<1> DEFINE d == [i \in 1 .. 5 |-> (n \div Weight[i]) % 128]
<1>1. \A i \in 1 .. 5 : Weight[i] \in Nat \ {0}
  BY DEF Weight
<1>2. \A i \in 1 .. 5 : (n \div Weight[i]) % 128 \in 0 .. 127
  <2>1. \A w \in Nat \ {0} : (n \div w) % 128 \in 0 .. 127
    OBVIOUS
  <2> QED BY <1>1, <2>1
<1>3. d \in Seq(0 .. 127) /\ Len(d) = 5
  BY <1>2
<1> QED BY <1>3, TrimType DEF Digits, Numbers

\* protohelpers.EncodeVarint writes as many bytes as SizeOfVarint counts.
LEMMA VarintFits ==
    ASSUME NEW d \in Numbers
    PROVE  Fits(EncodeVarint(d), SizeOfVarint(d))
<1>1. CASE d = << >>
  <2>1. EncodeVarint(d) = <<0>> /\ SizeOfVarint(d) = 1
    BY <1>1 DEF EncodeVarint, SizeOfVarint
  <2> QED BY <2>1 DEF Fits, Bytes
<1>2. CASE d # << >>
  <2> DEFINE e == [i \in 1 .. Len(d) |-> IF i < Len(d) THEN d[i] + 128 ELSE d[i]]
  <2>0. DOMAIN d = 1 .. Len(d) /\ Len(d) \in Nat /\ \A i \in 1 .. Len(d) : d[i] \in 0 .. 127
    <3> DEFINE D == 0 .. 127
    <3>1. d \in Seq(D)
      BY Zenon DEF Numbers
    <3> HIDE DEF D
    <3>2. DOMAIN d = 1 .. Len(d) /\ Len(d) \in Nat /\ \A i \in 1 .. Len(d) : d[i] \in D
      BY <3>1, SeqParts
    <3> QED BY <3>2 DEF D
  <2>1. EncodeVarint(d) = e /\ SizeOfVarint(d) = Len(d)
    BY <1>2, <2>0 DEF EncodeVarint, SizeOfVarint
  <2>2. \A i \in 1 .. Len(d) : (IF i < Len(d) THEN d[i] + 128 ELSE d[i]) \in 0 .. 255
    <3> SUFFICES ASSUME NEW i \in 1 .. Len(d)
                 PROVE  (IF i < Len(d) THEN d[i] + 128 ELSE d[i]) \in 0 .. 255
      OBVIOUS
    <3> DEFINE y == d[i]
    <3>1. y \in 0 .. 127
      BY <2>0, Zenon
    <3> HIDE DEF e, y
    <3>2. y + 128 \in 0 .. 255 /\ y \in 0 .. 255
      BY <3>1
    <3>3. (IF i < Len(d) THEN y + 128 ELSE y) \in 0 .. 255
      BY <3>2, Zenon
    <3> QED BY <3>3 DEF y
  <2>3. e \in Seq(0 .. 255) /\ Len(e) = Len(d)
    BY <2>0, <2>2
  <2> QED BY <2>0, <2>1, <2>3 DEF Fits, Bytes
<1> QED BY <1>1, <1>2

\* A tag is one byte.
LEMMA TagFits == ASSUME NEW t \in 0 .. 255 PROVE Fits(<<t>>, 1)
  BY DEF Fits, Bytes

\* A field that is left out takes no bytes.
LEMMA NothingFits == Fits(<< >>, 0)
  BY DEF Fits, Bytes

\* Tag, length and content of a field fit the size announced for its content.
LEMMA DelimitedFits ==
    ASSUME NEW t \in 0 .. 255, NEW b, NEW n, Fits(b, n)
    PROVE  Fits(Delimited(t, b), SizeDelimited(n))
<1>0. n \in Nat /\ Len(b) = n
  BY DEF Fits
<1>1. Fits(EncodeVarint(Digits(n)), SizeOfVarint(Digits(n)))
  BY <1>0, DigitsType, VarintFits
<1>2. Fits(<<t>> \o EncodeVarint(Digits(n)) \o b, 1 + SizeOfVarint(Digits(n)) + n)
  BY <1>1, TagFits, FitsCat
<1>3. 1 + SizeOfVarint(Digits(n)) + n = 1 + n + SizeOfVarint(Digits(n))
  BY <1>0, <1>1 DEF Fits
<1> QED BY <1>0, <1>2, <1>3 DEF Delimited, SizeDelimited

\* A number field.
LEMMA UintFits ==
    ASSUME NEW t \in 0 .. 255, NEW d \in Numbers
    PROVE  Fits(UintField(t, d), SizeUint(d))
<1>1. CASE d = << >>
  BY <1>1, NothingFits DEF UintField, SizeUint
<1>2. CASE d # << >>
  <2>1. Fits(<<t>> \o EncodeVarint(d), 1 + SizeOfVarint(d))
    BY VarintFits, TagFits, FitsCat
  <2> QED BY <1>2, <2>1 DEF UintField, SizeUint
<1> QED BY <1>1, <1>2

\* An enum field: a negative value is written with its ten bytes.
LEMMA EnumFits ==
    ASSUME NEW t \in 0 .. 255, NEW d \in Numbers32
    PROVE  Fits(EnumField(t, d), SizeEnum(d))
<1>0. d \in Seq(0 .. 127) /\ (Len(d) = 5 => d[5] < 16)
  BY DEF Numbers32, Numbers, Within
<1>1. SignExtended(d) \in Numbers
  <2>1. CASE Len(d) = 5 /\ d[5] >= 8
    <3> DEFINE r == <<127, 127, 127, 127, 1>>
               h == [SubSeq(d, 1, 5) EXCEPT ![5] = @ + 112]
    <3>1. SubSeq(d, 1, 5) = d
      BY <1>0, <2>1, SubSeqFull
    <3> DEFINE D == 0 .. 127
    <3>7. d \in Seq(D)
      BY <1>0
    <3> HIDE DEF D
    <3>9. \A i \in 1 .. Len(d) : d[i] \in D
      BY <3>7, SeqParts, Zenon
    <3>8. d[5] \in D /\ 5 \in 1 .. Len(d)
      BY <2>1, <3>9
    <3>2. d[5] + 112 \in D
      <4>1. \A x \in 0 .. 127 : x < 16 => x + 112 \in 0 .. 127
        OBVIOUS
      <4>2. d[5] < 16
        BY <1>0, <2>1, Zenon
      <4> QED BY <3>8, <4>1, <4>2, Zenon DEF D
    <3>3. h = [d EXCEPT ![5] = d[5] + 112]
      BY <3>1
    <3>4. h \in Seq(0 .. 127)
      <4>1. [d EXCEPT ![5] = d[5] + 112] \in Seq(D)
        BY <3>2, <3>7, <3>8, SeqChanged, Zenon
      <4> QED BY <3>3, <4>1 DEF D
    <3>5. r \in Seq(0 .. 127)
      OBVIOUS
    <3>6. SignExtended(d) = h \o r
      BY <2>1 DEF SignExtended
    <3> HIDE DEF h, r
    <3> QED BY <3>4, <3>5, <3>6 DEF Numbers
  <2>2. CASE ~ (Len(d) = 5 /\ d[5] >= 8)
    BY <1>0, <2>2 DEF SignExtended, Numbers
  <2> QED BY <2>1, <2>2
<1> QED BY <1>1, UintFits DEF EnumField, SizeEnum

\* A bool field.
LEMMA BoolFits ==
    ASSUME NEW t \in 0 .. 255, NEW b \in BOOLEAN
    PROVE  Fits(BoolField(t, b), SizeBool(b))
<1>1. Fits(<<t, 1>>, 2)
  BY DEF Fits, Bytes
<1>2. CASE b
  BY <1>1, <1>2, Zenon DEF BoolField, SizeBool
<1>3. CASE ~b
  BY <1>3, NothingFits, Zenon DEF BoolField, SizeBool
<1> QED BY <1>2, <1>3

\* A string or bytes field.
LEMMA BytesFits ==
    ASSUME NEW t \in 0 .. 255, NEW b \in Bytes
    PROVE  Fits(BytesField(t, b), SizeBytes(b))
<1>1. Fits(b, Len(b))
  BY FitsUnknown
<1>2. Fits(Delimited(t, b), SizeDelimited(Len(b)))
  BY <1>1, DelimitedFits
<1> QED BY <1>2, NothingFits DEF BytesField, SizeBytes

\* A message field, from what its message writes (b) and announces (n).
LEMMA MessageFits ==
    ASSUME NEW t \in 0 .. 255, NEW m, NEW b, NEW n, m # Nil => Fits(b, n)
    PROVE  Fits(IF m = Nil THEN << >> ELSE Delimited(t, b),
                IF m = Nil THEN 0 ELSE SizeDelimited(n))
<1>1. CASE m = Nil
  BY <1>1, NothingFits, Zenon
<1>2. CASE m # Nil
  BY <1>2, DelimitedFits, Zenon
<1> QED BY <1>1, <1>2

\* Elements is a scan of the contents.
LEMMA ElementsSteps ==
    ASSUME NEW t \in 0 .. 255, NEW c \in Seq(Bytes)
    PROVE  \E f : /\ f[0] = << >> /\ \A n \in 1 .. Len(c) : f[n] = f[n - 1] \o Delimited(t, c[n])
                  /\ Elements(t, c) = f[Len(c)]
<1> DEFINE C(x, y) == x \o Delimited(t, y)
           G == [p \in Bytes \X Bytes |-> C(p[1], p[2])]
           o == << >>
           E(f, n) == IF n = 0 THEN o ELSE C(f[n - 1], c[n])
           Q(f) == f = [n \in 0 .. Len(c) |-> E(f, n)]
<1>1. Elements(t, c) = (CHOOSE f : Q(f))[Len(c)]
  BY DEF Elements
<1>0. ASSUME NEW x \in Bytes, NEW y \in Bytes PROVE C(x, y) \in Bytes
  <2>1. Fits(x, Len(x)) /\ Fits(Delimited(t, y), SizeDelimited(Len(y)))
    BY FitsUnknown, DelimitedFits
  <2>2. Fits(x \o Delimited(t, y), Len(x) + SizeDelimited(Len(y)))
    BY <2>1, FitsCat, Zenon
  <2> QED BY <2>2, Zenon DEF Fits
<1>10. o \in Bytes
  BY NothingFits, Zenon DEF Fits
<1> HIDE DEF C, o
<1>2. G \in [Bytes \X Bytes -> Bytes] /\ Len(c) \in Nat
  BY <1>0
<1>3. PICK g \in [0 .. Len(c) -> Bytes] : Scan(Bytes, Bytes, o, G, c, g)
  <2> HIDE DEF G
  <2> QED BY <1>2, <1>10, ScanExists
<1>4. ASSUME NEW n \in 0 .. Len(c) PROVE g[n] = E(g, n)
  <2>1. CASE n = 0
    BY <1>3, <2>1 DEF Scan
  <2>2. CASE n # 0
    <3>1. g[n - 1] \in Bytes /\ c[n] \in Bytes
      BY <2>2
    <3>2. g[n] = G[<<g[n - 1], c[n]>>]
      <4> HIDE DEF G
      <4> QED BY <1>2, <1>3, <2>2 DEF Scan
    <3> QED BY <2>2, <3>1, <3>2
  <2> QED BY <2>1, <2>2
<1>5. Q(g)
  <2> HIDE DEF E
  <2> QED BY <1>4
<1>6. PICK f : f = (CHOOSE h : Q(h)) /\ Q(f)
  <2> HIDE DEF Q
  <2> QED BY <1>5
<1>7. ASSUME NEW n \in 0 .. Len(c) PROVE f[n] = E(f, n)
  <2> HIDE DEF E
  <2> QED BY <1>6
<1>8. f[0] = o /\ \A n \in 1 .. Len(c) : f[n] = C(f[n - 1], c[n])
  BY <1>2, <1>7
<1> HIDE DEF Q
<1> QED BY <1>1, <1>6, <1>8, Zenon DEF o, C

\* SizeElements is a scan of the lengths.
LEMMA SizeElementsSteps ==
    ASSUME NEW l \in Seq(Nat)
    PROVE  \E f : /\ f[0] = 0 /\ \A n \in 1 .. Len(l) : f[n] = f[n - 1] + SizeDelimited(l[n])
                  /\ SizeElements(l) = f[Len(l)]
<1> DEFINE G == [p \in Nat \X Nat |-> p[1] + SizeDelimited(p[2])]
           E(f, n) == IF n = 0 THEN 0 ELSE f[n - 1] + SizeDelimited(l[n])
           Q(f) == f = [n \in 0 .. Len(l) |-> E(f, n)]
<1>1. SizeElements(l) = (CHOOSE f : Q(f))[Len(l)]
  BY DEF SizeElements
<1>0. ASSUME NEW y \in Nat PROVE SizeDelimited(y) \in Nat
  <2>1. Fits(EncodeVarint(Digits(y)), SizeOfVarint(Digits(y)))
    BY DigitsType, VarintFits
  <2>2. SizeOfVarint(Digits(y)) \in Nat
    BY <2>1, Zenon DEF Fits
  <2> QED BY <2>2 DEF SizeDelimited
<1>2. G \in [Nat \X Nat -> Nat] /\ Len(l) \in Nat
  <2>1. \A p \in Nat \X Nat : p[1] + SizeDelimited(p[2]) \in Nat
    <3> SUFFICES ASSUME NEW p \in Nat \X Nat PROVE p[1] + SizeDelimited(p[2]) \in Nat
      OBVIOUS
    <3>1. p[1] \in Nat /\ p[2] \in Nat
      OBVIOUS
    <3>2. SizeDelimited(p[2]) \in Nat
      BY <1>0, <3>1, Zenon
    <3> QED BY <3>1, <3>2
  <2> QED BY <2>1
<1>3. PICK g \in [0 .. Len(l) -> Nat] : Scan(Nat, Nat, 0, G, l, g)
  <2> HIDE DEF G
  <2> QED BY <1>2, ScanExists
<1>4. ASSUME NEW n \in 0 .. Len(l) PROVE g[n] = E(g, n)
  <2>1. CASE n = 0
    BY <1>3, <2>1 DEF Scan
  <2>2. CASE n # 0
    <3>1. g[n - 1] \in Nat /\ l[n] \in Nat
      BY <2>2
    <3>2. g[n] = G[<<g[n - 1], l[n]>>]
      <4> HIDE DEF G
      <4> QED BY <1>2, <1>3, <2>2 DEF Scan
    <3> QED BY <2>2, <3>1, <3>2
  <2> QED BY <2>1, <2>2
<1>5. Q(g)
  <2> HIDE DEF E
  <2> QED BY <1>4
<1>6. PICK f : f = (CHOOSE h : Q(h)) /\ Q(f)
  <2> HIDE DEF Q
  <2> QED BY <1>5
<1>7. ASSUME NEW n \in 0 .. Len(l) PROVE f[n] = E(f, n)
  <2> HIDE DEF E
  <2> QED BY <1>6
<1>8. f[0] = 0 /\ \A n \in 1 .. Len(l) : f[n] = f[n - 1] + SizeDelimited(l[n])
  BY <1>2, <1>7
<1> HIDE DEF Q
<1> QED BY <1>1, <1>6, <1>8

\* The loop that writes the elements of a repeated field against the loop that
\* counts them.
LEMMA ElementsFits ==
    ASSUME NEW t \in 0 .. 255, NEW c \in Seq(Bytes), NEW l \in Seq(Nat), Len(c) = Len(l),
           \A i \in 1 .. Len(c) : Fits(c[i], l[i])
    PROVE  Fits(Elements(t, c), SizeElements(l))
<1>1. PICK f : /\ f[0] = << >> /\ \A n \in 1 .. Len(c) : f[n] = f[n - 1] \o Delimited(t, c[n])
               /\ Elements(t, c) = f[Len(c)]
  BY ElementsSteps, Zenon
<1>2. PICK g : /\ g[0] = 0 /\ \A n \in 1 .. Len(l) : g[n] = g[n - 1] + SizeDelimited(l[n])
               /\ SizeElements(l) = g[Len(l)]
  BY SizeElementsSteps, Zenon
<1> DEFINE P == {n \in 0 .. Len(c) : Fits(f[n], g[n])}
<1>3. 0 \in P
  <2>1. 0 \in 0 .. Len(c)
    OBVIOUS
  <2> QED BY <1>1, <1>2, <2>1, NothingFits, Zenon
<1>4. ASSUME NEW n \in 0 .. Len(c) - 1, n \in P PROVE n + 1 \in P
  <2> DEFINE k == n + 1
  <2>1. k \in 1 .. Len(c) /\ k \in 1 .. Len(l) /\ k \in 0 .. Len(c) /\ k - 1 = n
    OBVIOUS
  <2> HIDE DEF k
  <2>2. f[k] = f[k - 1] \o Delimited(t, c[k]) /\ g[k] = g[k - 1] + SizeDelimited(l[k])
    BY <1>1, <1>2, <2>1, Zenon
  <2>3. Fits(Delimited(t, c[k]), SizeDelimited(l[k]))
    BY <2>1, DelimitedFits, Zenon
  <2>4. Fits(f[k - 1], g[k - 1])
    BY <1>4, <2>1, Zenon
  <2>5. Fits(f[k], g[k])
    BY <2>2, <2>3, <2>4, FitsCat, Zenon
  <2>6. k \in P
    BY <2>1, <2>5, Zenon
  <2> QED BY <2>6 DEF k
<1>5. Len(c) \in P
  <2> HIDE DEF P
  <2>1. Len(c) \in Nat
    OBVIOUS
  <2>2. \A i \in 0 .. Len(c) - 1 : i \in P => i + 1 \in P
    BY <1>4
  <2>3. \A i \in 0 .. Len(c) : i \in P
    BY <1>3, <2>1, <2>2, UpTo, Zenon
  <2> QED BY <2>1, <2>3
<1>6. Fits(f[Len(c)], g[Len(c)])
  BY <1>5, Zenon
<1> QED BY <1>1, <1>2, <1>6, Zenon

\* The same for the two loops over a repeated field ms.
LEMMA RepeatedFits ==
    ASSUME NEW t \in 0 .. 255, NEW S, NEW ms \in Seq(S), NEW c, NEW l,
           c = [i \in DOMAIN ms |-> c[i]], l = [i \in DOMAIN ms |-> l[i]],
           \A i \in DOMAIN ms : Fits(c[i], l[i])
    PROVE  Fits(Elements(t, c), SizeElements(l))
<1>1. DOMAIN ms = 1 .. Len(ms) /\ Len(ms) \in Nat
  BY SeqParts, Zenon
<1> DEFINE B == Bytes
<1>2. \A i \in 1 .. Len(ms) : c[i] \in B /\ l[i] \in Nat
  BY <1>1, Zenon DEF Fits
<1>4. c = [i \in 1 .. Len(ms) |-> c[i]] /\ l = [i \in 1 .. Len(ms) |-> l[i]]
  BY <1>1, Zenon
<1> HIDE DEF B
<1>3. c \in Seq(B) /\ l \in Seq(Nat) /\ Len(c) = Len(ms) /\ Len(l) = Len(ms)
  BY <1>1, <1>2, <1>4
<1> QED BY <1>1, <1>3, ElementsFits, Zenon DEF B

\* Three pieces, one after the other.
LEMMA FitsCat3 ==
    ASSUME NEW a, NEW b, NEW c,
           NEW an, NEW bn, NEW cn,
           Fits(a, an), Fits(b, bn), Fits(c, cn)
    PROVE  Fits(a \o b \o c, an + bn + cn)
  BY FitsCat, Zenon

\* Four pieces, one after the other.
LEMMA FitsCat4 ==
    ASSUME NEW a, NEW b, NEW c, NEW d,
           NEW an, NEW bn, NEW cn, NEW dn,
           Fits(a, an), Fits(b, bn), Fits(c, cn), Fits(d, dn)
    PROVE  Fits(a \o b \o c \o d, an + bn + cn + dn)
  BY FitsCat3, FitsCat, Zenon

\* A repeated string field: its loop of strings against its loop of lengths.
LEMMA StringsFit ==
    ASSUME NEW t \in 0 .. 255, NEW ms \in Seq(Bytes)
    PROVE  Fits(RepeatedField(t, ms, LAMBDA s : s), SizeRepeated(ms, Len))
<1> DEFINE c == [i \in DOMAIN ms |-> IF ms[i] = Nil THEN << >> ELSE ms[i]]
           l == [i \in DOMAIN ms |-> IF ms[i] = Nil THEN 0 ELSE Len(ms[i])]
           S == Bytes
<1>1. ms \in Seq(S)
  OBVIOUS
<1>2. \A i \in DOMAIN ms : Fits(ms[i], Len(ms[i]))
  <2> HIDE DEF S
  <2>1. \A i \in DOMAIN ms : ms[i] \in S
    BY <1>1
  <2> QED BY <2>1, FitsUnknown, Zenon DEF S
<1>3. \A i \in DOMAIN ms : Fits(c[i], l[i])
  BY <1>2, NothingFits, Zenon
<1> HIDE DEF S
<1>4. Fits(Elements(t, c), SizeElements(l))
  BY <1>1, <1>3, RepeatedFits
<1> QED BY <1>4 DEF RepeatedField, SizeRepeated

\* RecordAddress: what MarshalToSizedBufferVT writes has the length SizeVT gives.
LEMMA RecordAddressFits ==
    ASSUME NEW m \in RecordAddressSet
    PROVE  Fits(RecordAddress_MarshalToSizedBufferVT(m), RecordAddress_SizeVT(m))
<1>1. Fits(BytesField(\h0A, m.Uri), SizeBytes(m.Uri))
  BY BytesFits DEF RecordAddressSet
<1>2. Fits(m.unknownFields, Len(m.unknownFields))
  BY FitsUnknown DEF RecordAddressSet
<1> QED
  BY <1>1, <1>2, FitsCat, Zenon
     DEF RecordAddress_MarshalToSizedBufferVT, RecordAddress_SizeVT

\* Document: what MarshalToSizedBufferVT writes has the length SizeVT gives.
LEMMA DocumentFits ==
    ASSUME NEW m \in DocumentSet
    PROVE  Fits(Document_MarshalToSizedBufferVT(m), Document_SizeVT(m))
<1>1. Fits(EnumField(\h08, m.Encoding), SizeEnum(m.Encoding))
  BY EnumFits DEF DocumentSet
<1>2. Fits(BytesField(\h12, m.Payload), SizeBytes(m.Payload))
  BY BytesFits DEF DocumentSet
<1>3. Fits(m.unknownFields, Len(m.unknownFields))
  BY FitsUnknown DEF DocumentSet
<1> QED
  BY <1>1, <1>2, <1>3, FitsCat3, Zenon
     DEF Document_MarshalToSizedBufferVT, Document_SizeVT

\* RevisionToken: what MarshalToSizedBufferVT writes has the length SizeVT gives.
LEMMA RevisionTokenFits ==
    ASSUME NEW m \in RevisionTokenSet
    PROVE  Fits(RevisionToken_MarshalToSizedBufferVT(m), RevisionToken_SizeVT(m))
<1>1. Fits(BytesField(\h0A, m.Data), SizeBytes(m.Data))
  BY BytesFits DEF RevisionTokenSet
<1>2. Fits(m.unknownFields, Len(m.unknownFields))
  BY FitsUnknown DEF RevisionTokenSet
<1> QED
  BY <1>1, <1>2, FitsCat, Zenon
     DEF RevisionToken_MarshalToSizedBufferVT, RevisionToken_SizeVT

\* ReadOperation: what MarshalToSizedBufferVT writes has the length SizeVT gives.
LEMMA ReadOperationFits ==
    ASSUME NEW m \in ReadOperationSet
    PROVE  Fits(ReadOperation_MarshalToSizedBufferVT(m), ReadOperation_SizeVT(m))
<1>1. Fits(MessageField(\h0A, m.Address, RecordAddress_MarshalToSizedBufferVT),
          SizeMessage(m.Address, RecordAddress_SizeVT))
  <2>1. m.Address # Nil =>
            Fits(RecordAddress_MarshalToSizedBufferVT(m.Address), RecordAddress_SizeVT(m.Address))
    BY RecordAddressFits DEF ReadOperationSet, Pointers
  <2>2. \h0A \in 0 .. 255
    OBVIOUS
  <2> QED BY <2>1, <2>2, MessageFits, Zenon DEF MessageField, SizeMessage
<1>2. Fits(m.unknownFields, Len(m.unknownFields))
  BY FitsUnknown DEF ReadOperationSet
<1> QED
  BY <1>1, <1>2, FitsCat, Zenon
     DEF ReadOperation_MarshalToSizedBufferVT, ReadOperation_SizeVT

\* ReadRequest: what MarshalToSizedBufferVT writes has the length SizeVT gives.
LEMMA ReadRequestFits ==
    ASSUME NEW m \in ReadRequestSet
    PROVE  Fits(ReadRequest_MarshalToSizedBufferVT(m), ReadRequest_SizeVT(m))
<1>1. Fits(RepeatedField(\h0A, m.Operations, ReadOperation_MarshalToSizedBufferVT),
          SizeRepeated(m.Operations, ReadOperation_SizeVT))
  <2> DEFINE ms == m.Operations
             c == [i \in DOMAIN ms |->
                      IF ms[i] = Nil THEN << >> ELSE ReadOperation_MarshalToSizedBufferVT(ms[i])]
             l == [i \in DOMAIN ms |-> IF ms[i] = Nil THEN 0 ELSE ReadOperation_SizeVT(ms[i])]
             S == Pointers(ReadOperationSet)
  <2>1. ms \in Seq(S)
    BY DEF ReadRequestSet
  <2>2. \A i \in DOMAIN ms : ms[i] # Nil =>
            Fits(ReadOperation_MarshalToSizedBufferVT(ms[i]), ReadOperation_SizeVT(ms[i]))
    <3>1. \A i \in DOMAIN ms : ms[i] \in S
      <4> HIDE DEF S, ms
      <4> QED BY <2>1
    <3> QED BY <3>1, ReadOperationFits DEF Pointers
  <2>3. \A i \in DOMAIN ms : Fits(c[i], l[i])
    BY <2>2, NothingFits, Zenon
  <2>4. \h0A \in 0 .. 255 /\ c = [i \in DOMAIN ms |-> c[i]] /\ l = [i \in DOMAIN ms |-> l[i]]
    OBVIOUS
  <2> HIDE DEF S, ms, c, l
  <2>5. Fits(Elements(\h0A, c), SizeElements(l))
    BY <2>1, <2>3, <2>4, RepeatedFits, Zenon
  <2> QED BY <2>5 DEF RepeatedField, SizeRepeated, ms, c, l
<1>2. Fits(m.unknownFields, Len(m.unknownFields))
  BY FitsUnknown DEF ReadRequestSet
<1> QED
  BY <1>1, <1>2, FitsCat, Zenon
     DEF ReadRequest_MarshalToSizedBufferVT, ReadRequest_SizeVT

\* Failure: what MarshalToSizedBufferVT writes has the length SizeVT gives.
LEMMA FailureFits ==
    ASSUME NEW m \in FailureSet
    PROVE  Fits(Failure_MarshalToSizedBufferVT(m), Failure_SizeVT(m))
<1>1. Fits(EnumField(\h08, m.Code), SizeEnum(m.Code))
  BY EnumFits DEF FailureSet
<1>2. Fits(BytesField(\h12, m.Message), SizeBytes(m.Message))
  BY BytesFits DEF FailureSet
<1>3. Fits(BoolField(\h18, m.Retryable), SizeBool(m.Retryable))
  BY BoolFits DEF FailureSet
<1>4. Fits(m.unknownFields, Len(m.unknownFields))
  BY FitsUnknown DEF FailureSet
<1> QED
  BY <1>1, <1>2, <1>3, <1>4, FitsCat4, Zenon
     DEF Failure_MarshalToSizedBufferVT, Failure_SizeVT

\* ReadResult: what MarshalToSizedBufferVT writes has the length SizeVT gives.
LEMMA ReadResultFits ==
    ASSUME NEW m \in ReadResultSet
    PROVE  Fits(ReadResult_MarshalToSizedBufferVT(m), ReadResult_SizeVT(m))
<1>1. Fits(UintField(\h08, m.OperationIndex), SizeUint(m.OperationIndex))
  BY UintFits DEF ReadResultSet, Numbers32
<1>2. Fits(EnumField(\h10, m.Status), SizeEnum(m.Status))
  BY EnumFits DEF ReadResultSet
<1>3. Fits(MessageField(\h1A, m.Document, Document_MarshalToSizedBufferVT),
          SizeMessage(m.Document, Document_SizeVT))
  <2>1. m.Document # Nil =>
            Fits(Document_MarshalToSizedBufferVT(m.Document), Document_SizeVT(m.Document))
    BY DocumentFits DEF ReadResultSet, Pointers
  <2>2. \h1A \in 0 .. 255
    OBVIOUS
  <2> QED BY <2>1, <2>2, MessageFits, Zenon DEF MessageField, SizeMessage
<1>4. Fits(MessageField(\h22, m.Revision, RevisionToken_MarshalToSizedBufferVT),
          SizeMessage(m.Revision, RevisionToken_SizeVT))
  <2>1. m.Revision # Nil =>
            Fits(RevisionToken_MarshalToSizedBufferVT(m.Revision), RevisionToken_SizeVT(m.Revision))
    BY RevisionTokenFits DEF ReadResultSet, Pointers
  <2>2. \h22 \in 0 .. 255
    OBVIOUS
  <2> QED BY <2>1, <2>2, MessageFits, Zenon DEF MessageField, SizeMessage
<1>5. Fits(MessageField(\h2A, m.Failure, Failure_MarshalToSizedBufferVT),
          SizeMessage(m.Failure, Failure_SizeVT))
  <2>1. m.Failure # Nil =>
            Fits(Failure_MarshalToSizedBufferVT(m.Failure), Failure_SizeVT(m.Failure))
    BY FailureFits DEF ReadResultSet, Pointers
  <2>2. \h2A \in 0 .. 255
    OBVIOUS
  <2> QED BY <2>1, <2>2, MessageFits, Zenon DEF MessageField, SizeMessage
<1>6. Fits(m.unknownFields, Len(m.unknownFields))
  BY FitsUnknown DEF ReadResultSet
<1>7. Fits(UintField(\h08, m.OperationIndex) \o EnumField(\h10, m.Status)
          \o MessageField(\h1A, m.Document, Document_MarshalToSizedBufferVT)
          \o MessageField(\h22, m.Revision, RevisionToken_MarshalToSizedBufferVT),
          SizeUint(m.OperationIndex) + SizeEnum(m.Status)
          + SizeMessage(m.Document, Document_SizeVT)
          + SizeMessage(m.Revision, RevisionToken_SizeVT))
  BY <1>1, <1>2, <1>3, <1>4, FitsCat4, Zenon
<1> QED
  BY <1>7, <1>5, <1>6, FitsCat3, Zenon
     DEF ReadResult_MarshalToSizedBufferVT, ReadResult_SizeVT

\* ReadResponse: what MarshalToSizedBufferVT writes has the length SizeVT gives.
LEMMA ReadResponseFits ==
    ASSUME NEW m \in ReadResponseSet
    PROVE  Fits(ReadResponse_MarshalToSizedBufferVT(m), ReadResponse_SizeVT(m))
<1>1. Fits(RepeatedField(\h0A, m.Results, ReadResult_MarshalToSizedBufferVT),
          SizeRepeated(m.Results, ReadResult_SizeVT))
  <2> DEFINE ms == m.Results
             c == [i \in DOMAIN ms |->
                      IF ms[i] = Nil THEN << >> ELSE ReadResult_MarshalToSizedBufferVT(ms[i])]
             l == [i \in DOMAIN ms |-> IF ms[i] = Nil THEN 0 ELSE ReadResult_SizeVT(ms[i])]
             S == Pointers(ReadResultSet)
  <2>1. ms \in Seq(S)
    BY DEF ReadResponseSet
  <2>2. \A i \in DOMAIN ms : ms[i] # Nil =>
            Fits(ReadResult_MarshalToSizedBufferVT(ms[i]), ReadResult_SizeVT(ms[i]))
    <3>1. \A i \in DOMAIN ms : ms[i] \in S
      <4> HIDE DEF S, ms
      <4> QED BY <2>1
    <3> QED BY <3>1, ReadResultFits DEF Pointers
  <2>3. \A i \in DOMAIN ms : Fits(c[i], l[i])
    BY <2>2, NothingFits, Zenon
  <2>4. \h0A \in 0 .. 255 /\ c = [i \in DOMAIN ms |-> c[i]] /\ l = [i \in DOMAIN ms |-> l[i]]
    OBVIOUS
  <2> HIDE DEF S, ms, c, l
  <2>5. Fits(Elements(\h0A, c), SizeElements(l))
    BY <2>1, <2>3, <2>4, RepeatedFits, Zenon
  <2> QED BY <2>5 DEF RepeatedField, SizeRepeated, ms, c, l
<1>2. Fits(m.unknownFields, Len(m.unknownFields))
  BY FitsUnknown DEF ReadResponseSet
<1> QED
  BY <1>1, <1>2, FitsCat, Zenon
     DEF ReadResponse_MarshalToSizedBufferVT, ReadResponse_SizeVT

\* PutOperation: what MarshalToSizedBufferVT writes has the length SizeVT gives.
LEMMA PutOperationFits ==
    ASSUME NEW m \in PutOperationSet
    PROVE  Fits(PutOperation_MarshalToSizedBufferVT(m), PutOperation_SizeVT(m))
<1>1. Fits(MessageField(\h0A, m.Document, Document_MarshalToSizedBufferVT),
          SizeMessage(m.Document, Document_SizeVT))
  <2>1. m.Document # Nil =>
            Fits(Document_MarshalToSizedBufferVT(m.Document), Document_SizeVT(m.Document))
    BY DocumentFits DEF PutOperationSet, Pointers
  <2>2. \h0A \in 0 .. 255
    OBVIOUS
  <2> QED BY <2>1, <2>2, MessageFits, Zenon DEF MessageField, SizeMessage
<1>2. Fits(EnumField(\h10, m.Mode), SizeEnum(m.Mode))
  BY EnumFits DEF PutOperationSet
<1>3. Fits(m.unknownFields, Len(m.unknownFields))
  BY FitsUnknown DEF PutOperationSet
<1> QED
  BY <1>1, <1>2, <1>3, FitsCat3, Zenon
     DEF PutOperation_MarshalToSizedBufferVT, PutOperation_SizeVT

\* LuaProgram: what MarshalToSizedBufferVT writes has the length SizeVT gives.
LEMMA LuaProgramFits ==
    ASSUME NEW m \in LuaProgramSet
    PROVE  Fits(LuaProgram_MarshalToSizedBufferVT(m), LuaProgram_SizeVT(m))
<1>1. Fits(BytesField(\h0A, m.Source), SizeBytes(m.Source))
  BY BytesFits DEF LuaProgramSet
<1>2. Fits(BytesField(\h12, m.Sha256), SizeBytes(m.Sha256))
  BY BytesFits DEF LuaProgramSet
<1>3. Fits(m.unknownFields, Len(m.unknownFields))
  BY FitsUnknown DEF LuaProgramSet
<1> QED
  BY <1>1, <1>2, <1>3, FitsCat3, Zenon
     DEF LuaProgram_MarshalToSizedBufferVT, LuaProgram_SizeVT

\* MergeOperation: what MarshalToSizedBufferVT writes has the length SizeVT gives.
LEMMA MergeOperationFits ==
    ASSUME NEW m \in MergeOperationSet
    PROVE  Fits(MergeOperation_MarshalToSizedBufferVT(m), MergeOperation_SizeVT(m))
<1>1. Fits(MessageField(\h0A, m.IncomingDocument, Document_MarshalToSizedBufferVT),
          SizeMessage(m.IncomingDocument, Document_SizeVT))
  <2>1. m.IncomingDocument # Nil =>
            Fits(Document_MarshalToSizedBufferVT(m.IncomingDocument),
                 Document_SizeVT(m.IncomingDocument))
    BY DocumentFits DEF MergeOperationSet, Pointers
  <2>2. \h0A \in 0 .. 255
    OBVIOUS
  <2> QED BY <2>1, <2>2, MessageFits, Zenon DEF MessageField, SizeMessage
<1>2. Fits(MessageField(\h12, m.LuaProgram, LuaProgram_MarshalToSizedBufferVT),
          SizeMessage(m.LuaProgram, LuaProgram_SizeVT))
  <2>1. m.LuaProgram # Nil =>
            Fits(LuaProgram_MarshalToSizedBufferVT(m.LuaProgram), LuaProgram_SizeVT(m.LuaProgram))
    BY LuaProgramFits DEF MergeOperationSet, Pointers
  <2>2. \h12 \in 0 .. 255
    OBVIOUS
  <2> QED BY <2>1, <2>2, MessageFits, Zenon DEF MessageField, SizeMessage
<1>3. Fits(m.unknownFields, Len(m.unknownFields))
  BY FitsUnknown DEF MergeOperationSet
<1> QED
  BY <1>1, <1>2, <1>3, FitsCat3, Zenon
     DEF MergeOperation_MarshalToSizedBufferVT, MergeOperation_SizeVT

\* The oneof writes the operation it holds, and nothing when it is unset.
LEMMA ActionFits ==
    ASSUME NEW a \in Pointers(ActionSet)
    PROVE  Fits(Action_MarshalToSizedBufferVT(a), Action_SizeVT(a))
<1>1. CASE a = Nil
  BY <1>1, NothingFits, Zenon DEF Action_MarshalToSizedBufferVT, Action_SizeVT
<1>2. CASE a # Nil /\ a.case = "Put" /\ a.m \in PutOperationSet /\ a.m # Nil
  <2>1. Fits(Delimited(\h12, PutOperation_MarshalToSizedBufferVT(a.m)),
             SizeDelimited(PutOperation_SizeVT(a.m)))
    BY <1>2, PutOperationFits, DelimitedFits
  <2> QED
    BY <1>2, <2>1
       DEF Action_MarshalToSizedBufferVT, WriteOperation_Put_MarshalToSizedBufferVT,
           Action_SizeVT, WriteOperation_Put_SizeVT
<1>3. CASE a # Nil /\ a.case = "Merge" /\ a.m \in MergeOperationSet /\ a.m # Nil
  <2>1. Fits(Delimited(\h1A, MergeOperation_MarshalToSizedBufferVT(a.m)),
             SizeDelimited(MergeOperation_SizeVT(a.m)))
    BY <1>3, MergeOperationFits, DelimitedFits
  <2> QED
    BY <1>3, <2>1
       DEF Action_MarshalToSizedBufferVT, WriteOperation_Merge_MarshalToSizedBufferVT,
           Action_SizeVT, WriteOperation_Merge_SizeVT
<1> QED
  BY <1>1, <1>2, <1>3 DEF Pointers, ActionSet

\* WriteOperation: what MarshalToSizedBufferVT writes has the length SizeVT gives.
LEMMA WriteOperationFits ==
    ASSUME NEW m \in WriteOperationSet
    PROVE  Fits(WriteOperation_MarshalToSizedBufferVT(m), WriteOperation_SizeVT(m))
<1>1. Fits(MessageField(\h0A, m.Address, RecordAddress_MarshalToSizedBufferVT),
          SizeMessage(m.Address, RecordAddress_SizeVT))
  <2>1. m.Address # Nil =>
            Fits(RecordAddress_MarshalToSizedBufferVT(m.Address), RecordAddress_SizeVT(m.Address))
    BY RecordAddressFits DEF WriteOperationSet, Pointers
  <2>2. \h0A \in 0 .. 255
    OBVIOUS
  <2> QED BY <2>1, <2>2, MessageFits, Zenon DEF MessageField, SizeMessage
<1>2. Fits(BoolField(\h20, m.ReturnDocument), SizeBool(m.ReturnDocument))
  BY BoolFits DEF WriteOperationSet
<1>3. Fits(Action_MarshalToSizedBufferVT(m.Action), Action_SizeVT(m.Action))
  BY ActionFits DEF WriteOperationSet
<1>4. Fits(m.unknownFields, Len(m.unknownFields))
  BY FitsUnknown DEF WriteOperationSet
<1> DEFINE p == SizeMessage(m.Address, RecordAddress_SizeVT)
           q == SizeBool(m.ReturnDocument)
           r == Action_SizeVT(m.Action)
           s == Len(m.unknownFields)
<1>5. Fits(WriteOperation_MarshalToSizedBufferVT(m), p + q + r + s)
  BY <1>1, <1>2, <1>3, <1>4, FitsCat4, Zenon DEF WriteOperation_MarshalToSizedBufferVT
<1>6. p \in Nat /\ q \in Nat /\ r \in Nat /\ s \in Nat
  BY <1>1, <1>2, <1>3, <1>4, Zenon DEF Fits
<1>7. WriteOperation_SizeVT(m) = p + r + q + s
  BY DEF WriteOperation_SizeVT
<1> HIDE DEF p, q, r, s
<1>8. p + q + r + s = p + r + q + s
  BY <1>6
<1> QED BY <1>5, <1>7, <1>8, Zenon

\* WriteRequest: what MarshalToSizedBufferVT writes has the length SizeVT gives.
LEMMA WriteRequestFits ==
    ASSUME NEW m \in WriteRequestSet
    PROVE  Fits(WriteRequest_MarshalToSizedBufferVT(m), WriteRequest_SizeVT(m))
<1>1. Fits(EnumField(\h08, m.CompletionMode), SizeEnum(m.CompletionMode))
  BY EnumFits DEF WriteRequestSet
<1>2. Fits(RepeatedField(\h12, m.Operations, WriteOperation_MarshalToSizedBufferVT),
          SizeRepeated(m.Operations, WriteOperation_SizeVT))
  <2> DEFINE ms == m.Operations
             c == [i \in DOMAIN ms |->
                      IF ms[i] = Nil THEN << >> ELSE WriteOperation_MarshalToSizedBufferVT(ms[i])]
             l == [i \in DOMAIN ms |-> IF ms[i] = Nil THEN 0 ELSE WriteOperation_SizeVT(ms[i])]
             S == Pointers(WriteOperationSet)
  <2>1. ms \in Seq(S)
    BY DEF WriteRequestSet
  <2>2. \A i \in DOMAIN ms : ms[i] # Nil =>
            Fits(WriteOperation_MarshalToSizedBufferVT(ms[i]), WriteOperation_SizeVT(ms[i]))
    <3>1. \A i \in DOMAIN ms : ms[i] \in S
      <4> HIDE DEF S, ms
      <4> QED BY <2>1
    <3> QED BY <3>1, WriteOperationFits DEF Pointers
  <2>3. \A i \in DOMAIN ms : Fits(c[i], l[i])
    BY <2>2, NothingFits, Zenon
  <2>4. \h12 \in 0 .. 255 /\ c = [i \in DOMAIN ms |-> c[i]] /\ l = [i \in DOMAIN ms |-> l[i]]
    OBVIOUS
  <2> HIDE DEF S, ms, c, l
  <2>5. Fits(Elements(\h12, c), SizeElements(l))
    BY <2>1, <2>3, <2>4, RepeatedFits, Zenon
  <2> QED BY <2>5 DEF RepeatedField, SizeRepeated, ms, c, l
<1>3. Fits(RepeatedField(\h1A, m.LuaPrograms, LuaProgram_MarshalToSizedBufferVT),
          SizeRepeated(m.LuaPrograms, LuaProgram_SizeVT))
  <2> DEFINE ms == m.LuaPrograms
             c == [i \in DOMAIN ms |->
                      IF ms[i] = Nil THEN << >> ELSE LuaProgram_MarshalToSizedBufferVT(ms[i])]
             l == [i \in DOMAIN ms |-> IF ms[i] = Nil THEN 0 ELSE LuaProgram_SizeVT(ms[i])]
             S == Pointers(LuaProgramSet)
  <2>1. ms \in Seq(S)
    BY DEF WriteRequestSet
  <2>2. \A i \in DOMAIN ms : ms[i] # Nil =>
            Fits(LuaProgram_MarshalToSizedBufferVT(ms[i]), LuaProgram_SizeVT(ms[i]))
    <3>1. \A i \in DOMAIN ms : ms[i] \in S
      <4> HIDE DEF S, ms
      <4> QED BY <2>1
    <3> QED BY <3>1, LuaProgramFits DEF Pointers
  <2>3. \A i \in DOMAIN ms : Fits(c[i], l[i])
    BY <2>2, NothingFits, Zenon
  <2>4. \h1A \in 0 .. 255 /\ c = [i \in DOMAIN ms |-> c[i]] /\ l = [i \in DOMAIN ms |-> l[i]]
    OBVIOUS
  <2> HIDE DEF S, ms, c, l
  <2>5. Fits(Elements(\h1A, c), SizeElements(l))
    BY <2>1, <2>3, <2>4, RepeatedFits, Zenon
  <2> QED BY <2>5 DEF RepeatedField, SizeRepeated, ms, c, l
<1>4. Fits(m.unknownFields, Len(m.unknownFields))
  BY FitsUnknown DEF WriteRequestSet
<1> QED
  BY <1>1, <1>2, <1>3, <1>4, FitsCat4, Zenon
     DEF WriteRequest_MarshalToSizedBufferVT, WriteRequest_SizeVT

\* WriteResult: what MarshalToSizedBufferVT writes has the length SizeVT gives.
LEMMA WriteResultFits ==
    ASSUME NEW m \in WriteResultSet
    PROVE  Fits(WriteResult_MarshalToSizedBufferVT(m), WriteResult_SizeVT(m))
<1>1. Fits(UintField(\h08, m.OperationIndex), SizeUint(m.OperationIndex))
  BY UintFits DEF WriteResultSet, Numbers32
<1>2. Fits(EnumField(\h10, m.Status), SizeEnum(m.Status))
  BY EnumFits DEF WriteResultSet
<1>3. Fits(MessageField(\h1A, m.Revision, RevisionToken_MarshalToSizedBufferVT),
          SizeMessage(m.Revision, RevisionToken_SizeVT))
  <2>1. m.Revision # Nil =>
            Fits(RevisionToken_MarshalToSizedBufferVT(m.Revision), RevisionToken_SizeVT(m.Revision))
    BY RevisionTokenFits DEF WriteResultSet, Pointers
  <2>2. \h1A \in 0 .. 255
    OBVIOUS
  <2> QED BY <2>1, <2>2, MessageFits, Zenon DEF MessageField, SizeMessage
<1>4. Fits(MessageField(\h22, m.Failure, Failure_MarshalToSizedBufferVT),
          SizeMessage(m.Failure, Failure_SizeVT))
  <2>1. m.Failure # Nil =>
            Fits(Failure_MarshalToSizedBufferVT(m.Failure), Failure_SizeVT(m.Failure))
    BY FailureFits DEF WriteResultSet, Pointers
  <2>2. \h22 \in 0 .. 255
    OBVIOUS
  <2> QED BY <2>1, <2>2, MessageFits, Zenon DEF MessageField, SizeMessage
<1>5. Fits(MessageField(\h2A, m.Document, Document_MarshalToSizedBufferVT),
          SizeMessage(m.Document, Document_SizeVT))
  <2>1. m.Document # Nil =>
            Fits(Document_MarshalToSizedBufferVT(m.Document), Document_SizeVT(m.Document))
    BY DocumentFits DEF WriteResultSet, Pointers
  <2>2. \h2A \in 0 .. 255
    OBVIOUS
  <2> QED BY <2>1, <2>2, MessageFits, Zenon DEF MessageField, SizeMessage
<1>6. Fits(m.unknownFields, Len(m.unknownFields))
  BY FitsUnknown DEF WriteResultSet
<1>7. Fits(UintField(\h08, m.OperationIndex) \o EnumField(\h10, m.Status)
          \o MessageField(\h1A, m.Revision, RevisionToken_MarshalToSizedBufferVT)
          \o MessageField(\h22, m.Failure, Failure_MarshalToSizedBufferVT),
          SizeUint(m.OperationIndex) + SizeEnum(m.Status)
          + SizeMessage(m.Revision, RevisionToken_SizeVT)
          + SizeMessage(m.Failure, Failure_SizeVT))
  BY <1>1, <1>2, <1>3, <1>4, FitsCat4, Zenon
<1> QED
  BY <1>7, <1>5, <1>6, FitsCat3, Zenon
     DEF WriteResult_MarshalToSizedBufferVT, WriteResult_SizeVT

\* WriteResponse: what MarshalToSizedBufferVT writes has the length SizeVT gives.
LEMMA WriteResponseFits ==
    ASSUME NEW m \in WriteResponseSet
    PROVE  Fits(WriteResponse_MarshalToSizedBufferVT(m), WriteResponse_SizeVT(m))
<1>1. Fits(RepeatedField(\h0A, m.Results, WriteResult_MarshalToSizedBufferVT),
          SizeRepeated(m.Results, WriteResult_SizeVT))
  <2> DEFINE ms == m.Results
             c == [i \in DOMAIN ms |->
                      IF ms[i] = Nil THEN << >> ELSE WriteResult_MarshalToSizedBufferVT(ms[i])]
             l == [i \in DOMAIN ms |-> IF ms[i] = Nil THEN 0 ELSE WriteResult_SizeVT(ms[i])]
             S == Pointers(WriteResultSet)
  <2>1. ms \in Seq(S)
    BY DEF WriteResponseSet
  <2>2. \A i \in DOMAIN ms : ms[i] # Nil =>
            Fits(WriteResult_MarshalToSizedBufferVT(ms[i]), WriteResult_SizeVT(ms[i]))
    <3>1. \A i \in DOMAIN ms : ms[i] \in S
      <4> HIDE DEF S, ms
      <4> QED BY <2>1
    <3> QED BY <3>1, WriteResultFits DEF Pointers
  <2>3. \A i \in DOMAIN ms : Fits(c[i], l[i])
    BY <2>2, NothingFits, Zenon
  <2>4. \h0A \in 0 .. 255 /\ c = [i \in DOMAIN ms |-> c[i]] /\ l = [i \in DOMAIN ms |-> l[i]]
    OBVIOUS
  <2> HIDE DEF S, ms, c, l
  <2>5. Fits(Elements(\h0A, c), SizeElements(l))
    BY <2>1, <2>3, <2>4, RepeatedFits, Zenon
  <2> QED BY <2>5 DEF RepeatedField, SizeRepeated, ms, c, l
<1>2. Fits(m.unknownFields, Len(m.unknownFields))
  BY FitsUnknown DEF WriteResponseSet
<1> QED
  BY <1>1, <1>2, FitsCat, Zenon
     DEF WriteResponse_MarshalToSizedBufferVT, WriteResponse_SizeVT

\* DeleteOperation: what MarshalToSizedBufferVT writes has the length SizeVT gives.
LEMMA DeleteOperationFits ==
    ASSUME NEW m \in DeleteOperationSet
    PROVE  Fits(DeleteOperation_MarshalToSizedBufferVT(m), DeleteOperation_SizeVT(m))
<1>1. Fits(MessageField(\h0A, m.Address, RecordAddress_MarshalToSizedBufferVT),
          SizeMessage(m.Address, RecordAddress_SizeVT))
  <2>1. m.Address # Nil =>
            Fits(RecordAddress_MarshalToSizedBufferVT(m.Address), RecordAddress_SizeVT(m.Address))
    BY RecordAddressFits DEF DeleteOperationSet, Pointers
  <2>2. \h0A \in 0 .. 255
    OBVIOUS
  <2> QED BY <2>1, <2>2, MessageFits, Zenon DEF MessageField, SizeMessage
<1>2. Fits(m.unknownFields, Len(m.unknownFields))
  BY FitsUnknown DEF DeleteOperationSet
<1> QED
  BY <1>1, <1>2, FitsCat, Zenon
     DEF DeleteOperation_MarshalToSizedBufferVT, DeleteOperation_SizeVT

\* DeleteRequest: what MarshalToSizedBufferVT writes has the length SizeVT gives.
LEMMA DeleteRequestFits ==
    ASSUME NEW m \in DeleteRequestSet
    PROVE  Fits(DeleteRequest_MarshalToSizedBufferVT(m), DeleteRequest_SizeVT(m))
<1>1. Fits(EnumField(\h08, m.CompletionMode), SizeEnum(m.CompletionMode))
  BY EnumFits DEF DeleteRequestSet
<1>2. Fits(RepeatedField(\h12, m.Operations, DeleteOperation_MarshalToSizedBufferVT),
          SizeRepeated(m.Operations, DeleteOperation_SizeVT))
  <2> DEFINE ms == m.Operations
             c == [i \in DOMAIN ms |->
                      IF ms[i] = Nil THEN << >> ELSE DeleteOperation_MarshalToSizedBufferVT(ms[i])]
             l == [i \in DOMAIN ms |-> IF ms[i] = Nil THEN 0 ELSE DeleteOperation_SizeVT(ms[i])]
             S == Pointers(DeleteOperationSet)
  <2>1. ms \in Seq(S)
    BY DEF DeleteRequestSet
  <2>2. \A i \in DOMAIN ms : ms[i] # Nil =>
            Fits(DeleteOperation_MarshalToSizedBufferVT(ms[i]), DeleteOperation_SizeVT(ms[i]))
    <3>1. \A i \in DOMAIN ms : ms[i] \in S
      <4> HIDE DEF S, ms
      <4> QED BY <2>1
    <3> QED BY <3>1, DeleteOperationFits DEF Pointers
  <2>3. \A i \in DOMAIN ms : Fits(c[i], l[i])
    BY <2>2, NothingFits, Zenon
  <2>4. \h12 \in 0 .. 255 /\ c = [i \in DOMAIN ms |-> c[i]] /\ l = [i \in DOMAIN ms |-> l[i]]
    OBVIOUS
  <2> HIDE DEF S, ms, c, l
  <2>5. Fits(Elements(\h12, c), SizeElements(l))
    BY <2>1, <2>3, <2>4, RepeatedFits, Zenon
  <2> QED BY <2>5 DEF RepeatedField, SizeRepeated, ms, c, l
<1>3. Fits(m.unknownFields, Len(m.unknownFields))
  BY FitsUnknown DEF DeleteRequestSet
<1> QED
  BY <1>1, <1>2, <1>3, FitsCat3, Zenon
     DEF DeleteRequest_MarshalToSizedBufferVT, DeleteRequest_SizeVT

\* DeleteResult: what MarshalToSizedBufferVT writes has the length SizeVT gives.
LEMMA DeleteResultFits ==
    ASSUME NEW m \in DeleteResultSet
    PROVE  Fits(DeleteResult_MarshalToSizedBufferVT(m), DeleteResult_SizeVT(m))
<1>1. Fits(UintField(\h08, m.OperationIndex), SizeUint(m.OperationIndex))
  BY UintFits DEF DeleteResultSet, Numbers32
<1>2. Fits(EnumField(\h10, m.Status), SizeEnum(m.Status))
  BY EnumFits DEF DeleteResultSet
<1>3. Fits(MessageField(\h1A, m.Failure, Failure_MarshalToSizedBufferVT),
          SizeMessage(m.Failure, Failure_SizeVT))
  <2>1. m.Failure # Nil =>
            Fits(Failure_MarshalToSizedBufferVT(m.Failure), Failure_SizeVT(m.Failure))
    BY FailureFits DEF DeleteResultSet, Pointers
  <2>2. \h1A \in 0 .. 255
    OBVIOUS
  <2> QED BY <2>1, <2>2, MessageFits, Zenon DEF MessageField, SizeMessage
<1>4. Fits(m.unknownFields, Len(m.unknownFields))
  BY FitsUnknown DEF DeleteResultSet
<1> QED
  BY <1>1, <1>2, <1>3, <1>4, FitsCat4, Zenon
     DEF DeleteResult_MarshalToSizedBufferVT, DeleteResult_SizeVT

\* DeleteResponse: what MarshalToSizedBufferVT writes has the length SizeVT gives.
LEMMA DeleteResponseFits ==
    ASSUME NEW m \in DeleteResponseSet
    PROVE  Fits(DeleteResponse_MarshalToSizedBufferVT(m), DeleteResponse_SizeVT(m))
<1>1. Fits(RepeatedField(\h0A, m.Results, DeleteResult_MarshalToSizedBufferVT),
          SizeRepeated(m.Results, DeleteResult_SizeVT))
  <2> DEFINE ms == m.Results
             c == [i \in DOMAIN ms |->
                      IF ms[i] = Nil THEN << >> ELSE DeleteResult_MarshalToSizedBufferVT(ms[i])]
             l == [i \in DOMAIN ms |-> IF ms[i] = Nil THEN 0 ELSE DeleteResult_SizeVT(ms[i])]
             S == Pointers(DeleteResultSet)
  <2>1. ms \in Seq(S)
    BY DEF DeleteResponseSet
  <2>2. \A i \in DOMAIN ms : ms[i] # Nil =>
            Fits(DeleteResult_MarshalToSizedBufferVT(ms[i]), DeleteResult_SizeVT(ms[i]))
    <3>1. \A i \in DOMAIN ms : ms[i] \in S
      <4> HIDE DEF S, ms
      <4> QED BY <2>1
    <3> QED BY <3>1, DeleteResultFits DEF Pointers
  <2>3. \A i \in DOMAIN ms : Fits(c[i], l[i])
    BY <2>2, NothingFits, Zenon
  <2>4. \h0A \in 0 .. 255 /\ c = [i \in DOMAIN ms |-> c[i]] /\ l = [i \in DOMAIN ms |-> l[i]]
    OBVIOUS
  <2> HIDE DEF S, ms, c, l
  <2>5. Fits(Elements(\h0A, c), SizeElements(l))
    BY <2>1, <2>3, <2>4, RepeatedFits, Zenon
  <2> QED BY <2>5 DEF RepeatedField, SizeRepeated, ms, c, l
<1>2. Fits(m.unknownFields, Len(m.unknownFields))
  BY FitsUnknown DEF DeleteResponseSet
<1> QED
  BY <1>1, <1>2, FitsCat, Zenon
     DEF DeleteResponse_MarshalToSizedBufferVT, DeleteResponse_SizeVT

\* Header: what MarshalToSizedBufferVT writes has the length SizeVT gives.
LEMMA HeaderFits ==
    ASSUME NEW m \in HeaderSet
    PROVE  Fits(Header_MarshalToSizedBufferVT(m), Header_SizeVT(m))
<1>1. Fits(BytesField(\h0A, m.Name), SizeBytes(m.Name))
  BY BytesFits DEF HeaderSet
<1>2. Fits(RepeatedField(\h12, m.Values, LAMBDA s : s), SizeRepeated(m.Values, Len))
  <2>1. m.Values \in Seq(Bytes)
    BY DEF HeaderSet
  <2>2. \h12 \in 0 .. 255
    OBVIOUS
  <2> QED BY <2>1, <2>2, StringsFit, Zenon
<1>3. Fits(m.unknownFields, Len(m.unknownFields))
  BY FitsUnknown DEF HeaderSet
<1> QED
  BY <1>1, <1>2, <1>3, FitsCat3, Zenon
     DEF Header_MarshalToSizedBufferVT, Header_SizeVT

\* Command: what MarshalToSizedBufferVT writes has the length SizeVT gives.
LEMMA CommandFits ==
    ASSUME NEW m \in CommandSet
    PROVE  Fits(Command_MarshalToSizedBufferVT(m), Command_SizeVT(m))
<1>1. Fits(BytesField(\h0A, m.Uri), SizeBytes(m.Uri))
  BY BytesFits DEF CommandSet
<1>2. Fits(BytesField(\h12, m.Method), SizeBytes(m.Method))
  BY BytesFits DEF CommandSet
<1>3. Fits(BytesField(\h1A, m.Path), SizeBytes(m.Path))
  BY BytesFits DEF CommandSet
<1>4. Fits(BytesField(\h22, m.Query), SizeBytes(m.Query))
  BY BytesFits DEF CommandSet
<1>5. Fits(RepeatedField(\h2A, m.Headers, Header_MarshalToSizedBufferVT),
          SizeRepeated(m.Headers, Header_SizeVT))
  <2> DEFINE ms == m.Headers
             c == [i \in DOMAIN ms |->
                      IF ms[i] = Nil THEN << >> ELSE Header_MarshalToSizedBufferVT(ms[i])]
             l == [i \in DOMAIN ms |-> IF ms[i] = Nil THEN 0 ELSE Header_SizeVT(ms[i])]
             S == Pointers(HeaderSet)
  <2>1. ms \in Seq(S)
    BY DEF CommandSet
  <2>2. \A i \in DOMAIN ms : ms[i] # Nil =>
            Fits(Header_MarshalToSizedBufferVT(ms[i]), Header_SizeVT(ms[i]))
    <3>1. \A i \in DOMAIN ms : ms[i] \in S
      <4> HIDE DEF S, ms
      <4> QED BY <2>1
    <3> QED BY <3>1, HeaderFits DEF Pointers
  <2>3. \A i \in DOMAIN ms : Fits(c[i], l[i])
    BY <2>2, NothingFits, Zenon
  <2>4. \h2A \in 0 .. 255 /\ c = [i \in DOMAIN ms |-> c[i]] /\ l = [i \in DOMAIN ms |-> l[i]]
    OBVIOUS
  <2> HIDE DEF S, ms, c, l
  <2>5. Fits(Elements(\h2A, c), SizeElements(l))
    BY <2>1, <2>3, <2>4, RepeatedFits, Zenon
  <2> QED BY <2>5 DEF RepeatedField, SizeRepeated, ms, c, l
<1>6. Fits(BytesField(\h32, m.ContentType), SizeBytes(m.ContentType))
  BY BytesFits DEF CommandSet
<1>7. Fits(BytesField(\h3A, m.Payload), SizeBytes(m.Payload))
  BY BytesFits DEF CommandSet
<1>8. Fits(m.unknownFields, Len(m.unknownFields))
  BY FitsUnknown DEF CommandSet
<1>9. Fits(BytesField(\h0A, m.Uri) \o BytesField(\h12, m.Method)
          \o BytesField(\h1A, m.Path) \o BytesField(\h22, m.Query),
          SizeBytes(m.Uri) + SizeBytes(m.Method) + SizeBytes(m.Path)
          + SizeBytes(m.Query))
  BY <1>1, <1>2, <1>3, <1>4, FitsCat4, Zenon
<1>10. Fits(BytesField(\h0A, m.Uri) \o BytesField(\h12, m.Method)
          \o BytesField(\h1A, m.Path) \o BytesField(\h22, m.Query)
          \o RepeatedField(\h2A, m.Headers, Header_MarshalToSizedBufferVT)
          \o BytesField(\h32, m.ContentType) \o BytesField(\h3A, m.Payload),
          SizeBytes(m.Uri) + SizeBytes(m.Method) + SizeBytes(m.Path)
          + SizeBytes(m.Query) + SizeRepeated(m.Headers, Header_SizeVT)
          + SizeBytes(m.ContentType) + SizeBytes(m.Payload))
  BY <1>9, <1>5, <1>6, <1>7, FitsCat4, Zenon
<1> QED
  BY <1>10, <1>8, FitsCat, Zenon
     DEF Command_MarshalToSizedBufferVT, Command_SizeVT

\* ExecuteRequest: what MarshalToSizedBufferVT writes has the length SizeVT gives.
LEMMA ExecuteRequestFits ==
    ASSUME NEW m \in ExecuteRequestSet
    PROVE  Fits(ExecuteRequest_MarshalToSizedBufferVT(m), ExecuteRequest_SizeVT(m))
<1>1. Fits(MessageField(\h0A, m.Command, Command_MarshalToSizedBufferVT),
          SizeMessage(m.Command, Command_SizeVT))
  <2>1. m.Command # Nil =>
            Fits(Command_MarshalToSizedBufferVT(m.Command), Command_SizeVT(m.Command))
    BY CommandFits DEF ExecuteRequestSet, Pointers
  <2>2. \h0A \in 0 .. 255
    OBVIOUS
  <2> QED BY <2>1, <2>2, MessageFits, Zenon DEF MessageField, SizeMessage
<1>2. Fits(m.unknownFields, Len(m.unknownFields))
  BY FitsUnknown DEF ExecuteRequestSet
<1> QED
  BY <1>1, <1>2, FitsCat, Zenon
     DEF ExecuteRequest_MarshalToSizedBufferVT, ExecuteRequest_SizeVT

\* ExecuteResponse: what MarshalToSizedBufferVT writes has the length SizeVT gives.
LEMMA ExecuteResponseFits ==
    ASSUME NEW m \in ExecuteResponseSet
    PROVE  Fits(ExecuteResponse_MarshalToSizedBufferVT(m), ExecuteResponse_SizeVT(m))
<1>1. Fits(BytesField(\h0A, m.ContentType), SizeBytes(m.ContentType))
  BY BytesFits DEF ExecuteResponseSet
<1>2. Fits(BytesField(\h12, m.Payload), SizeBytes(m.Payload))
  BY BytesFits DEF ExecuteResponseSet
<1>3. Fits(BoolField(\h18, m.Success), SizeBool(m.Success))
  BY BoolFits DEF ExecuteResponseSet
<1>4. Fits(UintField(\h20, m.StatusCode), SizeUint(m.StatusCode))
  BY UintFits DEF ExecuteResponseSet, Numbers32
<1>5. Fits(RepeatedField(\h2A, m.Headers, Header_MarshalToSizedBufferVT),
          SizeRepeated(m.Headers, Header_SizeVT))
  <2> DEFINE ms == m.Headers
             c == [i \in DOMAIN ms |->
                      IF ms[i] = Nil THEN << >> ELSE Header_MarshalToSizedBufferVT(ms[i])]
             l == [i \in DOMAIN ms |-> IF ms[i] = Nil THEN 0 ELSE Header_SizeVT(ms[i])]
             S == Pointers(HeaderSet)
  <2>1. ms \in Seq(S)
    BY DEF ExecuteResponseSet
  <2>2. \A i \in DOMAIN ms : ms[i] # Nil =>
            Fits(Header_MarshalToSizedBufferVT(ms[i]), Header_SizeVT(ms[i]))
    <3>1. \A i \in DOMAIN ms : ms[i] \in S
      <4> HIDE DEF S, ms
      <4> QED BY <2>1
    <3> QED BY <3>1, HeaderFits DEF Pointers
  <2>3. \A i \in DOMAIN ms : Fits(c[i], l[i])
    BY <2>2, NothingFits, Zenon
  <2>4. \h2A \in 0 .. 255 /\ c = [i \in DOMAIN ms |-> c[i]] /\ l = [i \in DOMAIN ms |-> l[i]]
    OBVIOUS
  <2> HIDE DEF S, ms, c, l
  <2>5. Fits(Elements(\h2A, c), SizeElements(l))
    BY <2>1, <2>3, <2>4, RepeatedFits, Zenon
  <2> QED BY <2>5 DEF RepeatedField, SizeRepeated, ms, c, l
<1>6. Fits(m.unknownFields, Len(m.unknownFields))
  BY FitsUnknown DEF ExecuteResponseSet
<1>7. Fits(BytesField(\h0A, m.ContentType) \o BytesField(\h12, m.Payload)
          \o BoolField(\h18, m.Success) \o UintField(\h20, m.StatusCode),
          SizeBytes(m.ContentType) + SizeBytes(m.Payload) + SizeBool(m.Success)
          + SizeUint(m.StatusCode))
  BY <1>1, <1>2, <1>3, <1>4, FitsCat4, Zenon
<1> QED
  BY <1>7, <1>5, <1>6, FitsCat3, Zenon
     DEF ExecuteResponse_MarshalToSizedBufferVT, ExecuteResponse_SizeVT

\* SortField: what MarshalToSizedBufferVT writes has the length SizeVT gives.
LEMMA SortFieldFits ==
    ASSUME NEW m \in SortFieldSet
    PROVE  Fits(SortField_MarshalToSizedBufferVT(m), SortField_SizeVT(m))
<1>1. Fits(BytesField(\h0A, m.Field), SizeBytes(m.Field))
  BY BytesFits DEF SortFieldSet
<1>2. Fits(BoolField(\h10, m.Descending), SizeBool(m.Descending))
  BY BoolFits DEF SortFieldSet
<1>3. Fits(m.unknownFields, Len(m.unknownFields))
  BY FitsUnknown DEF SortFieldSet
<1> QED
  BY <1>1, <1>2, <1>3, FitsCat3, Zenon
     DEF SortField_MarshalToSizedBufferVT, SortField_SizeVT

\* Projection: what MarshalToSizedBufferVT writes has the length SizeVT gives.
LEMMA ProjectionFits ==
    ASSUME NEW m \in ProjectionSet
    PROVE  Fits(Projection_MarshalToSizedBufferVT(m), Projection_SizeVT(m))
<1>1. Fits(RepeatedField(\h0A, m.Fields, LAMBDA s : s), SizeRepeated(m.Fields, Len))
  <2>1. m.Fields \in Seq(Bytes)
    BY DEF ProjectionSet
  <2>2. \h0A \in 0 .. 255
    OBVIOUS
  <2> QED BY <2>1, <2>2, StringsFit, Zenon
<1>2. Fits(BoolField(\h10, m.Exclude), SizeBool(m.Exclude))
  BY BoolFits DEF ProjectionSet
<1>3. Fits(m.unknownFields, Len(m.unknownFields))
  BY FitsUnknown DEF ProjectionSet
<1> QED
  BY <1>1, <1>2, <1>3, FitsCat3, Zenon
     DEF Projection_MarshalToSizedBufferVT, Projection_SizeVT

\* QueryRequest: what MarshalToSizedBufferVT writes has the length SizeVT gives.
LEMMA QueryRequestFits ==
    ASSUME NEW m \in QueryRequestSet
    PROVE  Fits(QueryRequest_MarshalToSizedBufferVT(m), QueryRequest_SizeVT(m))
<1>1. Fits(MessageField(\h0A, m.Command, Command_MarshalToSizedBufferVT),
          SizeMessage(m.Command, Command_SizeVT))
  <2>1. m.Command # Nil =>
            Fits(Command_MarshalToSizedBufferVT(m.Command), Command_SizeVT(m.Command))
    BY CommandFits DEF QueryRequestSet, Pointers
  <2>2. \h0A \in 0 .. 255
    OBVIOUS
  <2> QED BY <2>1, <2>2, MessageFits, Zenon DEF MessageField, SizeMessage
<1>2. Fits(UintField(\h10, m.Page), SizeUint(m.Page))
  BY UintFits DEF QueryRequestSet, Numbers32
<1>3. Fits(UintField(\h18, m.PageSize), SizeUint(m.PageSize))
  BY UintFits DEF QueryRequestSet, Numbers32
<1>4. Fits(RepeatedField(\h22, m.Sort, SortField_MarshalToSizedBufferVT),
          SizeRepeated(m.Sort, SortField_SizeVT))
  <2> DEFINE ms == m.Sort
             c == [i \in DOMAIN ms |->
                      IF ms[i] = Nil THEN << >> ELSE SortField_MarshalToSizedBufferVT(ms[i])]
             l == [i \in DOMAIN ms |-> IF ms[i] = Nil THEN 0 ELSE SortField_SizeVT(ms[i])]
             S == Pointers(SortFieldSet)
  <2>1. ms \in Seq(S)
    BY DEF QueryRequestSet
  <2>2. \A i \in DOMAIN ms : ms[i] # Nil =>
            Fits(SortField_MarshalToSizedBufferVT(ms[i]), SortField_SizeVT(ms[i]))
    <3>1. \A i \in DOMAIN ms : ms[i] \in S
      <4> HIDE DEF S, ms
      <4> QED BY <2>1
    <3> QED BY <3>1, SortFieldFits DEF Pointers
  <2>3. \A i \in DOMAIN ms : Fits(c[i], l[i])
    BY <2>2, NothingFits, Zenon
  <2>4. \h22 \in 0 .. 255 /\ c = [i \in DOMAIN ms |-> c[i]] /\ l = [i \in DOMAIN ms |-> l[i]]
    OBVIOUS
  <2> HIDE DEF S, ms, c, l
  <2>5. Fits(Elements(\h22, c), SizeElements(l))
    BY <2>1, <2>3, <2>4, RepeatedFits, Zenon
  <2> QED BY <2>5 DEF RepeatedField, SizeRepeated, ms, c, l
<1>5. Fits(MessageField(\h2A, m.Projection, Projection_MarshalToSizedBufferVT),
          SizeMessage(m.Projection, Projection_SizeVT))
  <2>1. m.Projection # Nil =>
            Fits(Projection_MarshalToSizedBufferVT(m.Projection), Projection_SizeVT(m.Projection))
    BY ProjectionFits DEF QueryRequestSet, Pointers
  <2>2. \h2A \in 0 .. 255
    OBVIOUS
  <2> QED BY <2>1, <2>2, MessageFits, Zenon DEF MessageField, SizeMessage
<1>6. Fits(m.unknownFields, Len(m.unknownFields))
  BY FitsUnknown DEF QueryRequestSet
<1>7. Fits(MessageField(\h0A, m.Command, Command_MarshalToSizedBufferVT)
          \o UintField(\h10, m.Page) \o UintField(\h18, m.PageSize)
          \o RepeatedField(\h22, m.Sort, SortField_MarshalToSizedBufferVT),
          SizeMessage(m.Command, Command_SizeVT) + SizeUint(m.Page)
          + SizeUint(m.PageSize) + SizeRepeated(m.Sort, SortField_SizeVT))
  BY <1>1, <1>2, <1>3, <1>4, FitsCat4, Zenon
<1> QED
  BY <1>7, <1>5, <1>6, FitsCat3, Zenon
     DEF QueryRequest_MarshalToSizedBufferVT, QueryRequest_SizeVT

\* QueryResponse: what MarshalToSizedBufferVT writes has the length SizeVT gives.
LEMMA QueryResponseFits ==
    ASSUME NEW m \in QueryResponseSet
    PROVE  Fits(QueryResponse_MarshalToSizedBufferVT(m), QueryResponse_SizeVT(m))
<1>1. Fits(RepeatedField(\h0A, m.Documents, Document_MarshalToSizedBufferVT),
          SizeRepeated(m.Documents, Document_SizeVT))
  <2> DEFINE ms == m.Documents
             c == [i \in DOMAIN ms |->
                      IF ms[i] = Nil THEN << >> ELSE Document_MarshalToSizedBufferVT(ms[i])]
             l == [i \in DOMAIN ms |-> IF ms[i] = Nil THEN 0 ELSE Document_SizeVT(ms[i])]
             S == Pointers(DocumentSet)
  <2>1. ms \in Seq(S)
    BY DEF QueryResponseSet
  <2>2. \A i \in DOMAIN ms : ms[i] # Nil =>
            Fits(Document_MarshalToSizedBufferVT(ms[i]), Document_SizeVT(ms[i]))
    <3>1. \A i \in DOMAIN ms : ms[i] \in S
      <4> HIDE DEF S, ms
      <4> QED BY <2>1
    <3> QED BY <3>1, DocumentFits DEF Pointers
  <2>3. \A i \in DOMAIN ms : Fits(c[i], l[i])
    BY <2>2, NothingFits, Zenon
  <2>4. \h0A \in 0 .. 255 /\ c = [i \in DOMAIN ms |-> c[i]] /\ l = [i \in DOMAIN ms |-> l[i]]
    OBVIOUS
  <2> HIDE DEF S, ms, c, l
  <2>5. Fits(Elements(\h0A, c), SizeElements(l))
    BY <2>1, <2>3, <2>4, RepeatedFits, Zenon
  <2> QED BY <2>5 DEF RepeatedField, SizeRepeated, ms, c, l
<1>2. Fits(BoolField(\h10, m.HasMore), SizeBool(m.HasMore))
  BY BoolFits DEF QueryResponseSet
<1>3. Fits(m.unknownFields, Len(m.unknownFields))
  BY FitsUnknown DEF QueryResponseSet
<1> QED
  BY <1>1, <1>2, <1>3, FitsCat3, Zenon
     DEF QueryResponse_MarshalToSizedBufferVT, QueryResponse_SizeVT

\* CountRequest: what MarshalToSizedBufferVT writes has the length SizeVT gives.
LEMMA CountRequestFits ==
    ASSUME NEW m \in CountRequestSet
    PROVE  Fits(CountRequest_MarshalToSizedBufferVT(m), CountRequest_SizeVT(m))
<1>1. Fits(MessageField(\h0A, m.Command, Command_MarshalToSizedBufferVT),
          SizeMessage(m.Command, Command_SizeVT))
  <2>1. m.Command # Nil =>
            Fits(Command_MarshalToSizedBufferVT(m.Command), Command_SizeVT(m.Command))
    BY CommandFits DEF CountRequestSet, Pointers
  <2>2. \h0A \in 0 .. 255
    OBVIOUS
  <2> QED BY <2>1, <2>2, MessageFits, Zenon DEF MessageField, SizeMessage
<1>2. Fits(m.unknownFields, Len(m.unknownFields))
  BY FitsUnknown DEF CountRequestSet
<1> QED
  BY <1>1, <1>2, FitsCat, Zenon
     DEF CountRequest_MarshalToSizedBufferVT, CountRequest_SizeVT

\* CountResponse: what MarshalToSizedBufferVT writes has the length SizeVT gives.
LEMMA CountResponseFits ==
    ASSUME NEW m \in CountResponseSet
    PROVE  Fits(CountResponse_MarshalToSizedBufferVT(m), CountResponse_SizeVT(m))
<1>1. Fits(UintField(\h08, m.Count), SizeUint(m.Count))
  BY UintFits DEF CountResponseSet, Numbers64
<1>2. Fits(BoolField(\h10, m.Estimated), SizeBool(m.Estimated))
  BY BoolFits DEF CountResponseSet
<1>3. Fits(m.unknownFields, Len(m.unknownFields))
  BY FitsUnknown DEF CountResponseSet
<1> QED
  BY <1>1, <1>2, <1>3, FitsCat3, Zenon
     DEF CountResponse_MarshalToSizedBufferVT, CountResponse_SizeVT

\* ScanRequest: what MarshalToSizedBufferVT writes has the length SizeVT gives.
LEMMA ScanRequestFits ==
    ASSUME NEW m \in ScanRequestSet
    PROVE  Fits(ScanRequest_MarshalToSizedBufferVT(m), ScanRequest_SizeVT(m))
<1>1. Fits(MessageField(\h0A, m.Command, Command_MarshalToSizedBufferVT),
          SizeMessage(m.Command, Command_SizeVT))
  <2>1. m.Command # Nil =>
            Fits(Command_MarshalToSizedBufferVT(m.Command), Command_SizeVT(m.Command))
    BY CommandFits DEF ScanRequestSet, Pointers
  <2>2. \h0A \in 0 .. 255
    OBVIOUS
  <2> QED BY <2>1, <2>2, MessageFits, Zenon DEF MessageField, SizeMessage
<1>2. Fits(UintField(\h10, m.BatchSize), SizeUint(m.BatchSize))
  BY UintFits DEF ScanRequestSet, Numbers32
<1>3. Fits(BytesField(\h1A, m.Cursor), SizeBytes(m.Cursor))
  BY BytesFits DEF ScanRequestSet
<1>4. Fits(MessageField(\h22, m.Projection, Projection_MarshalToSizedBufferVT),
          SizeMessage(m.Projection, Projection_SizeVT))
  <2>1. m.Projection # Nil =>
            Fits(Projection_MarshalToSizedBufferVT(m.Projection), Projection_SizeVT(m.Projection))
    BY ProjectionFits DEF ScanRequestSet, Pointers
  <2>2. \h22 \in 0 .. 255
    OBVIOUS
  <2> QED BY <2>1, <2>2, MessageFits, Zenon DEF MessageField, SizeMessage
<1>5. Fits(m.unknownFields, Len(m.unknownFields))
  BY FitsUnknown DEF ScanRequestSet
<1>6. Fits(MessageField(\h0A, m.Command, Command_MarshalToSizedBufferVT)
          \o UintField(\h10, m.BatchSize) \o BytesField(\h1A, m.Cursor)
          \o MessageField(\h22, m.Projection, Projection_MarshalToSizedBufferVT),
          SizeMessage(m.Command, Command_SizeVT) + SizeUint(m.BatchSize)
          + SizeBytes(m.Cursor) + SizeMessage(m.Projection, Projection_SizeVT))
  BY <1>1, <1>2, <1>3, <1>4, FitsCat4, Zenon
<1> QED
  BY <1>6, <1>5, FitsCat, Zenon
     DEF ScanRequest_MarshalToSizedBufferVT, ScanRequest_SizeVT

\* ScanResponse: what MarshalToSizedBufferVT writes has the length SizeVT gives.
LEMMA ScanResponseFits ==
    ASSUME NEW m \in ScanResponseSet
    PROVE  Fits(ScanResponse_MarshalToSizedBufferVT(m), ScanResponse_SizeVT(m))
<1>1. Fits(RepeatedField(\h0A, m.Documents, Document_MarshalToSizedBufferVT),
          SizeRepeated(m.Documents, Document_SizeVT))
  <2> DEFINE ms == m.Documents
             c == [i \in DOMAIN ms |->
                      IF ms[i] = Nil THEN << >> ELSE Document_MarshalToSizedBufferVT(ms[i])]
             l == [i \in DOMAIN ms |-> IF ms[i] = Nil THEN 0 ELSE Document_SizeVT(ms[i])]
             S == Pointers(DocumentSet)
  <2>1. ms \in Seq(S)
    BY DEF ScanResponseSet
  <2>2. \A i \in DOMAIN ms : ms[i] # Nil =>
            Fits(Document_MarshalToSizedBufferVT(ms[i]), Document_SizeVT(ms[i]))
    <3>1. \A i \in DOMAIN ms : ms[i] \in S
      <4> HIDE DEF S, ms
      <4> QED BY <2>1
    <3> QED BY <3>1, DocumentFits DEF Pointers
  <2>3. \A i \in DOMAIN ms : Fits(c[i], l[i])
    BY <2>2, NothingFits, Zenon
  <2>4. \h0A \in 0 .. 255 /\ c = [i \in DOMAIN ms |-> c[i]] /\ l = [i \in DOMAIN ms |-> l[i]]
    OBVIOUS
  <2> HIDE DEF S, ms, c, l
  <2>5. Fits(Elements(\h0A, c), SizeElements(l))
    BY <2>1, <2>3, <2>4, RepeatedFits, Zenon
  <2> QED BY <2>5 DEF RepeatedField, SizeRepeated, ms, c, l
<1>2. Fits(BytesField(\h12, m.NextCursor), SizeBytes(m.NextCursor))
  BY BytesFits DEF ScanResponseSet
<1>3. Fits(m.unknownFields, Len(m.unknownFields))
  BY FitsUnknown DEF ScanResponseSet
<1> QED
  BY <1>1, <1>2, <1>3, FitsCat3, Zenon
     DEF ScanResponse_MarshalToSizedBufferVT, ScanResponse_SizeVT

\* For every message of every RPC, whatever its fields, its nesting and the
\* number of its elements, MarshalToSizedBufferVT writes exactly the number of
\* bytes that SizeVT counts, two functions that are generated separately.  The
\* codec takes a buffer of size bytes from the pool, has it filled from the end
\* and compares the counts (written != size in vtProtoCodec.Marshal): the buffer is
\* never too short, and no message is refused.
THEOREM SizesAgree ==
    ASSUME NEW k \in {"ReadRequest", "ReadResponse", "WriteRequest", "WriteResponse",
                      "DeleteRequest", "DeleteResponse", "ExecuteRequest", "ExecuteResponse",
                      "QueryRequest", "QueryResponse", "CountRequest", "CountResponse",
                      "ScanRequest", "ScanResponse"},
           NEW m \in MessageSet(k)
    PROVE  Len(MarshalOf(k, m)) = SizeOf(k, m)
<1>1. CASE k = "ReadRequest"
  BY <1>1, ReadRequestFits DEF MessageSet, MarshalOf, SizeOf, Fits
<1>2. CASE k = "ReadResponse"
  BY <1>2, ReadResponseFits DEF MessageSet, MarshalOf, SizeOf, Fits
<1>3. CASE k = "WriteRequest"
  BY <1>3, WriteRequestFits DEF MessageSet, MarshalOf, SizeOf, Fits
<1>4. CASE k = "WriteResponse"
  BY <1>4, WriteResponseFits DEF MessageSet, MarshalOf, SizeOf, Fits
<1>5. CASE k = "DeleteRequest"
  BY <1>5, DeleteRequestFits DEF MessageSet, MarshalOf, SizeOf, Fits
<1>6. CASE k = "DeleteResponse"
  BY <1>6, DeleteResponseFits DEF MessageSet, MarshalOf, SizeOf, Fits
<1>7. CASE k = "ExecuteRequest"
  BY <1>7, ExecuteRequestFits DEF MessageSet, MarshalOf, SizeOf, Fits
<1>8. CASE k = "ExecuteResponse"
  BY <1>8, ExecuteResponseFits DEF MessageSet, MarshalOf, SizeOf, Fits
<1>9. CASE k = "QueryRequest"
  BY <1>9, QueryRequestFits DEF MessageSet, MarshalOf, SizeOf, Fits
<1>10. CASE k = "QueryResponse"
  BY <1>10, QueryResponseFits DEF MessageSet, MarshalOf, SizeOf, Fits
<1>11. CASE k = "CountRequest"
  BY <1>11, CountRequestFits DEF MessageSet, MarshalOf, SizeOf, Fits
<1>12. CASE k = "CountResponse"
  BY <1>12, CountResponseFits DEF MessageSet, MarshalOf, SizeOf, Fits
<1>13. CASE k = "ScanRequest"
  BY <1>13, ScanRequestFits DEF MessageSet, MarshalOf, SizeOf, Fits
<1>14. CASE k = "ScanResponse"
  BY <1>14, ScanResponseFits DEF MessageSet, MarshalOf, SizeOf, Fits
<1> QED BY <1>1, <1>2, <1>3, <1>4, <1>5, <1>6, <1>7, <1>8, <1>9, <1>10, <1>11, <1>12, <1>13, <1>14

================================================================================
