--------------------------- MODULE CodecBuffersProofs ---------------------------
(* EachBufferOnce and the refinement CallsByValue, proved for any number of   *)
(* calls and buffers and any messages.  The invariant says what a call has at *)
(* each step, where each buffer is, who holds its references, and that its    *)
(* cells are what its holders put there.                                      *)
EXTENDS CodecBuffers, Sequences, FiniteSetTheorems, TLAPS

Contents == Requests \cup Replies \cup {Malformed, Junk}

Steps == {"idle", "marshal", "fill", "front", "encoded", "sent", "received", "decode",
          "decoded", "unmarshalled", "done"}

TypeInv ==
    /\ pool \in [Buffers -> Nat]
    /\ refs \in [Buffers -> Nat]
    /\ data \in [Buffers -> Contents \X Contents]
    /\ pc \in [Calls -> Steps]
    /\ msg \in [Calls -> Requests \cup {Nil}]
    /\ raw \in [Calls -> Buffers \cup {Nil}]
    /\ out \in [Calls -> Buffers \cup {Nil} \cup {Cells(m) : m \in Requests}]
    /\ kept \in [Calls -> BOOLEAN]
    /\ queued \in [Calls -> BOOLEAN]
    /\ heard \in [Calls -> {Nil} \cup {Cells(m) : m \in Requests}]
    /\ answered \in [Calls -> Replies \cup {Malformed, Nil}]
    /\ pieces \in [Calls -> Seq(Buffers)]
    /\ flat \in [Calls -> Buffers \cup {Nil}]
    /\ result \in [Calls -> {Nil, Error} \cup {Cells(r) : r \in Replies}]

\* What a call has at each of its steps.
CallInv(c) ==
    /\ pc[c] = "idle" <=> msg[c] = Nil
    /\ raw[c] # Nil <=> pc[c] \in {"fill", "front", "encoded"}
    /\ pc[c] \in {"idle", "marshal", "fill", "front", "encoded"} =>
          out[c] = Nil /\ heard[c] = Nil
    /\ pc[c] \in {"sent", "received", "decode", "decoded", "unmarshalled"} => out[c] # Nil
    /\ kept[c] \/ queued[c] => out[c] # Nil
    /\ out[c] \in Buffers \cup {Nil, Cells(msg[c])}
    /\ heard[c] \in {Nil, Cells(msg[c])}
    /\ pc[c] \in {"idle", "marshal", "fill", "front", "encoded", "sent"} => answered[c] = Nil
    /\ pc[c] \in {"received", "decode", "decoded", "unmarshalled"} => answered[c] # Nil
    /\ pc[c] \notin {"received", "decode", "decoded", "unmarshalled"} => pieces[c] = << >>
    /\ flat[c] # Nil <=> pc[c] \in {"decode", "decoded"}
    /\ result[c] # Nil <=> pc[c] \in {"decoded", "unmarshalled", "done"}
    /\ result[c] \in {Nil, Error} \/ (answered[c] \in Replies /\ result[c] = Cells(answered[c]))

\* A buffer that a call fills or holds has what the call put there.
DataInv(c) ==
    /\ pc[c] = "front" => data[raw[c]][2] = msg[c]
    /\ pc[c] = "encoded" => data[raw[c]] = Cells(msg[c])
    /\ (kept[c] \/ queued[c]) /\ out[c] \in Buffers => data[out[c]] = Cells(msg[c])
    /\ \A i \in DOMAIN pieces[c] : data[pieces[c][i]] = Cells(answered[c])
    /\ flat[c] # Nil => data[flat[c]] = Cells(answered[c])

\* Where a buffer is: in the pool, with the one call that fills it, or referenced.
PlaceInv(b) ==
    \/ pool[b] = 1 /\ refs[b] = 0 /\ \A c \in Calls : raw[c] # b
    \/ pool[b] = 0 /\ refs[b] = 0 /\ \E c \in Calls : \A d \in Calls : raw[d] = b <=> d = c
    \/ pool[b] = 0 /\ refs[b] > 0 /\ \A c \in Calls : raw[c] # b

CountInv == \A b \in Buffers : refs[b] = Cardinality(Holders(b))

IInv ==
    /\ TypeInv /\ CountInv
    /\ \A b \in Buffers : PlaceInv(b)
    /\ \A c \in Calls : CallInv(c) /\ DataInv(c)

--------------------------------------------------------------------------------
(* Counting holders *)

Kinds == {"kept", "queued", "piece", "flat"}

\* Call c holds a reference to b as k.
Held(c, k, b) ==
    \/ k = "kept" /\ kept[c] /\ out[c] = b
    \/ k = "queued" /\ queued[c] /\ out[c] = b
    \/ k = "piece" /\ \E i \in DOMAIN pieces[c] : pieces[c][i] = b
    \/ k = "flat" /\ flat[c] = b

\* Holders(b), as the pairs of a call and a kind that hold b.
LEMMA HoldersAre ==
    ASSUME NEW b
    PROVE  /\ Holders(b) = { h \in Calls \X Kinds : Held(h[1], h[2], b) }
           /\ Holders(b)' = { h \in Calls \X Kinds : Held(h[1], h[2], b)' }
<1>1. Holders(b) = { h \in Calls \X Kinds : Held(h[1], h[2], b) }
  BY DEF Holders, Kinds, Held
<1>2. Holders(b)' = { h \in Calls \X Kinds : Held(h[1], h[2], b)' }
  BY DEF Holders, Kinds, Held
<1> QED BY <1>1, <1>2

\* So there are finitely many.
LEMMA HoldersFinite ==
    ASSUME NEW b
    PROVE  IsFiniteSet(Holders(b))
<1>1. IsFiniteSet(Kinds)
  <2>1. IsFiniteSet({"kept"} \cup {"queued"})
    BY FS_Singleton, FS_AddElement
  <2>2. IsFiniteSet({"piece"} \cup {"flat"})
    BY FS_Singleton, FS_AddElement
  <2>3. IsFiniteSet(({"kept"} \cup {"queued"}) \cup ({"piece"} \cup {"flat"}))
    BY <2>1, <2>2, FS_Union
  <2>4. Kinds = ({"kept"} \cup {"queued"}) \cup ({"piece"} \cup {"flat"})
    BY DEF Kinds
  <2> QED BY <2>3, <2>4
<1>2. IsFiniteSet(Calls \X Kinds)
  BY <1>1, ThingsApart, FS_Product
<1>3. Holders(b) \in SUBSET (Calls \X Kinds)
  BY HoldersAre
<1> QED BY <1>2, <1>3, FS_Subset

\* The same holders, the same references.
LEMMA CountKept ==
    ASSUME CountInv, refs' = refs,
           \A b \in Buffers, c \in Calls, k \in Kinds : Held(c, k, b)' <=> Held(c, k, b)
    PROVE  CountInv'
<1> SUFFICES ASSUME NEW b \in Buffers PROVE refs'[b] = Cardinality(Holders(b)')
  BY DEF CountInv
<1>1. Holders(b)' = Holders(b)
  BY HoldersAre
<1> QED BY <1>1 DEF CountInv

\* A reference more, a holder more.
LEMMA CountAdded ==
    ASSUME TypeInv, CountInv, NEW S \in SUBSET Buffers, NEW c \in Calls, NEW k \in Kinds,
           Ref(S),
           \A b \in S : ~Held(c, k, b),
           \A b \in Buffers, d \in Calls, l \in Kinds :
               Held(d, l, b)' <=> Held(d, l, b) \/ (b \in S /\ d = c /\ l = k)
    PROVE  CountInv'
<1> SUFFICES ASSUME NEW b \in Buffers PROVE refs'[b] = Cardinality(Holders(b)')
  BY DEF CountInv
<1>1. CASE b \in S
  <2>1. <<c, k>> \notin Holders(b)
    BY <1>1, HoldersAre
  <2>2. Holders(b)' = Holders(b) \cup {<<c, k>>}
    BY <1>1, HoldersAre
  <2>3. refs'[b] = refs[b] + 1
    BY <1>1 DEF Ref
  <2>4. Cardinality(Holders(b) \cup {<<c, k>>}) = Cardinality(Holders(b)) + 1
    BY <2>1, HoldersFinite, FS_AddElement
  <2> QED BY <2>2, <2>3, <2>4 DEF CountInv
<1>2. CASE b \notin S
  <2>1. Holders(b)' = Holders(b)
    BY <1>2, HoldersAre
  <2>2. refs'[b] = refs[b]
    BY <1>2 DEF Ref
  <2> QED BY <2>1, <2>2 DEF CountInv
<1> QED BY <1>1, <1>2

\* Whoever holds a buffer has a reference to it.
LEMMA HeldCounted ==
    ASSUME TypeInv, CountInv, NEW b \in Buffers, NEW c \in Calls, NEW k \in Kinds,
           Held(c, k, b)
    PROVE  /\ refs[b] > 0
           /\ refs[b] = 1 => \A d \in Calls, l \in Kinds : Held(d, l, b) => d = c /\ l = k
<1>1. <<c, k>> \in Holders(b) /\ IsFiniteSet(Holders(b)) /\ refs[b] = Cardinality(Holders(b))
  BY HoldersAre, HoldersFinite DEF CountInv
<1>2. refs[b] \in Nat /\ refs[b] # 0
  BY <1>1, FS_EmptySet DEF TypeInv
<1>3. ASSUME refs[b] = 1, NEW d \in Calls, NEW l \in Kinds, Held(d, l, b)
      PROVE  d = c /\ l = k
  <2>1. PICK x : Holders(b) = {x}
    BY <1>1, <1>3, FS_Singleton
  <2>2. <<d, l>> \in Holders(b)
    BY <1>3, HoldersAre
  <2>3. <<d, l>> = <<c, k>>
    BY <1>1, <2>1, <2>2
  <2> QED BY <2>3
<1> QED BY <1>2, <1>3

\* Freeing what was held: a reference less, a holder less.
LEMMA CountDropped ==
    ASSUME TypeInv, CountInv, NEW S \in SUBSET Buffers, NEW c \in Calls, NEW k \in Kinds,
           Free(S),
           \A b \in S : Held(c, k, b),
           \A b \in Buffers, d \in Calls, l \in Kinds :
               Held(d, l, b)' <=> Held(d, l, b) /\ ~(b \in S /\ d = c /\ l = k)
    PROVE  CountInv'
<1> SUFFICES ASSUME NEW b \in Buffers PROVE refs'[b] = Cardinality(Holders(b)')
  BY DEF CountInv
<1>1. CASE b \in S
  <2>1. <<c, k>> \in Holders(b)
    BY <1>1, HoldersAre
  <2>2. Holders(b)' = Holders(b) \ {<<c, k>>}
    BY <1>1, HoldersAre
  <2>3. refs'[b] = refs[b] - 1
    BY <1>1 DEF Free
  <2>4. Cardinality(Holders(b) \ {<<c, k>>}) = Cardinality(Holders(b)) - 1
    BY <2>1, HoldersFinite, FS_RemoveElement
  <2> QED BY <2>2, <2>3, <2>4 DEF CountInv
<1>2. CASE b \notin S
  <2>1. Holders(b)' = Holders(b)
    BY <1>2, HoldersAre
  <2>2. refs'[b] = refs[b]
    BY <1>2 DEF Free
  <2> QED BY <2>1, <2>2 DEF CountInv
<1> QED BY <1>1, <1>2

--------------------------------------------------------------------------------
(* What a step of one call leaves to the others *)

SameCall(d) ==
    /\ pc'[d] = pc[d] /\ msg'[d] = msg[d] /\ raw'[d] = raw[d] /\ out'[d] = out[d]
    /\ kept'[d] = kept[d] /\ queued'[d] = queued[d] /\ heard'[d] = heard[d]
    /\ answered'[d] = answered[d] /\ pieces'[d] = pieces[d] /\ flat'[d] = flat[d]
    /\ result'[d] = result[d]

\* Call d fills b or holds it.
Uses(d, b) == raw[d] = b \/ \E k \in Kinds : Held(d, k, b)

\* A call that does not move, and whose buffers keep their cells, keeps its invariant.
LEMMA OtherCall ==
    ASSUME TypeInv, NEW d \in Calls, CallInv(d), DataInv(d), SameCall(d),
           \A b \in Buffers : Uses(d, b) => data'[b] = data[b]
    PROVE  CallInv(d)' /\ DataInv(d)'
<1>1. CallInv(d)'
  BY DEF CallInv, SameCall
<1>2. pc[d] \in {"front", "encoded"} => data'[raw[d]] = data[raw[d]]
  BY DEF CallInv, TypeInv, Uses
<1>3. (kept[d] \/ queued[d]) /\ out[d] \in Buffers => data'[out[d]] = data[out[d]]
  BY DEF Uses, Held, Kinds
<1>4. \A i \in DOMAIN pieces[d] : data'[pieces[d][i]] = data[pieces[d][i]]
  BY DEF Uses, Held, Kinds, TypeInv
<1>5. flat[d] # Nil => data'[flat[d]] = data[flat[d]]
  BY DEF Uses, Held, Kinds, TypeInv
<1>6. DataInv(d)'
  BY <1>2, <1>3, <1>4, <1>5 DEF DataInv, SameCall
<1> QED BY <1>1, <1>6

\* A step of call c that keeps the invariant for c and for the buffers keeps it.
LEMMA OneCallSteps ==
    ASSUME IInv, NEW c \in Calls,
           TypeInv', CountInv', \A b \in Buffers : PlaceInv(b)', CallInv(c)', DataInv(c)',
           \A d \in Calls : d # c =>
               SameCall(d) /\ \A b \in Buffers : Uses(d, b) => data'[b] = data[b]
    PROVE  IInv'
<1>1. ASSUME NEW d \in Calls, d # c PROVE CallInv(d)' /\ DataInv(d)'
  BY <1>1, OtherCall DEF IInv
<1> QED BY <1>1 DEF IInv

\* Nobody uses a buffer in the pool, and one that is filled has one user.
LEMMA Exclusive ==
    ASSUME IInv, NEW b \in Buffers, NEW d \in Calls
    PROVE  /\ pool[b] > 0 => ~Uses(d, b) /\ refs[b] = 0 /\ pool[b] = 1
           /\ \A c \in Calls : raw[c] = b /\ Uses(d, b) => d = c
           /\ raw[d] = b => pool[b] = 0 /\ refs[b] = 0
<1>1. PlaceInv(b) /\ TypeInv /\ CountInv
  BY DEF IInv
<1>2. \A k \in Kinds : Held(d, k, b) => refs[b] > 0
  BY <1>1, HeldCounted
<1>3. pool[b] \in Nat /\ refs[b] \in Nat
  BY <1>1 DEF TypeInv
<1> QED BY <1>1, <1>2, <1>3 DEF PlaceInv, Uses

\* Steps that touch no buffer.
LEMMA QuietStep ==
    ASSUME IInv, NEW c \in Calls,
           UNCHANGED codecVars, raw' = raw, TypeInv', CallInv(c)', DataInv(c)',
           \A d \in Calls : d # c => SameCall(d),
           \A b \in Buffers, k \in Kinds : Held(c, k, b)' <=> Held(c, k, b)
    PROVE  IInv'
<1>1. pool' = pool /\ refs' = refs /\ data' = data
  BY DEF codecVars
<1>2. \A b \in Buffers, d \in Calls, k \in Kinds : Held(d, k, b)' <=> Held(d, k, b)
  BY DEF Held, SameCall
<1>3. CountInv'
  BY <1>1, <1>2, CountKept DEF IInv
<1>4. \A b \in Buffers : PlaceInv(b)'
  BY <1>1 DEF PlaceInv, IInv
<1> QED BY <1>1, <1>3, <1>4, OneCallSteps

\* All buffers are in the pool and all calls idle.
LEMMA InitIInv == Init => IInv
<1> SUFFICES ASSUME Init PROVE IInv
  OBVIOUS
<1>1. TypeInv
  <2>1. << >> \in Seq(Buffers) /\ Cells(Junk) \in Contents \X Contents
    BY DEF Cells, Contents
  <2> QED BY <2>1 DEF Init, TypeInv, Steps
<1>2. ASSUME NEW b \in Buffers PROVE PlaceInv(b) /\ refs[b] = Cardinality(Holders(b))
  <2>1. \A c \in Calls, k \in Kinds : ~Held(c, k, b)
    BY ThingsApart DEF Init, Held
  <2>2. Holders(b) = {}
    BY <2>1, HoldersAre
  <2>3. Cardinality(Holders(b)) = 0
    BY <2>2, FS_EmptySet
  <2> QED BY <2>3, ThingsApart DEF Init, PlaceInv
<1>3. ASSUME NEW c \in Calls PROVE CallInv(c) /\ DataInv(c)
  BY DEF Init, CallInv, DataInv
<1> QED BY <1>1, <1>2, <1>3 DEF IInv, CountInv

--------------------------------------------------------------------------------
(* The steps that touch no buffer *)

\* A call is made; the codec has not run yet.
LEMMA InvokeIInv ==
    ASSUME IInv, NEW c \in Calls, NEW m \in Requests, Invoke(c, m)
    PROVE  IInv'
<1>1. /\ pc[c] = "idle" /\ msg' = [msg EXCEPT ![c] = m] /\ pc' = [pc EXCEPT ![c] = "marshal"]
      /\ UNCHANGED codecVars
      /\ UNCHANGED <<raw, out, kept, queued, heard, answered, pieces, flat, result>>
  BY DEF Invoke
<1>2. TypeInv /\ CallInv(c) /\ DataInv(c)
  BY DEF IInv
<1>3. TypeInv'
  BY <1>1, <1>2 DEF TypeInv, codecVars, Steps
<1>4. CallInv(c)'
  BY <1>1, <1>2, ThingsApart DEF TypeInv, CallInv
<1>5. DataInv(c)'
  BY <1>1, <1>2 DEF TypeInv, DataInv, CallInv, codecVars
<1>6. \A d \in Calls : d # c => SameCall(d)
  BY <1>1, <1>2 DEF TypeInv, SameCall
<1>7. \A b \in Buffers, k \in Kinds : Held(c, k, b)' <=> Held(c, k, b)
  BY <1>1 DEF Held
<1> QED BY <1>1, <1>3, <1>4, <1>5, <1>6, <1>7, QuietStep

\* The call returns an error and has sent nothing.
LEMMA RefusedCall ==
    ASSUME IInv, NEW c \in Calls, pc[c] \in {"marshal", "fill", "front", "encoded"}, Refused(c),
           raw' = [raw EXCEPT ![c] = Nil],
           pool' \in [Buffers -> Nat], refs' = refs, data' \in [Buffers -> Contents \X Contents]
    PROVE  /\ TypeInv' /\ CallInv(c)' /\ DataInv(c)'
           /\ \A d \in Calls : d # c => SameCall(d)
           /\ \A b \in Buffers, d \in Calls, k \in Kinds : Held(d, k, b)' <=> Held(d, k, b)
<1>1. /\ result' = [result EXCEPT ![c] = Error] /\ pc' = [pc EXCEPT ![c] = "done"]
      /\ UNCHANGED <<msg, out, kept, queued, heard, answered, pieces, flat>>
  BY DEF Refused
<1>2. TypeInv /\ CallInv(c) /\ DataInv(c)
  BY DEF IInv
<1>3. TypeInv'
  BY <1>1, <1>2 DEF TypeInv, Steps
<1>4. CallInv(c)'
  BY <1>1, <1>2, ThingsApart DEF TypeInv, CallInv
<1>5. DataInv(c)'
  BY <1>1, <1>2 DEF TypeInv, DataInv, CallInv
<1>6. \A d \in Calls : d # c => SameCall(d)
  BY <1>1, <1>2 DEF TypeInv, SameCall
<1>7. \A b \in Buffers, d \in Calls, k \in Kinds : Held(d, k, b)' <=> Held(d, k, b)
  BY <1>1 DEF Held
<1> QED BY <1>3, <1>4, <1>5, <1>6, <1>7

\* Marshal refuses a message before it takes a buffer.
LEMMA MarshalNotVTIInv ==
    ASSUME IInv, NEW c \in Calls, pc[c] = "marshal", Refused(c), UNCHANGED <<codecVars, raw>>
    PROVE  IInv'
<1>1. pool' = pool /\ refs' = refs /\ data' = data /\ raw' = raw
  BY DEF codecVars
<1>2. TypeInv /\ CallInv(c)
  BY DEF IInv
<1>3. raw' = [raw EXCEPT ![c] = Nil]
  BY <1>1, <1>2 DEF TypeInv, CallInv
<1>4. pool' \in [Buffers -> Nat] /\ data' \in [Buffers -> Contents \X Contents]
  BY <1>1, <1>2 DEF TypeInv
<1> QED BY <1>1, <1>3, <1>4, RefusedCall, QuietStep

\* A small request has cells of its own.
LEMMA MarshalSmallIInv ==
    ASSUME IInv, NEW c \in Calls, MarshalSmall(c)
    PROVE  IInv'
<1>1. CASE Refused(c)
  BY <1>1, MarshalNotVTIInv DEF MarshalSmall
<1>2. CASE ~Refused(c)
  <2>1. /\ pc[c] = "marshal" /\ out' = [out EXCEPT ![c] = Cells(msg[c])]
        /\ kept' = [kept EXCEPT ![c] = TRUE] /\ pc' = [pc EXCEPT ![c] = "sent"]
        /\ UNCHANGED codecVars
        /\ UNCHANGED <<raw, msg, queued, heard, answered, pieces, flat, result>>
    BY <1>2 DEF MarshalSmall
  <2>2. TypeInv /\ CallInv(c) /\ DataInv(c)
    BY DEF IInv
  <2>3. msg[c] \in Requests
    BY <2>1, <2>2 DEF TypeInv, CallInv
  <2>4. Cells(msg[c]) \notin Buffers \cup {Nil, Error}
    BY <2>3, ThingsApart DEF Cells
  <2>5. TypeInv'
    BY <2>1, <2>2, <2>3 DEF TypeInv, codecVars, Steps
  <2>6. CallInv(c)'
    BY <2>1, <2>2, <2>4 DEF TypeInv, CallInv
  <2>7. DataInv(c)'
    BY <2>1, <2>2, <2>4 DEF TypeInv, DataInv, CallInv, codecVars
  <2>8. \A d \in Calls : d # c => SameCall(d)
    BY <2>1, <2>2 DEF TypeInv, SameCall
  <2>9. out[c] = Nil /\ ~kept[c] /\ ~queued[c]
    BY <2>1, <2>2 DEF CallInv
  <2>10. out'[c] = Cells(msg[c]) /\ queued'[c] = queued[c] /\ flat'[c] = flat[c]
         /\ pieces'[c] = pieces[c]
    BY <2>1, <2>2 DEF TypeInv
  <2>11. \A b \in Buffers, k \in Kinds : Held(c, k, b)' <=> Held(c, k, b)
    BY <2>4, <2>9, <2>10 DEF Held
  <2> QED BY <2>1, <2>5, <2>6, <2>7, <2>8, <2>11, QuietStep
<1> QED BY <1>1, <1>2

\* Unmarshal refuses a message before it materializes the reply.
LEMMA UnmarshalNotVTIInv ==
    ASSUME IInv, NEW c \in Calls, UnmarshalNotVT(c)
    PROVE  IInv'
<1>1. /\ pc[c] = "received" /\ result' = [result EXCEPT ![c] = Error]
      /\ pc' = [pc EXCEPT ![c] = "unmarshalled"] /\ UNCHANGED codecVars
      /\ UNCHANGED <<msg, raw, out, kept, queued, heard, answered, pieces, flat>>
  BY DEF UnmarshalNotVT
<1>2. TypeInv /\ CallInv(c) /\ DataInv(c)
  BY DEF IInv
<1>3. TypeInv'
  BY <1>1, <1>2 DEF TypeInv, codecVars, Steps
<1>4. CallInv(c)'
  BY <1>1, <1>2, ThingsApart DEF TypeInv, CallInv
<1>5. DataInv(c)'
  BY <1>1, <1>2 DEF TypeInv, DataInv, CallInv, codecVars
<1>6. \A d \in Calls : d # c => SameCall(d)
  BY <1>1, <1>2 DEF TypeInv, SameCall
<1>7. \A b \in Buffers, k \in Kinds : Held(c, k, b)' <=> Held(c, k, b)
  BY <1>1 DEF Held
<1> QED BY <1>1, <1>3, <1>4, <1>5, <1>6, <1>7, QuietStep

\* What UnmarshalVT reads is what the peer sent.
LEMMA DecodeResult ==
    ASSUME IInv, NEW c \in Calls, Decode(c)
    PROVE  /\ answered[c] \in Replies \cup {Malformed}
           /\ result' = [result EXCEPT ![c] = IF answered[c] = Malformed THEN Error
                                              ELSE Cells(answered[c])]
<1>1. CallInv(c) /\ DataInv(c) /\ TypeInv /\ pc[c] = "decode"
  BY DEF IInv, Decode
<1>2. answered[c] \in Replies \cup {Malformed}
  BY <1>1 DEF CallInv, TypeInv
<1>3. data[flat[c]] = <<answered[c], answered[c]>>
  BY <1>1 DEF CallInv, DataInv, Cells
<1>4. Malformed \in {data[flat[c]][1], data[flat[c]][2]} <=> answered[c] = Malformed
  BY <1>3
<1> QED BY <1>2, <1>3, <1>4 DEF Decode, Cells

\* UnmarshalVT copies: the result needs no buffer.
LEMMA DecodeIInv ==
    ASSUME IInv, NEW c \in Calls, Decode(c)
    PROVE  IInv'
<1> DEFINE got == IF answered[c] = Malformed THEN Error ELSE Cells(answered[c])
<1>1. /\ pc[c] = "decode" /\ result' = [result EXCEPT ![c] = got]
      /\ pc' = [pc EXCEPT ![c] = "decoded"] /\ UNCHANGED codecVars
      /\ UNCHANGED <<msg, raw, out, kept, queued, heard, answered, pieces, flat>>
      /\ answered[c] \in Replies \cup {Malformed}
  BY DecodeResult DEF Decode
<1>2. TypeInv /\ CallInv(c) /\ DataInv(c)
  BY DEF IInv
<1>3. /\ got # Nil /\ got \in {Error} \cup {Cells(r) : r \in Replies}
      /\ got = Error \/ (answered[c] \in Replies /\ got = Cells(answered[c]))
  BY <1>1, ThingsApart DEF Cells
<1> HIDE DEF got
<1>4. TypeInv'
  BY <1>1, <1>2, <1>3 DEF TypeInv, codecVars, Steps
<1>5. CallInv(c)'
  BY <1>1, <1>2, <1>3 DEF TypeInv, CallInv
<1>6. DataInv(c)'
  BY <1>1, <1>2 DEF TypeInv, DataInv, CallInv, codecVars
<1>7. \A d \in Calls : d # c => SameCall(d)
  BY <1>1, <1>2 DEF TypeInv, SameCall
<1>8. \A b \in Buffers, k \in Kinds : Held(c, k, b)' <=> Held(c, k, b)
  BY <1>1 DEF Held
<1> QED BY <1>1, <1>4, <1>5, <1>6, <1>7, <1>8, QuietStep

\* A call that ends holds nothing.
LEMMA FinishIInv ==
    ASSUME IInv, NEW c \in Calls, Finish(c)
    PROVE  IInv'
<1>1. /\ pc[c] = "done" /\ ~kept[c] /\ ~queued[c] /\ pc' = [pc EXCEPT ![c] = "idle"]
      /\ msg' = [msg EXCEPT ![c] = Nil] /\ out' = [out EXCEPT ![c] = Nil]
      /\ heard' = [heard EXCEPT ![c] = Nil] /\ answered' = [answered EXCEPT ![c] = Nil]
      /\ result' = [result EXCEPT ![c] = Nil] /\ UNCHANGED codecVars
      /\ UNCHANGED <<raw, kept, queued, pieces, flat>>
  BY DEF Finish
<1>2. TypeInv /\ CallInv(c) /\ DataInv(c)
  BY DEF IInv
<1>3. TypeInv'
  BY <1>1, <1>2 DEF TypeInv, codecVars, Steps
<1>4. CallInv(c)'
  BY <1>1, <1>2, ThingsApart DEF TypeInv, CallInv
<1>5. DataInv(c)'
  BY <1>1, <1>2 DEF TypeInv, DataInv, CallInv, codecVars
<1>6. \A d \in Calls : d # c => SameCall(d)
  BY <1>1, <1>2 DEF TypeInv, SameCall
<1>7. \A b \in Buffers, k \in Kinds : Held(c, k, b)' <=> Held(c, k, b)
  BY <1>1 DEF Held
<1> QED BY <1>1, <1>3, <1>4, <1>5, <1>6, <1>7, QuietStep

--------------------------------------------------------------------------------
(* Marshal: the buffer is with the call that fills it *)

\* A buffer of the pool goes to the call that fills it.
LEMMA GetBufferIInv ==
    ASSUME IInv, NEW c \in Calls, NEW b \in Buffers, GetBuffer(c, b)
    PROVE  IInv'
<1>1. /\ pc[c] = "marshal" /\ pool[b] > 0 /\ pool' = [pool EXCEPT ![b] = @ - 1]
      /\ raw' = [raw EXCEPT ![c] = b] /\ pc' = [pc EXCEPT ![c] = "fill"]
      /\ UNCHANGED <<refs, data, msg, out, kept, queued, heard, answered, pieces, flat, result>>
  BY DEF GetBuffer, Taken
<1>2. TypeInv /\ CallInv(c) /\ DataInv(c) /\ CountInv
  BY DEF IInv
<1>3. pool[b] = 1 /\ refs[b] = 0 /\ raw[c] = Nil /\ \A d \in Calls : raw[d] # b
  BY <1>1, <1>2, Exclusive DEF Uses, CallInv
<1>4. TypeInv'
  BY <1>1, <1>2, <1>3 DEF TypeInv, Steps
<1>5. CallInv(c)'
  BY <1>1, <1>2, ThingsApart DEF TypeInv, CallInv
<1>6. DataInv(c)'
  BY <1>1, <1>2 DEF TypeInv, DataInv, CallInv
<1>7. \A d \in Calls : d # c => SameCall(d)
  BY <1>1, <1>2 DEF TypeInv, SameCall
<1>8. CountInv'
  BY <1>1, <1>2, CountKept DEF Held
<1>9. ASSUME NEW e \in Buffers PROVE PlaceInv(e)'
  <2>1. CASE e = b
    BY <2>1, <1>1, <1>2, <1>3 DEF TypeInv, PlaceInv
  <2>2. CASE e # b
    <3>1. pool'[e] = pool[e] /\ refs'[e] = refs[e] /\ \A d \in Calls : raw'[d] = e <=> raw[d] = e
      BY <2>2, <1>1, <1>2, <1>3, ThingsApart DEF TypeInv
    <3> QED BY <3>1 DEF PlaceInv, IInv
  <2> QED BY <2>1, <2>2
<1> QED BY <1>1, <1>4, <1>5, <1>6, <1>7, <1>8, <1>9, OneCallSteps

\* Writing to the buffer that the call fills.
LEMMA FillIInv ==
    ASSUME IInv, NEW c \in Calls, pc[c] \in {"fill", "front"},
           NEW p \in {"front", "encoded"}, NEW i \in {1, 2},
           p = "front" => i = 2,
           p = "encoded" => i = 1 /\ pc[c] = "front",
           data' = [data EXCEPT ![raw[c]][i] = msg[c]], pc' = [pc EXCEPT ![c] = p],
           UNCHANGED <<pool, refs, msg, raw, out, kept, queued, heard, answered, pieces, flat, result>>
    PROVE  IInv'
<1>2. TypeInv /\ CallInv(c) /\ DataInv(c) /\ CountInv
  BY DEF IInv
<1>3. raw[c] \in Buffers /\ msg[c] \in Requests
  BY <1>2 DEF TypeInv, CallInv
<1>4. data[raw[c]] \in Contents \X Contents
  BY <1>2, <1>3 DEF TypeInv
<1> DEFINE new == [data[raw[c]] EXCEPT ![i] = msg[c]]
<1>5. /\ new \in Contents \X Contents /\ new[i] = msg[c]
      /\ \A j \in {1, 2} : j # i => new[j] = data[raw[c]][j]
  BY <1>3, <1>4 DEF Contents
<1>6. data' = [data EXCEPT ![raw[c]] = new]
  BY <1>2, <1>3 DEF TypeInv
<1>7. \A d \in Calls, b \in Buffers : d # c /\ Uses(d, b) => data'[b] = data[b]
  BY <1>2, <1>3, <1>6, Exclusive DEF TypeInv
<1>8. TypeInv'
  BY <1>2, <1>5, <1>6 DEF TypeInv, Steps
<1>9. CallInv(c)'
  BY <1>2 DEF TypeInv, CallInv
<1>10. DataInv(c)'
  <2>1. data'[raw[c]] = new
    BY <1>2, <1>3, <1>6 DEF TypeInv
  <2>2. p = "encoded" => new = Cells(msg[c])
    BY <1>2, <1>4, <1>5 DEF DataInv, Cells
  <2> QED BY <1>2, <1>5, <2>1, <2>2 DEF TypeInv, CallInv, DataInv
<1>11. \A d \in Calls : d # c => SameCall(d)
  BY <1>2 DEF TypeInv, SameCall
<1>12. CountInv'
  BY <1>2, CountKept DEF Held
<1>13. \A b \in Buffers : PlaceInv(b)'
  BY DEF PlaceInv, IInv
<1> QED BY <1>7, <1>8, <1>9, <1>10, <1>11, <1>12, <1>13, OneCallSteps

\* An error of MarshalToSizedBufferVT puts the buffer back.
LEMMA PutBackIInv ==
    ASSUME IInv, NEW c \in Calls, pc[c] = "front", Put(raw[c]), Refused(c),
           raw' = [raw EXCEPT ![c] = Nil], UNCHANGED refs
    PROVE  IInv'
<1>2. TypeInv /\ CallInv(c) /\ DataInv(c) /\ CountInv
  BY DEF IInv
<1>3. raw[c] \in Buffers
  BY <1>2 DEF TypeInv, CallInv
<1>4. /\ pool' = [pool EXCEPT ![raw[c]] = @ + 1]
      /\ data' = [data EXCEPT ![raw[c]] = Cells(Junk)]
  BY DEF Put
<1>5. pool' \in [Buffers -> Nat]
  BY <1>2, <1>3, <1>4 DEF TypeInv
<1>6. data' \in [Buffers -> Contents \X Contents]
  BY <1>2, <1>3, <1>4 DEF TypeInv, Contents, Cells
<1>7. /\ TypeInv' /\ CallInv(c)' /\ DataInv(c)'
      /\ \A d \in Calls : d # c => SameCall(d)
      /\ \A b \in Buffers, d \in Calls, k \in Kinds : Held(d, k, b)' <=> Held(d, k, b)
  BY <1>5, <1>6, RefusedCall
<1>8. CountInv'
  BY <1>2, <1>7, CountKept
<1>9. \A d \in Calls, b \in Buffers : d # c /\ Uses(d, b) => data'[b] = data[b]
  BY <1>2, <1>3, <1>4, Exclusive DEF TypeInv
<1>10. ASSUME NEW b \in Buffers PROVE PlaceInv(b)'
  <2>1. CASE b = raw[c]
    <3>1. pool[b] = 0 /\ refs[b] = 0 /\ \A d \in Calls : raw[d] = b => d = c
      BY <2>1, Exclusive DEF Uses
    <3>2. pool'[b] = 1 /\ refs'[b] = 0 /\ \A d \in Calls : raw'[d] # b
      BY <2>1, <3>1, <1>2, <1>4, ThingsApart DEF TypeInv
    <3> QED BY <3>2 DEF PlaceInv
  <2>2. CASE b # raw[c]
    <3>1. pool'[b] = pool[b] /\ refs'[b] = refs[b] /\ \A d \in Calls : raw'[d] = b <=> raw[d] = b
      BY <2>2, <1>2, <1>4, ThingsApart DEF TypeInv
    <3> QED BY <3>1 DEF PlaceInv, IInv
  <2> QED BY <2>1, <2>2
<1> QED BY <1>7, <1>8, <1>9, <1>10, OneCallSteps

--------------------------------------------------------------------------------
(* The steps that add a reference *)

\* Call c holds the buffers of S as k from now on.
LEMMA RefStep ==
    ASSUME IInv, NEW c \in Calls, NEW k \in Kinds, NEW S \in SUBSET Buffers, Ref(S),
           TypeInv', CallInv(c)', DataInv(c)',
           \A d \in Calls : d # c =>
               SameCall(d) /\ \A b \in Buffers : Uses(d, b) => data'[b] = data[b],
           \A b \in S : ~Held(c, k, b),
           \A b \in Buffers, l \in Kinds : Held(c, l, b)' <=> Held(c, l, b) \/ (b \in S /\ l = k),
           \A b \in S : pool'[b] = 0 /\ \A d \in Calls : raw'[d] # b,
           \A b \in Buffers \ S : pool'[b] = pool[b] /\ \A d \in Calls : raw'[d] = b <=> raw[d] = b
    PROVE  IInv'
<1>1. \A b \in Buffers, d \in Calls, l \in Kinds :
          Held(d, l, b)' <=> Held(d, l, b) \/ (b \in S /\ d = c /\ l = k)
  <2> SUFFICES ASSUME NEW b \in Buffers, NEW d \in Calls, NEW l \in Kinds, d # c
               PROVE  Held(d, l, b)' <=> Held(d, l, b)
    OBVIOUS
  <2>1. SameCall(d)
    OBVIOUS
  <2> QED BY <2>1 DEF Held, SameCall
<1>2. TypeInv /\ CountInv
  BY DEF IInv
<1>3. CountInv'
  BY <1>1, <1>2, CountAdded
<1>4. ASSUME NEW b \in Buffers PROVE PlaceInv(b)'
  <2>1. CASE b \in S
    <3>1. refs'[b] > 0
      BY <2>1, <1>2 DEF Ref, TypeInv
    <3> QED BY <2>1, <3>1 DEF PlaceInv
  <2>2. CASE b \notin S
    <3>1. refs'[b] = refs[b]
      BY <2>2 DEF Ref
    <3> QED BY <2>2, <3>1 DEF PlaceInv, IInv
  <2> QED BY <2>1, <2>2
<1> QED BY <1>3, <1>4, OneCallSteps

\* The filled buffer is kept for the transport with its first reference.
LEMMA HandOverIInv ==
    ASSUME IInv, NEW c \in Calls, HandOver(c)
    PROVE  IInv'
<1>1. /\ pc[c] = "encoded" /\ out' = [out EXCEPT ![c] = raw[c]] /\ Ref({raw[c]})
      /\ raw' = [raw EXCEPT ![c] = Nil] /\ kept' = [kept EXCEPT ![c] = TRUE]
      /\ pc' = [pc EXCEPT ![c] = "sent"]
      /\ UNCHANGED <<pool, data, msg, queued, heard, answered, pieces, flat, result>>
  BY DEF HandOver
<1>2. TypeInv /\ CallInv(c) /\ DataInv(c) /\ CountInv
  BY DEF IInv
<1>3. raw[c] \in Buffers /\ out[c] = Nil /\ ~kept[c] /\ ~queued[c] /\ flat[c] = Nil
      /\ pieces[c] = << >>
  BY <1>1, <1>2 DEF TypeInv, CallInv
<1>4. TypeInv'
  BY <1>1, <1>2, <1>3 DEF TypeInv, Ref, Steps
<1>5. CallInv(c)'
  BY <1>1, <1>2, <1>3, ThingsApart DEF TypeInv, CallInv
<1>6. DataInv(c)'
  BY <1>1, <1>2, <1>3 DEF TypeInv, CallInv, DataInv
<1>7. \A d \in Calls : d # c => SameCall(d)
  BY <1>1, <1>2 DEF TypeInv, SameCall
<1>8. \A b \in Buffers, l \in Kinds : ~Held(c, l, b)
  BY <1>3, ThingsApart DEF Held
<1>9. \A b \in Buffers, l \in Kinds : Held(c, l, b)' <=> b \in {raw[c]} /\ l = "kept"
  <2>1. out'[c] = raw[c] /\ kept'[c] = TRUE /\ ~queued'[c] /\ flat'[c] = Nil /\ pieces'[c] = << >>
    BY <1>1, <1>2, <1>3 DEF TypeInv
  <2> QED BY <1>3, <2>1, ThingsApart DEF Held
<1>10. pool'[raw[c]] = 0 /\ \A d \in Calls : raw[d] = raw[c] => d = c
  BY <1>1, <1>3, Exclusive DEF Uses
<1>11. \A b \in Buffers, d \in Calls : raw'[d] = b <=> raw[d] = b /\ b # raw[c]
  BY <1>1, <1>2, <1>3, <1>10, ThingsApart DEF TypeInv
<1>12. "kept" \in Kinds /\ {raw[c]} \in SUBSET Buffers
  BY <1>3 DEF Kinds
<1>13. \A b \in Buffers : data'[b] = data[b] /\ pool'[b] = pool[b]
  BY <1>1
<1>14. \A b \in {raw[c]} : pool'[b] = 0 /\ \A d \in Calls : raw'[d] # b
  BY <1>3, <1>10, <1>11
<1>15. \A b \in Buffers \ {raw[c]} : pool'[b] = pool[b] /\ \A d \in Calls : raw'[d] = b <=> raw[d] = b
  BY <1>11, <1>13
<1>16. \A b \in Buffers, l \in Kinds :
          Held(c, l, b)' <=> Held(c, l, b) \/ (b \in {raw[c]} /\ l = "kept")
  BY <1>8, <1>9
<1>17. \A b \in {raw[c]} : ~Held(c, "kept", b)
  BY <1>8, <1>12
<1> QED BY <1>1, <1>4, <1>5, <1>6, <1>7, <1>12, <1>13, <1>14, <1>15, <1>16, <1>17, RefStep

\* An attempt takes one more reference to the request.
LEMMA QueueIInv ==
    ASSUME IInv, NEW c \in Calls, Queue(c)
    PROVE  IInv'
<1>1. /\ pc[c] = "sent" /\ kept[c] /\ ~queued[c] /\ queued' = [queued EXCEPT ![c] = TRUE]
      /\ Ref(OutBuffer(c))
      /\ UNCHANGED <<pool, data, pc, msg, raw, out, kept, heard, answered, pieces, flat, result>>
  BY DEF Queue
<1>2. TypeInv /\ CallInv(c) /\ DataInv(c) /\ CountInv
  BY DEF IInv
<1> DEFINE S == OutBuffer(c)
<1>3. S \in SUBSET Buffers /\ \A b \in Buffers : b \in S <=> out[c] = b
  BY DEF OutBuffer
<1>4. TypeInv'
  <2>1. refs' \in [Buffers -> Nat]
    BY <1>1, <1>2 DEF TypeInv, Ref
  <2> QED BY <1>1, <1>2, <2>1 DEF TypeInv
<1>5. CallInv(c)'
  BY <1>1, <1>2 DEF TypeInv, CallInv
<1>6. DataInv(c)'
  BY <1>1, <1>2 DEF TypeInv, DataInv
<1>7. \A d \in Calls : d # c => SameCall(d)
  BY <1>1, <1>2 DEF TypeInv, SameCall
<1>8. \A b \in S : ~Held(c, "queued", b)
  BY <1>1 DEF Held
<1>9. \A b \in Buffers, l \in Kinds : Held(c, l, b)' <=> Held(c, l, b) \/ (b \in S /\ l = "queued")
  <2>1. queued'[c] = TRUE
    BY <1>1, <1>2 DEF TypeInv
  <2> QED BY <1>1, <1>3, <2>1 DEF Held, Kinds
<1>10. ASSUME NEW b \in S PROVE pool'[b] = 0 /\ \A d \in Calls : raw'[d] # b
  <2>1. b \in Buffers /\ Held(c, "kept", b) /\ "kept" \in Kinds
    BY <1>1, <1>3 DEF Held, Kinds
  <2>2. refs[b] > 0
    BY <2>1, <1>2, HeldCounted
  <2>3. PlaceInv(b) /\ refs[b] \in Nat
    BY <2>1, <1>2 DEF IInv, TypeInv
  <2> QED BY <1>1, <2>2, <2>3 DEF PlaceInv
<1>11. "queued" \in Kinds
  BY DEF Kinds
<1>12. \A b \in Buffers : data'[b] = data[b]
  BY <1>1
<1>13. \A b \in Buffers \ S : pool'[b] = pool[b] /\ \A d \in Calls : raw'[d] = b <=> raw[d] = b
  BY <1>1
<1>14. Ref(S)
  BY <1>1
<1> HIDE DEF S
<1> QED BY <1>3, <1>4, <1>5, <1>6, <1>7, <1>8, <1>9, <1>10, <1>11, <1>12, <1>13, <1>14, RefStep

\* A reply arrives in buffers of the pool, however many there are.
LEMMA ReceiveIInv ==
    ASSUME IInv, NEW c \in Calls, NEW r \in Replies \cup {Malformed}, NEW bs \in Seq(Buffers),
           Receive(c, r, bs)
    PROVE  IInv'
<1> DEFINE used == {bs[i] : i \in DOMAIN bs}
<1>1. /\ pc[c] = "sent" /\ answered[c] = Nil /\ \A i \in DOMAIN bs : pool[bs[i]] > 0
      /\ answered' = [answered EXCEPT ![c] = r] /\ pieces' = [pieces EXCEPT ![c] = bs]
      /\ pool' = [b \in Buffers |-> IF b \in used THEN pool[b] - 1 ELSE pool[b]]
      /\ Ref(used)
      /\ data' = [b \in Buffers |-> IF b \in used THEN Cells(r) ELSE data[b]]
      /\ pc' = [pc EXCEPT ![c] = "received"]
      /\ UNCHANGED <<msg, raw, out, kept, queued, heard, flat, result>>
  BY DEF Receive
<1>2. TypeInv /\ CallInv(c) /\ DataInv(c) /\ CountInv
  BY DEF IInv
<1>3. /\ used \in SUBSET Buffers /\ \A b \in used : pool[b] > 0
      /\ \A b \in Buffers : b \in used <=> \E i \in DOMAIN bs : bs[i] = b
      /\ \A i \in DOMAIN bs : bs[i] \in used
  BY <1>1
<1> HIDE DEF used
<1>4. \A b \in used : pool[b] = 1 /\ refs[b] = 0 /\ \A d \in Calls : ~Uses(d, b)
  BY <1>3, Exclusive
<1>5. TypeInv'
  <2>1. pool' \in [Buffers -> Nat]
    BY <1>1, <1>2, <1>4 DEF TypeInv
  <2>2. refs' \in [Buffers -> Nat]
    BY <1>1, <1>2 DEF TypeInv, Ref
  <2>3. Cells(r) \in Contents \X Contents
    BY DEF Cells, Contents
  <2>4. data' \in [Buffers -> Contents \X Contents]
    BY <1>1, <1>2, <2>3 DEF TypeInv
  <2>5. pieces' \in [Calls -> Seq(Buffers)]
    BY <1>1, <1>2 DEF TypeInv
  <2> QED BY <1>1, <1>2, <2>1, <2>2, <2>4, <2>5 DEF TypeInv, Steps
<1>6. r # Nil
  BY ThingsApart
<1>7. CallInv(c)'
  BY <1>1, <1>2, <1>6 DEF TypeInv, CallInv
<1>8. \A d \in Calls, b \in Buffers : Uses(d, b) => data'[b] = data[b]
  BY <1>1, <1>4
<1>9. DataInv(c)'
  <2>1. \A i \in DOMAIN bs : data'[bs[i]] = Cells(r)
    BY <1>1, <1>3
  <2>2. pieces'[c] = bs /\ answered'[c] = r /\ pc'[c] = "received" /\ flat'[c] = Nil
    BY <1>1, <1>2 DEF TypeInv, CallInv
  <2>3. (kept[c] \/ queued[c]) /\ out[c] \in Buffers => data'[out[c]] = Cells(msg[c])
    BY <1>2, <1>8 DEF DataInv, Uses, Held, Kinds
  <2> QED BY <1>1, <2>1, <2>2, <2>3 DEF DataInv
<1>10. \A d \in Calls : d # c => SameCall(d)
  BY <1>1, <1>2 DEF TypeInv, SameCall
<1>11. "piece" \in Kinds
  BY DEF Kinds
<1>12. \A b \in used : ~Held(c, "piece", b)
  BY <1>4, <1>11 DEF Uses
<1>13. \A b \in Buffers, l \in Kinds : Held(c, l, b)' <=> Held(c, l, b) \/ (b \in used /\ l = "piece")
  <2>1. pieces'[c] = bs /\ pieces[c] = << >>
    BY <1>1, <1>2 DEF TypeInv, CallInv
  <2>2. DOMAIN pieces[c] = {}
    BY <2>1
  <2> QED BY <1>1, <1>3, <2>1, <2>2 DEF Held, Kinds
<1>14. \A b \in used : pool'[b] = 0 /\ \A d \in Calls : raw'[d] # b
  BY <1>1, <1>3, <1>4 DEF Uses
<1>15. \A b \in Buffers \ used : pool'[b] = pool[b] /\ \A d \in Calls : raw'[d] = b <=> raw[d] = b
  BY <1>1
<1>16. Ref(used) /\ used \in SUBSET Buffers
  BY <1>1, <1>3
<1>17. \A d \in Calls : d # c =>
          SameCall(d) /\ \A b \in Buffers : Uses(d, b) => data'[b] = data[b]
  BY <1>8, <1>10
<1> QED BY <1>5, <1>7, <1>9, <1>11, <1>12, <1>13, <1>14, <1>15, <1>16, <1>17, RefStep

\* A reply in one piece is shared.
LEMMA MaterializeOneIInv ==
    ASSUME IInv, NEW c \in Calls, MaterializeOne(c)
    PROVE  IInv'
<1>1. PICK f \in Buffers : pieces[c] = <<f>> /\ Ref({f}) /\ flat' = [flat EXCEPT ![c] = f]
  BY DEF MaterializeOne
<1>2. /\ pc[c] = "received" /\ pc' = [pc EXCEPT ![c] = "decode"]
      /\ UNCHANGED <<pool, data, msg, raw, out, kept, queued, heard, answered, pieces, result>>
  BY DEF MaterializeOne
<1>3. TypeInv /\ CallInv(c) /\ DataInv(c) /\ CountInv
  BY DEF IInv
<1>4. 1 \in DOMAIN pieces[c] /\ pieces[c][1] = f
  BY <1>1
<1>5. Held(c, "piece", f) /\ "piece" \in Kinds /\ "flat" \in Kinds
  BY <1>4 DEF Held, Kinds
<1>6. refs[f] > 0 /\ flat[c] = Nil /\ flat'[c] = f
  BY <1>1, <1>2, <1>3, <1>5, HeldCounted DEF CallInv, TypeInv
<1>7. pool'[f] = 0 /\ \A d \in Calls : raw'[d] # f
  <2>1. PlaceInv(f) /\ refs[f] \in Nat
    BY <1>3 DEF IInv, TypeInv
  <2> QED BY <1>2, <1>6, <2>1 DEF PlaceInv
<1>8. TypeInv'
  <2>1. refs' \in [Buffers -> Nat]
    BY <1>1, <1>3 DEF TypeInv, Ref
  <2> QED BY <1>1, <1>2, <1>3, <2>1 DEF TypeInv, Steps
<1>9. CallInv(c)'
  BY <1>2, <1>3, <1>6, ThingsApart DEF TypeInv, CallInv
<1>10. DataInv(c)'
  <2>1. data[f] = Cells(answered[c])
    BY <1>3, <1>4 DEF DataInv
  <2>2. pc'[c] = "decode"
    BY <1>2, <1>3 DEF TypeInv
  <2> QED BY <1>2, <1>3, <1>6, <2>1, <2>2 DEF DataInv
<1>11. \A d \in Calls : d # c => SameCall(d)
  BY <1>1, <1>2, <1>3 DEF TypeInv, SameCall
<1>12. \A b \in Buffers, l \in Kinds : Held(c, l, b)' <=> Held(c, l, b) \/ (b \in {f} /\ l = "flat")
  BY <1>2, <1>6, ThingsApart DEF Held, Kinds
<1>13. \A b \in {f} : ~Held(c, "flat", b)
  BY <1>6, ThingsApart DEF Held
<1>14. \A b \in Buffers : data'[b] = data[b]
  BY <1>2
<1>15. \A b \in Buffers \ {f} : pool'[b] = pool[b] /\ \A d \in Calls : raw'[d] = b <=> raw[d] = b
  BY <1>2
<1>16. \A b \in {f} : pool'[b] = 0 /\ \A d \in Calls : raw'[d] # b
  BY <1>7
<1>17. {f} \in SUBSET Buffers
  OBVIOUS
<1> QED BY <1>1, <1>5, <1>8, <1>9, <1>10, <1>11, <1>12, <1>13, <1>14, <1>15, <1>16, <1>17, RefStep

\* A reply in two pieces is copied to a buffer of the pool.
LEMMA MaterializeTwoIInv ==
    ASSUME IInv, NEW c \in Calls, NEW f \in Buffers, MaterializeTwo(c, f)
    PROVE  IInv'
<1>1. PICK b1 \in Buffers, b2 \in Buffers :
          pieces[c] = <<b1, b2>> /\ data' = [data EXCEPT ![f] = <<data[b1][1], data[b2][2]>>]
  BY DEF MaterializeTwo
<1>2. /\ pc[c] = "received" /\ pool[f] > 0 /\ pool' = [pool EXCEPT ![f] = @ - 1] /\ Ref({f})
      /\ flat' = [flat EXCEPT ![c] = f] /\ pc' = [pc EXCEPT ![c] = "decode"]
      /\ UNCHANGED <<msg, raw, out, kept, queued, heard, answered, pieces, result>>
  BY DEF MaterializeTwo, Taken
<1>3. TypeInv /\ CallInv(c) /\ DataInv(c) /\ CountInv
  BY DEF IInv
<1>4. pool[f] = 1 /\ refs[f] = 0 /\ \A d \in Calls : ~Uses(d, f)
  BY <1>2, Exclusive
<1>5. <<data[b1][1], data[b2][2]>> = Cells(answered[c])
  <2>1. 1 \in DOMAIN pieces[c] /\ 2 \in DOMAIN pieces[c] /\ pieces[c][1] = b1 /\ pieces[c][2] = b2
    BY <1>1
  <2>2. data[b1] = Cells(answered[c]) /\ data[b2] = Cells(answered[c])
    BY <1>3, <2>1 DEF DataInv
  <2> QED BY <2>2 DEF Cells
<1>6. data' = [data EXCEPT ![f] = Cells(answered[c])]
  BY <1>1, <1>5
<1>7. flat[c] = Nil /\ flat'[c] = f /\ answered[c] \in Contents
  BY <1>2, <1>3 DEF CallInv, TypeInv, Contents
<1>8. TypeInv'
  <2>1. refs' \in [Buffers -> Nat]
    BY <1>2, <1>3 DEF TypeInv, Ref
  <2>2. pool' \in [Buffers -> Nat]
    BY <1>2, <1>3, <1>4 DEF TypeInv
  <2>3. data' \in [Buffers -> Contents \X Contents]
    BY <1>3, <1>6, <1>7 DEF TypeInv, Cells
  <2> QED BY <1>2, <1>3, <2>1, <2>2, <2>3 DEF TypeInv, Steps
<1>9. CallInv(c)'
  BY <1>2, <1>3, <1>7, ThingsApart DEF TypeInv, CallInv
<1>10. \A d \in Calls, b \in Buffers : Uses(d, b) => data'[b] = data[b]
  BY <1>3, <1>4, <1>6 DEF TypeInv
<1>11. DataInv(c)'
  <2>1. data'[f] = Cells(answered[c])
    BY <1>3, <1>6 DEF TypeInv
  <2>2. pc'[c] = "decode"
    BY <1>2, <1>3 DEF TypeInv
  <2>3. (kept[c] \/ queued[c]) /\ out[c] \in Buffers => data'[out[c]] = Cells(msg[c])
    BY <1>3, <1>10 DEF DataInv, Uses, Held, Kinds
  <2>4. \A i \in DOMAIN pieces[c] : data'[pieces[c][i]] = Cells(answered[c])
    BY <1>3, <1>10 DEF DataInv, Uses, Held, Kinds, TypeInv
  <2> QED BY <1>2, <1>7, <2>1, <2>2, <2>3, <2>4 DEF DataInv
<1>12. \A d \in Calls : d # c => SameCall(d)
  BY <1>2, <1>3 DEF TypeInv, SameCall
<1>13. \A b \in Buffers, l \in Kinds : Held(c, l, b)' <=> Held(c, l, b) \/ (b \in {f} /\ l = "flat")
  BY <1>2, <1>7, ThingsApart DEF Held, Kinds
<1>14. \A b \in {f} : ~Held(c, "flat", b)
  BY <1>7, ThingsApart DEF Held
<1>15. \A b \in Buffers \ {f} : pool'[b] = pool[b] /\ \A d \in Calls : raw'[d] = b <=> raw[d] = b
  BY <1>2, <1>3 DEF TypeInv
<1>16. \A b \in {f} : pool'[b] = 0 /\ \A d \in Calls : raw'[d] # b
  BY <1>2, <1>3, <1>4 DEF TypeInv, Uses
<1>17. {f} \in SUBSET Buffers /\ "flat" \in Kinds
  BY DEF Kinds
<1> QED BY <1>2, <1>8, <1>9, <1>10, <1>11, <1>12, <1>13, <1>14, <1>15, <1>16, <1>17, RefStep

--------------------------------------------------------------------------------
(* The steps that free a reference *)

\* Freeing what call c holds as k takes no buffer from anybody else.
LEMMA FreeFrame ==
    ASSUME IInv, NEW c \in Calls, NEW k \in Kinds, NEW S \in SUBSET Buffers, Free(S),
           \A b \in S : Held(c, k, b), raw' = raw
    PROVE  /\ pool' \in [Buffers -> Nat] /\ refs' \in [Buffers -> Nat]
           /\ data' \in [Buffers -> Contents \X Contents]
           /\ \A b \in Buffers : PlaceInv(b)'
           /\ \A b \in Buffers, d \in Calls : raw[d] = b => data'[b] = data[b]
           /\ \A b \in Buffers, d \in Calls, l \in Kinds :
                  Held(d, l, b) /\ ~(d = c /\ l = k) => data'[b] = data[b]
<1> DEFINE last == {b \in S : refs[b] = 1}
<1>1. /\ refs' = [b \in Buffers |-> IF b \in S THEN refs[b] - 1 ELSE refs[b]]
      /\ pool' = [b \in Buffers |-> IF b \in last THEN pool[b] + 1 ELSE pool[b]]
      /\ data' = [b \in Buffers |-> IF b \in last THEN Cells(Junk) ELSE data[b]]
  BY DEF Free
<1>2. TypeInv /\ CountInv
  BY DEF IInv
<1>3. \A b \in S : refs[b] \in Nat /\ refs[b] > 0
  BY <1>2, HeldCounted DEF TypeInv
<1>4. pool' \in [Buffers -> Nat]
  BY <1>1, <1>2 DEF TypeInv
<1>5. refs' \in [Buffers -> Nat]
  BY <1>1, <1>2, <1>3 DEF TypeInv
<1>6. Cells(Junk) \in Contents \X Contents
  BY DEF Cells, Contents
<1>7. data' \in [Buffers -> Contents \X Contents]
  BY <1>1, <1>2, <1>6 DEF TypeInv
<1>8. ASSUME NEW b \in Buffers PROVE PlaceInv(b)'
  <2>1. PlaceInv(b) /\ refs[b] \in Nat /\ pool[b] \in Nat
    BY <1>2 DEF IInv, TypeInv
  <2>2. CASE b \in S
    <3>1. pool[b] = 0 /\ refs[b] > 0 /\ \A d \in Calls : raw'[d] # b
      BY <1>3, <2>1, <2>2 DEF PlaceInv
    <3>2. refs'[b] = refs[b] - 1 /\ pool'[b] = IF refs[b] = 1 THEN 1 ELSE 0
      BY <1>1, <2>2, <3>1
    <3> QED BY <2>1, <3>1, <3>2 DEF PlaceInv
  <2>3. CASE b \notin S
    <3>1. refs'[b] = refs[b] /\ pool'[b] = pool[b]
      BY <1>1, <2>3
    <3> QED BY <2>1, <3>1 DEF PlaceInv
  <2> QED BY <2>2, <2>3
<1>9. \A b \in Buffers, d \in Calls : raw[d] = b => data'[b] = data[b]
  BY <1>1, Exclusive
<1>10. \A b \in Buffers, d \in Calls, l \in Kinds :
           Held(d, l, b) /\ ~(d = c /\ l = k) => data'[b] = data[b]
  BY <1>1, <1>2, HeldCounted
<1> QED BY <1>4, <1>5, <1>7, <1>8, <1>9, <1>10

\* Call c no longer holds the buffers of S as k.
LEMMA FreeStep ==
    ASSUME IInv, NEW c \in Calls, NEW k \in Kinds, NEW S \in SUBSET Buffers, Free(S),
           \A b \in S : Held(c, k, b), raw' = raw,
           TypeInv', CallInv(c)', DataInv(c)',
           \A d \in Calls : d # c => SameCall(d),
           \A b \in Buffers, l \in Kinds : Held(c, l, b)' <=> Held(c, l, b) /\ ~(b \in S /\ l = k)
    PROVE  IInv'
<1>1. \A b \in Buffers, d \in Calls, l \in Kinds :
          Held(d, l, b)' <=> Held(d, l, b) /\ ~(b \in S /\ d = c /\ l = k)
  <2> SUFFICES ASSUME NEW b \in Buffers, NEW d \in Calls, NEW l \in Kinds, d # c
               PROVE  Held(d, l, b)' <=> Held(d, l, b)
    OBVIOUS
  <2>1. SameCall(d)
    OBVIOUS
  <2> QED BY <2>1 DEF Held, SameCall
<1>2. TypeInv /\ CountInv
  BY DEF IInv
<1>3. CountInv'
  BY <1>1, <1>2, CountDropped
<1>4. \A b \in Buffers : PlaceInv(b)'
  BY FreeFrame
<1>5. ASSUME NEW d \in Calls, d # c, NEW b \in Buffers, Uses(d, b) PROVE data'[b] = data[b]
  BY <1>5, FreeFrame DEF Uses
<1>6. \A d \in Calls : d # c =>
          SameCall(d) /\ \A b \in Buffers : Uses(d, b) => data'[b] = data[b]
  BY <1>5
<1> QED BY <1>3, <1>4, <1>6, OneCallSteps

\* What the connection's writer reads is the request.
LEMMA QueuedCells ==
    ASSUME IInv, NEW c \in Calls, queued[c]
    PROVE  CellsOf(out[c]) = Cells(msg[c]) /\ msg[c] \in Requests
<1>1. TypeInv /\ CallInv(c) /\ DataInv(c)
  BY DEF IInv
<1>2. CellsOf(out[c]) = Cells(msg[c])
  BY <1>1 DEF CellsOf, CallInv, DataInv
<1>3. msg[c] # Nil
  BY <1>1 DEF CallInv
<1> QED BY <1>1, <1>2, <1>3 DEF TypeInv

\* The encoded request is freed as k.
LEMMA FreeOutIInv ==
    ASSUME IInv, NEW c \in Calls, Free(OutBuffer(c)),
           UNCHANGED <<pc, msg, raw, out, answered, pieces, flat, result>>,
           heard' = heard \/ (heard' = [heard EXCEPT ![c] = Cells(msg[c])] /\ queued[c]),
           \/ queued[c] /\ queued' = [queued EXCEPT ![c] = FALSE] /\ kept' = kept
           \/ kept[c] /\ kept' = [kept EXCEPT ![c] = FALSE] /\ queued' = queued
    PROVE  IInv'
<1>1. PICK k \in {"kept", "queued"} :
        /\ k = "queued" => queued[c] /\ queued' = [queued EXCEPT ![c] = FALSE] /\ kept' = kept
        /\ k = "kept" => kept[c] /\ kept' = [kept EXCEPT ![c] = FALSE] /\ queued' = queued
  <2>1. CASE queued[c] /\ queued' = [queued EXCEPT ![c] = FALSE] /\ kept' = kept
    BY <2>1
  <2>2. CASE kept[c] /\ kept' = [kept EXCEPT ![c] = FALSE] /\ queued' = queued
    BY <2>2
  <2> QED BY <2>1, <2>2
<1>2. TypeInv /\ CallInv(c) /\ DataInv(c) /\ CountInv
  BY DEF IInv
<1> DEFINE S == OutBuffer(c)
<1>3. S \in SUBSET Buffers /\ \A b \in Buffers : b \in S <=> out[c] = b
  BY DEF OutBuffer
<1>4. k \in Kinds /\ \A b \in S : Held(c, k, b)
  BY <1>1, <1>3 DEF Held, Kinds
<1>5. Free(S)
  OBVIOUS
<1> HIDE DEF S
<1>6. /\ pool' \in [Buffers -> Nat] /\ refs' \in [Buffers -> Nat]
      /\ data' \in [Buffers -> Contents \X Contents]
      /\ \A b \in Buffers : raw[c] = b => data'[b] = data[b]
      /\ \A b \in Buffers, l \in Kinds : Held(c, l, b) /\ l # k => data'[b] = data[b]
  BY <1>3, <1>4, <1>5, FreeFrame
<1>7. /\ kept' \in [Calls -> BOOLEAN] /\ queued' \in [Calls -> BOOLEAN]
      /\ k = "kept" => ~kept'[c] /\ queued'[c] = queued[c]
      /\ k = "queued" => ~queued'[c] /\ kept'[c] = kept[c]
      /\ \A d \in Calls : d # c => kept'[d] = kept[d] /\ queued'[d] = queued[d]
  BY <1>1, <1>2 DEF TypeInv
<1>8. queued[c] => msg[c] \in Requests /\ pc[c] \notin {"idle", "marshal", "fill", "front", "encoded"}
  BY <1>2 DEF CallInv, TypeInv
<1>9. /\ heard' \in [Calls -> {Nil} \cup {Cells(m) : m \in Requests}]
      /\ heard'[c] = heard[c] \/ (heard'[c] = Cells(msg[c]) /\ queued[c])
      /\ \A d \in Calls : d # c => heard'[d] = heard[d]
  <2>1. CASE heard' = heard
    BY <1>2, <2>1 DEF TypeInv
  <2>2. CASE heard' = [heard EXCEPT ![c] = Cells(msg[c])] /\ queued[c]
    BY <1>2, <1>8, <2>2 DEF TypeInv
  <2> QED BY <2>1, <2>2
<1>10. TypeInv'
  BY <1>2, <1>6, <1>7, <1>9 DEF TypeInv
<1>11. kept'[c] \/ queued'[c] => kept[c] \/ queued[c]
  BY <1>1, <1>7
<1>12. CallInv(c)'
  BY <1>2, <1>8, <1>9, <1>11 DEF CallInv
<1>13. DataInv(c)'
  <2>1. pc[c] \in {"front", "encoded"} => data'[raw[c]] = data[raw[c]]
    BY <1>2, <1>6 DEF CallInv, TypeInv
  <2>2. (kept'[c] \/ queued'[c]) /\ out[c] \in Buffers => data'[out[c]] = data[out[c]]
    <3>1. kept'[c] /\ out[c] \in Buffers => k = "queued" /\ Held(c, "kept", out[c])
      BY <1>1, <1>7 DEF Held
    <3>2. queued'[c] /\ out[c] \in Buffers => k = "kept" /\ Held(c, "queued", out[c])
      BY <1>1, <1>7 DEF Held
    <3> QED BY <1>6, <3>1, <3>2 DEF Kinds
  <2>3. \A i \in DOMAIN pieces[c] : data'[pieces[c][i]] = data[pieces[c][i]]
    <3>1. \A i \in DOMAIN pieces[c] : pieces[c][i] \in Buffers /\ Held(c, "piece", pieces[c][i])
      BY <1>2 DEF TypeInv, Held
    <3> QED BY <1>1, <1>6, <3>1 DEF Kinds
  <2>4. flat[c] # Nil => data'[flat[c]] = data[flat[c]]
    <3>1. flat[c] # Nil => flat[c] \in Buffers /\ Held(c, "flat", flat[c])
      BY <1>2 DEF TypeInv, Held
    <3> QED BY <1>1, <1>6, <3>1 DEF Kinds
  <2> QED BY <1>2, <1>11, <2>1, <2>2, <2>3, <2>4 DEF DataInv
<1>14. \A d \in Calls : d # c => SameCall(d)
  BY <1>7, <1>9 DEF SameCall
<1>15. \A b \in Buffers, l \in Kinds : Held(c, l, b)' <=> Held(c, l, b) /\ ~(b \in S /\ l = k)
  BY <1>1, <1>3, <1>7 DEF Held, Kinds
<1> QED BY <1>3, <1>4, <1>5, <1>10, <1>12, <1>13, <1>14, <1>15, FreeStep

\* The deferred Free of Unmarshal.
LEMMA FreeFlatIInv ==
    ASSUME IInv, NEW c \in Calls, FreeFlat(c)
    PROVE  IInv'
<1>1. /\ pc[c] = "decoded" /\ Free({flat[c]}) /\ flat' = [flat EXCEPT ![c] = Nil]
      /\ pc' = [pc EXCEPT ![c] = "unmarshalled"]
      /\ UNCHANGED <<msg, raw, out, kept, queued, heard, answered, pieces, result>>
  BY DEF FreeFlat
<1>2. TypeInv /\ CallInv(c) /\ DataInv(c) /\ CountInv
  BY DEF IInv
<1>3. /\ flat[c] \in Buffers /\ {flat[c]} \in SUBSET Buffers /\ "flat" \in Kinds
      /\ \A b \in {flat[c]} : Held(c, "flat", b)
  BY <1>1, <1>2 DEF CallInv, TypeInv, Held, Kinds
<1>4. /\ pool' \in [Buffers -> Nat] /\ refs' \in [Buffers -> Nat]
      /\ data' \in [Buffers -> Contents \X Contents]
      /\ \A b \in Buffers, l \in Kinds : Held(c, l, b) /\ l # "flat" => data'[b] = data[b]
  BY <1>1, <1>3, FreeFrame
<1>5. TypeInv'
  BY <1>1, <1>2, <1>4 DEF TypeInv, Steps
<1>6. CallInv(c)'
  BY <1>1, <1>2 DEF TypeInv, CallInv
<1>7. DataInv(c)'
  <2>1. (kept[c] \/ queued[c]) /\ out[c] \in Buffers => data'[out[c]] = data[out[c]]
    BY <1>4 DEF Held, Kinds
  <2>2. \A i \in DOMAIN pieces[c] : data'[pieces[c][i]] = data[pieces[c][i]]
    BY <1>2, <1>4 DEF Held, Kinds, TypeInv
  <2>3. pc'[c] = "unmarshalled" /\ flat'[c] = Nil
    BY <1>1, <1>2 DEF TypeInv
  <2> QED BY <1>1, <1>2, <2>1, <2>2, <2>3 DEF DataInv
<1>8. \A d \in Calls : d # c => SameCall(d)
  BY <1>1, <1>2 DEF TypeInv, SameCall
<1>9. \A b \in Buffers, l \in Kinds :
          Held(c, l, b)' <=> Held(c, l, b) /\ ~(b \in {flat[c]} /\ l = "flat")
  <2>1. flat'[c] = Nil
    BY <1>1, <1>2 DEF TypeInv
  <2> QED BY <1>1, <2>1, ThingsApart DEF Held, Kinds
<1> QED BY <1>1, <1>3, <1>5, <1>6, <1>7, <1>8, <1>9, FreeStep

\* The call ends: its reply is freed, if it had one.
LEMMA FreePiecesIInv ==
    ASSUME IInv, NEW c \in Calls, pc[c] \in {"sent", "received", "unmarshalled"},
           Free({pieces[c][i] : i \in DOMAIN pieces[c]}),
           pieces' = [pieces EXCEPT ![c] = << >>], pc' = [pc EXCEPT ![c] = "done"],
           UNCHANGED <<msg, raw, out, kept, queued, heard, answered, flat>>,
           \/ result' = [result EXCEPT ![c] = Error]
           \/ result' = result /\ pc[c] = "unmarshalled"
    PROVE  IInv'
<1>2. TypeInv /\ CallInv(c) /\ DataInv(c) /\ CountInv
  BY DEF IInv
<1> DEFINE S == {pieces[c][i] : i \in DOMAIN pieces[c]}
<1>3. /\ S \in SUBSET Buffers /\ "piece" \in Kinds
      /\ \A b \in Buffers : b \in S <=> \E i \in DOMAIN pieces[c] : pieces[c][i] = b
  BY <1>2 DEF TypeInv, Kinds
<1>4. Free(S)
  OBVIOUS
<1> HIDE DEF S
<1>5. \A b \in S : Held(c, "piece", b)
  BY <1>3 DEF Held
<1>6. /\ pool' \in [Buffers -> Nat] /\ refs' \in [Buffers -> Nat]
      /\ data' \in [Buffers -> Contents \X Contents]
      /\ \A b \in Buffers, l \in Kinds : Held(c, l, b) /\ l # "piece" => data'[b] = data[b]
  BY <1>3, <1>4, <1>5, FreeFrame
<1>7. /\ result' \in [Calls -> {Nil, Error} \cup {Cells(r) : r \in Replies}]
      /\ result'[c] = Error \/ (result'[c] = result[c] /\ pc[c] = "unmarshalled")
      /\ \A d \in Calls : d # c => result'[d] = result[d]
  <2>1. CASE result' = [result EXCEPT ![c] = Error]
    BY <1>2, <2>1 DEF TypeInv
  <2>2. CASE result' = result /\ pc[c] = "unmarshalled"
    BY <1>2, <2>2 DEF TypeInv
  <2> QED BY <2>1, <2>2
<1>8. TypeInv'
  <2>1. pieces' \in [Calls -> Seq(Buffers)]
    BY <1>2 DEF TypeInv
  <2> QED BY <1>2, <1>6, <1>7, <2>1 DEF TypeInv, Steps
<1>9. pc'[c] = "done" /\ pieces'[c] = << >>
  BY <1>2 DEF TypeInv
<1>10. CallInv(c)'
  BY <1>2, <1>7, <1>9, ThingsApart DEF CallInv
<1>11. DataInv(c)'
  <2>1. (kept[c] \/ queued[c]) /\ out[c] \in Buffers => data'[out[c]] = data[out[c]]
    BY <1>6 DEF Held, Kinds
  <2>2. flat[c] = Nil
    BY <1>2 DEF CallInv
  <2> QED BY <1>2, <1>9, <2>1, <2>2 DEF DataInv
<1>12. \A d \in Calls : d # c => SameCall(d)
  BY <1>2, <1>7 DEF TypeInv, SameCall
<1>13. \A b \in Buffers, l \in Kinds :
           Held(c, l, b)' <=> Held(c, l, b) /\ ~(b \in S /\ l = "piece")
  <2>1. DOMAIN pieces'[c] = {}
    BY <1>9
  <2> QED BY <1>3, <2>1 DEF Held, Kinds
<1> QED BY <1>3, <1>4, <1>5, <1>8, <1>10, <1>11, <1>12, <1>13, FreeStep

--------------------------------------------------------------------------------

\* Every step of the codec and of the transport keeps the invariant.
LEMMA NextIInv == IInv /\ [Next]_vars => IInv'
<1> SUFFICES ASSUME IInv, [Next]_vars PROVE IInv'
  OBVIOUS
<1>1. CASE UNCHANGED vars
  <2>1. /\ pool' = pool /\ refs' = refs /\ data' = data /\ pc' = pc /\ msg' = msg /\ raw' = raw
        /\ out' = out /\ kept' = kept /\ queued' = queued /\ heard' = heard
        /\ answered' = answered /\ pieces' = pieces /\ flat' = flat /\ result' = result
    BY <1>1 DEF vars, codecVars, callVars
  <2>2. CountInv'
    BY <2>1, CountKept DEF Held, IInv
  <2>3. \A b \in Buffers : PlaceInv(b)'
    BY <2>1 DEF IInv, PlaceInv
  <2>4. TypeInv'
    BY <2>1 DEF IInv, TypeInv
  <2>5. \A c \in Calls : CallInv(c)' /\ DataInv(c)'
    BY <2>1 DEF IInv, CallInv, DataInv
  <2> QED BY <2>2, <2>3, <2>4, <2>5 DEF IInv
<1>2. ASSUME NEW c \in Calls, NEW m \in Requests, Invoke(c, m) PROVE IInv'
  BY <1>2, InvokeIInv
<1>3. ASSUME NEW c \in Calls, Marshal(c) PROVE IInv'
  <2>1. CASE MarshalNotVT(c)
    BY <2>1, MarshalNotVTIInv DEF MarshalNotVT
  <2>2. CASE MarshalSmall(c)
    BY <2>2, MarshalSmallIInv
  <2>3. ASSUME NEW b \in Buffers, GetBuffer(c, b) PROVE IInv'
    BY <2>3, GetBufferIInv
  <2>4. CASE FillBack(c)
    BY <2>4, FillIInv DEF FillBack
  <2>5. CASE FillFront(c)
    BY <2>5, FillIInv DEF FillFront
  <2>6. CASE MarshalFails(c) \/ MarshalMissized(c)
    BY <2>6, PutBackIInv DEF MarshalFails, MarshalMissized
  <2>7. CASE HandOver(c)
    BY <2>7, HandOverIInv
  <2> QED BY <1>3, <2>1, <2>2, <2>3, <2>4, <2>5, <2>6, <2>7 DEF Marshal
<1>4. ASSUME NEW c \in Calls, Transport(c) PROVE IInv'
  <2>1. CASE Queue(c)
    BY <2>1, QueueIInv
  <2>2. CASE WriteQueued(c)
    BY <2>2, FreeOutIInv, QueuedCells DEF WriteQueued
  <2>3. CASE DropQueued(c)
    BY <2>3, FreeOutIInv DEF DropQueued
  <2>4. CASE Commit(c)
    BY <2>4, FreeOutIInv DEF Commit
  <2>5. ASSUME NEW r \in Replies \cup {Malformed}, NEW b \in Buffers, Receive(c, r, <<b>>)
        PROVE  IInv'
    <3>1. <<b>> \in Seq(Buffers)
      OBVIOUS
    <3> QED BY <2>5, <3>1, ReceiveIInv
  <2>6. ASSUME NEW r \in Replies \cup {Malformed}, NEW b1 \in Buffers, NEW b2 \in Buffers,
               Receive(c, r, <<b1, b2>>)
        PROVE  IInv'
    <3>1. <<b1, b2>> \in Seq(Buffers)
      OBVIOUS
    <3> QED BY <2>6, <3>1, ReceiveIInv
  <2>7. CASE Abort(c)
    BY <2>7, FreePiecesIInv DEF Abort
  <2>8. CASE FreePieces(c)
    BY <2>8, FreePiecesIInv DEF FreePieces
  <2> QED BY <1>4, <2>1, <2>2, <2>3, <2>4, <2>5, <2>6, <2>7, <2>8 DEF Transport
<1>5. ASSUME NEW c \in Calls, Unmarshal(c) PROVE IInv'
  <2>1. CASE UnmarshalNotVT(c)
    BY <2>1, UnmarshalNotVTIInv
  <2>2. CASE MaterializeOne(c)
    BY <2>2, MaterializeOneIInv
  <2>3. ASSUME NEW b \in Buffers, MaterializeTwo(c, b) PROVE IInv'
    BY <2>3, MaterializeTwoIInv
  <2>4. CASE Decode(c)
    BY <2>4, DecodeIInv
  <2>5. CASE FreeFlat(c)
    BY <2>5, FreeFlatIInv
  <2> QED BY <1>5, <2>1, <2>2, <2>3, <2>4, <2>5 DEF Unmarshal
<1>6. ASSUME NEW c \in Calls, Finish(c) PROVE IInv'
  BY <1>6, FinishIInv
<1> QED BY <1>1, <1>2, <1>3, <1>4, <1>5, <1>6 DEF Next

\* The inductive invariant holds in every reachable state.
THEOREM IInvTheorem == Spec => []IInv
BY InitIInv, NextIInv, PTL DEF Spec

\* Every buffer of the pool is in one place, with exactly the references that
\* will be freed: Marshal and Unmarshal (grpc_codec.go) leak none, put none back
\* twice and leave none in the pool while a call works with it, for any number
\* of calls and buffers.
THEOREM EachBufferOnceTheorem == Spec => []EachBufferOnce
<1>1. IInv => EachBufferOnce
  <2> SUFFICES ASSUME IInv, NEW b \in Buffers
               PROVE  /\ pool[b] + Cardinality({c \in Calls : raw[c] = b})
                           + (IF refs[b] = 0 THEN 0 ELSE 1) = 1
                      /\ refs[b] = Cardinality(Holders(b))
    BY DEF EachBufferOnce
  <2> DEFINE filling == {c \in Calls : raw[c] = b}
  <2>1. PlaceInv(b) /\ refs[b] = Cardinality(Holders(b)) /\ refs[b] \in Nat /\ pool[b] \in Nat
    BY DEF IInv, CountInv, TypeInv
  <2>2. CASE \A c \in Calls : raw[c] # b
    <3>1. filling = {}
      BY <2>2
    <3>2. Cardinality(filling) = 0
      BY <3>1, FS_EmptySet
    <3> QED BY <2>1, <2>2, <3>2 DEF PlaceInv
  <2>3. CASE \E c \in Calls : \A d \in Calls : raw[d] = b <=> d = c
    <3>1. PICK c \in Calls : \A d \in Calls : raw[d] = b <=> d = c
      BY <2>3
    <3>2. filling = {c}
      BY <3>1
    <3>3. Cardinality(filling) = 1
      BY <3>2, FS_Singleton
    <3>4. pool[b] = 0 /\ refs[b] = 0
      BY <2>1, <3>1 DEF PlaceInv
    <3> QED BY <2>1, <3>3, <3>4
  <2> QED BY <2>1, <2>2, <2>3 DEF PlaceInv
<1> QED BY <1>1, IInvTheorem, PTL

--------------------------------------------------------------------------------
(* The codec implements calls by value *)

\* What the peer heard and what the caller has, as values: neither depends on
\* a buffer any more.
LEMMA Values ==
    /\ IInv => \A c \in Calls :
          /\ Value(heard[c]) = IF heard[c] = Nil THEN Nil ELSE msg[c]
          /\ Value(result[c]) = IF result[c] \in {Nil, Error} THEN result[c] ELSE answered[c]
    /\ IInv' => \A c \in Calls :
          /\ Value(heard[c])' = IF heard'[c] = Nil THEN Nil ELSE msg'[c]
          /\ Value(result[c])' = IF result'[c] \in {Nil, Error} THEN result'[c] ELSE answered'[c]
<1>1. ASSUME NEW m \in Requests \cup Replies
      PROVE  Value(Cells(m)) = m /\ Value(Cells(m))' = m
  <2>1. Cells(m) \notin Buffers \cup {Nil, Error} /\ Cells(m)[1] = m /\ Cells(m)[2] = m
    BY ThingsApart DEF Cells
  <2> QED BY <2>1 DEF Value, CellsOf
<1>2. Value(Nil) = Nil /\ Value(Nil)' = Nil /\ Value(Error) = Error /\ Value(Error)' = Error
  BY DEF Value
<1>3. ASSUME IInv, NEW c \in Calls
      PROVE  /\ Value(heard[c]) = IF heard[c] = Nil THEN Nil ELSE msg[c]
             /\ Value(result[c]) = IF result[c] \in {Nil, Error} THEN result[c] ELSE answered[c]
  <2>1. /\ heard[c] = Nil \/ (msg[c] \in Requests /\ heard[c] = Cells(msg[c]))
        /\ result[c] \in {Nil, Error} \/ (answered[c] \in Replies /\ result[c] = Cells(answered[c]))
    BY <1>3 DEF IInv, TypeInv, CallInv
  <2>2. \A m \in Requests \cup Replies : Cells(m) \notin {Nil, Error}
    BY ThingsApart DEF Cells
  <2> QED BY <1>1, <1>2, <2>1, <2>2
<1>4. ASSUME IInv', NEW c \in Calls
      PROVE  /\ Value(heard[c])' = IF heard'[c] = Nil THEN Nil ELSE msg'[c]
             /\ Value(result[c])' = IF result'[c] \in {Nil, Error} THEN result'[c] ELSE answered'[c]
  <2>1. /\ heard'[c] = Nil \/ (msg'[c] \in Requests /\ heard'[c] = Cells(msg'[c]))
        /\ result'[c] \in {Nil, Error} \/ (answered'[c] \in Replies /\ result'[c] = Cells(answered'[c]))
    BY <1>4 DEF IInv, TypeInv, CallInv
  <2>2. \A m \in Requests \cup Replies : Cells(m) \notin {Nil, Error}
    BY ThingsApart DEF Cells
  <2> QED BY <1>1, <1>2, <2>1, <2>2 DEF Value, CellsOf
<1> QED BY <1>3, <1>4

HeardValue == [c \in Calls |-> Value(heard[c])]

ToldValue == [c \in Calls |-> Value(result[c])]

\* A call whose messages stay the same has the same values.
LEMMA SameValues ==
    ASSUME IInv, IInv', NEW d \in Calls
    PROVE  /\ heard'[d] = heard[d] /\ (msg'[d] = msg[d] \/ heard[d] = Nil) =>
                HeardValue'[d] = HeardValue[d]
           /\ result'[d] = result[d] /\ (answered'[d] = answered[d] \/ result[d] = Nil) =>
                ToldValue'[d] = ToldValue[d]
BY Values DEF HeardValue, ToldValue

\* Invoke makes the call.
LEMMA InvokeAsks ==
    ASSUME IInv, IInv', NEW c \in Calls, NEW m \in Requests, Invoke(c, m)
    PROVE  ByValue!Ask(c, m)
<1>1. /\ pc[c] = "idle" /\ msg' = [msg EXCEPT ![c] = m]
      /\ UNCHANGED <<heard, answered, result>> /\ TypeInv /\ CallInv(c)
  BY DEF Invoke, IInv
<1>2. msg[c] = Nil /\ heard[c] = Nil
  BY <1>1 DEF CallInv
<1>3. HeardValue' = HeardValue /\ ToldValue' = ToldValue
  <2>1. \A d \in Calls : msg'[d] = msg[d] \/ heard[d] = Nil
    BY <1>1, <1>2 DEF TypeInv
  <2>2. \A d \in Calls : HeardValue'[d] = HeardValue[d] /\ ToldValue'[d] = ToldValue[d]
    BY <1>1, <2>1, SameValues
  <2> QED BY <2>2 DEF HeardValue, ToldValue
<1> QED BY <1>1, <1>2, <1>3 DEF ByValue!Ask, HeardValue, ToldValue

\* The caller gets an error.
LEMMA ErrorFails ==
    ASSUME IInv, IInv', NEW c \in Calls, pc[c] \in Steps \ {"idle"}, result[c] = Nil,
           result' = [result EXCEPT ![c] = Error], UNCHANGED <<msg, heard, answered>>
    PROVE  ByValue!Fail(c)
<1>1. TypeInv /\ CallInv(c)
  BY DEF IInv
<1>2. msg[c] # Nil /\ Value(result[c]) = Nil /\ Value(result[c])' = Error
  BY <1>1, Values DEF CallInv, TypeInv
<1>3. \A d \in Calls : HeardValue'[d] = HeardValue[d] /\ (d # c => ToldValue'[d] = ToldValue[d])
  BY <1>1, SameValues DEF TypeInv
<1>4. HeardValue' = HeardValue /\ ToldValue' = [ToldValue EXCEPT ![c] = Error]
  BY <1>2, <1>3 DEF HeardValue, ToldValue
<1> QED BY <1>2, <1>4 DEF ByValue!Fail, HeardValue, ToldValue

\* The peer hears the request when it is written.
LEMMA WriteHears ==
    ASSUME IInv, IInv', NEW c \in Calls, WriteQueued(c)
    PROVE  ByValue!Hear(c)
<1>1. /\ heard' = [heard EXCEPT ![c] = Cells(msg[c])] /\ msg[c] \in Requests
      /\ UNCHANGED <<msg, answered, result>> /\ TypeInv
  BY QueuedCells DEF WriteQueued, IInv
<1>2. Cells(msg[c]) # Nil /\ msg[c] # Nil
  BY <1>1, ThingsApart DEF Cells
<1>3. Value(heard[c])' = msg[c]
  BY <1>1, <1>2, Values DEF TypeInv
<1>4. \A d \in Calls : ToldValue'[d] = ToldValue[d] /\ (d # c => HeardValue'[d] = HeardValue[d])
  BY <1>1, SameValues DEF TypeInv
<1>5. ToldValue' = ToldValue /\ HeardValue' = [HeardValue EXCEPT ![c] = msg[c]]
  BY <1>3, <1>4 DEF HeardValue, ToldValue
<1> QED BY <1>1, <1>2, <1>5 DEF ByValue!Hear, HeardValue, ToldValue

\* The peer answers when the reply arrives.
LEMMA ReceiveAnswers ==
    ASSUME IInv, IInv', NEW c \in Calls, NEW r, NEW bs, Receive(c, r, bs)
    PROVE  ByValue!Answer(c, r)
<1>1. /\ pc[c] = "sent" /\ heard[c] # Nil /\ answered[c] = Nil
      /\ answered' = [answered EXCEPT ![c] = r]
      /\ UNCHANGED <<msg, heard, result>> /\ TypeInv /\ CallInv(c)
  BY DEF Receive, IInv
<1>2. result[c] = Nil /\ msg[c] # Nil
  BY <1>1 DEF CallInv
<1>3. Value(result[c]) = Nil /\ Value(heard[c]) # Nil
  BY <1>1, <1>2, Values
<1>4. HeardValue' = HeardValue /\ ToldValue' = ToldValue
  <2>1. \A d \in Calls : answered'[d] = answered[d] \/ result[d] = Nil
    BY <1>1, <1>2 DEF TypeInv
  <2>2. \A d \in Calls : HeardValue'[d] = HeardValue[d] /\ ToldValue'[d] = ToldValue[d]
    BY <1>1, <2>1, SameValues
  <2> QED BY <2>2 DEF HeardValue, ToldValue
<1> QED BY <1>1, <1>3, <1>4 DEF ByValue!Answer, HeardValue, ToldValue

\* The caller is told the reply when it is decoded, or that it is malformed.
LEMMA DecodeTells ==
    ASSUME IInv, IInv', NEW c \in Calls, Decode(c)
    PROVE  ByValue!Tell(c) \/ ByValue!Fail(c)
<1>1. /\ pc[c] = "decode" /\ answered[c] \in Replies \cup {Malformed}
      /\ result' = [result EXCEPT ![c] = IF answered[c] = Malformed THEN Error
                                          ELSE Cells(answered[c])]
      /\ UNCHANGED <<msg, heard, answered>> /\ TypeInv /\ CallInv(c)
  BY DecodeResult DEF Decode, IInv
<1>2. result[c] = Nil /\ Value(result[c]) = Nil
  BY <1>1, Values DEF CallInv
<1>3. CASE answered[c] = Malformed
  BY <1>1, <1>2, <1>3, ErrorFails DEF Steps
<1>4. CASE answered[c] \in Replies
  <2>1. /\ answered[c] # Malformed /\ Cells(answered[c]) \notin {Nil, Error}
    BY <1>4, ThingsApart DEF Cells
  <2>2. result'[c] = Cells(answered[c])
    BY <1>1, <2>1 DEF TypeInv
  <2>3. Value(result[c])' = answered[c]
    BY <1>1, <2>1, <2>2, Values
  <2>4. \A d \in Calls : HeardValue'[d] = HeardValue[d] /\ (d # c => ToldValue'[d] = ToldValue[d])
    BY <1>1, SameValues DEF TypeInv
  <2>5. HeardValue' = HeardValue /\ ToldValue' = [ToldValue EXCEPT ![c] = answered[c]]
    BY <2>3, <2>4 DEF HeardValue, ToldValue
  <2> QED BY <1>1, <1>2, <1>4, <2>5 DEF ByValue!Tell, HeardValue, ToldValue
<1> QED BY <1>1, <1>3, <1>4

\* The slot is free again.
LEMMA FinishCloses ==
    ASSUME IInv, IInv', NEW c \in Calls, Finish(c)
    PROVE  ByValue!Close(c)
<1>1. /\ pc[c] = "done" /\ msg' = [msg EXCEPT ![c] = Nil] /\ heard' = [heard EXCEPT ![c] = Nil]
      /\ answered' = [answered EXCEPT ![c] = Nil] /\ result' = [result EXCEPT ![c] = Nil]
      /\ TypeInv /\ CallInv(c)
  BY DEF Finish, IInv
<1>2. Value(result[c]) # Nil
  <2>1. result[c] # Nil /\ (result[c] = Error \/ (answered[c] \in Replies /\ result[c] = Cells(answered[c])))
    BY <1>1 DEF CallInv
  <2> QED BY <2>1, Values, ThingsApart DEF Cells
<1>3. Value(heard[c])' = Nil /\ Value(result[c])' = Nil
  BY <1>1, Values DEF TypeInv
<1>4. \A d \in Calls : d # c => HeardValue'[d] = HeardValue[d] /\ ToldValue'[d] = ToldValue[d]
  BY <1>1, SameValues DEF TypeInv
<1>5. HeardValue' = [HeardValue EXCEPT ![c] = Nil] /\ ToldValue' = [ToldValue EXCEPT ![c] = Nil]
  BY <1>3, <1>4 DEF HeardValue, ToldValue
<1> QED BY <1>1, <1>2, <1>5 DEF ByValue!Close, HeardValue, ToldValue

\* The steps that only move buffers do not show.
LEMMA BuffersDoNotShow ==
    ASSUME IInv, IInv', UNCHANGED <<msg, heard, answered, result>>
    PROVE  UNCHANGED ByValue!vars
<1>1. \A d \in Calls : HeardValue'[d] = HeardValue[d] /\ ToldValue'[d] = ToldValue[d]
  BY SameValues
<1>2. HeardValue' = HeardValue /\ ToldValue' = ToldValue
  BY <1>1 DEF HeardValue, ToldValue
<1> QED BY <1>2 DEF ByValue!vars, HeardValue, ToldValue

\* Every step is a step of UnaryCalls or does not show there.
LEMMA StepByValue == IInv /\ IInv' /\ [Next]_vars => [ByValue!Next]_(ByValue!vars)
<1> SUFFICES ASSUME IInv, IInv', [Next]_vars PROVE [ByValue!Next]_(ByValue!vars)
  OBVIOUS
<1>1. CASE UNCHANGED vars
  BY <1>1, BuffersDoNotShow DEF vars, callVars
<1>2. ASSUME NEW c \in Calls, NEW m \in Requests, Invoke(c, m) PROVE ByValue!Next
  BY <1>2, InvokeAsks DEF ByValue!Next
<1>3. ASSUME NEW c \in Calls, Marshal(c) PROVE [ByValue!Next]_(ByValue!vars)
  <2>1. CASE Refused(c) /\ pc[c] \in {"marshal", "front"}
    <3>1. result[c] = Nil
      BY <2>1 DEF IInv, CallInv
    <3>2. ByValue!Fail(c)
      BY <2>1, <3>1, ErrorFails DEF Refused, Steps
    <3> QED BY <3>2 DEF ByValue!Next
  <2>2. CASE UNCHANGED <<msg, heard, answered, result>>
    BY <2>2, BuffersDoNotShow
  <2> QED BY <1>3, <2>1, <2>2 DEF Marshal, MarshalNotVT, MarshalSmall, GetBuffer, FillBack,
                                  MarshalFails, MarshalMissized, FillFront, HandOver
<1>4. ASSUME NEW c \in Calls, Transport(c) PROVE [ByValue!Next]_(ByValue!vars)
  <2>1. CASE Queue(c) \/ DropQueued(c) \/ Commit(c) \/ FreePieces(c)
    BY <2>1, BuffersDoNotShow DEF Queue, DropQueued, Commit, FreePieces
  <2>2. CASE WriteQueued(c)
    BY <2>2, WriteHears DEF ByValue!Next
  <2>3. ASSUME NEW r \in Replies \cup {Malformed}, NEW bs, Receive(c, r, bs) PROVE ByValue!Next
    BY <2>3, ReceiveAnswers DEF ByValue!Next
  <2>4. CASE Abort(c)
    <3>1. result[c] = Nil
      BY <2>4 DEF IInv, CallInv, Abort
    <3>2. ByValue!Fail(c)
      BY <2>4, <3>1, ErrorFails DEF Abort, Steps
    <3> QED BY <3>2 DEF ByValue!Next
  <2> QED BY <1>4, <2>1, <2>2, <2>3, <2>4 DEF Transport
<1>5. ASSUME NEW c \in Calls, Unmarshal(c) PROVE [ByValue!Next]_(ByValue!vars)
  <2>1. CASE UnmarshalNotVT(c)
    <3>1. result[c] = Nil
      BY <2>1 DEF IInv, CallInv, UnmarshalNotVT
    <3>2. ByValue!Fail(c)
      BY <2>1, <3>1, ErrorFails DEF UnmarshalNotVT, Steps
    <3> QED BY <3>2 DEF ByValue!Next
  <2>2. CASE MaterializeOne(c) \/ (\E b \in Buffers : MaterializeTwo(c, b)) \/ FreeFlat(c)
    BY <2>2, BuffersDoNotShow DEF MaterializeOne, MaterializeTwo, FreeFlat
  <2>3. CASE Decode(c)
    BY <2>3, DecodeTells DEF ByValue!Next
  <2> QED BY <1>5, <2>1, <2>2, <2>3 DEF Unmarshal
<1>6. ASSUME NEW c \in Calls, Finish(c) PROVE ByValue!Next
  BY <1>6, FinishCloses DEF ByValue!Next
<1> QED BY <1>1, <1>2, <1>3, <1>4, <1>5, <1>6 DEF Next

\* The codec implements calls by value, for any number of calls and buffers:
\* the peer hears the request as it was asked, the caller is told the reply as
\* it was answered, and neither changes when the buffers of vtProtoCodec
\* (grpc_codec.go) go back to the pool and are filled again.
THEOREM CallsByValueTheorem == Spec => CallsByValue
<1>1. Init => ByValue!Init
  <2> SUFFICES ASSUME Init PROVE ByValue!Init
    OBVIOUS
  <2>1. IInv
    BY InitIInv
  <2>2. \A c \in Calls : Value(heard[c]) = Nil /\ Value(result[c]) = Nil
    BY <2>1, Values DEF Init
  <2> QED BY <2>2 DEF Init, ByValue!Init
<1> QED BY <1>1, IInvTheorem, StepByValue, PTL DEF Spec, CallsByValue, ByValue!Spec

================================================================================
