----------------------------- MODULE MCRecordValues -----------------------------
(* What an operation is made of: the address of a record (ResourceURI) and the *)
(* document and program (ByteOwnership).  The two share no state, so that each *)
(* is run while the other one is at rest.                                      *)
(*                                                                             *)
(* Keys of every kind over the same few bytes, so that they could be mistaken  *)
(* for each other: digits, a colon, a slash, a percent sign, characters of     *)
(* two, three and four bytes, half of one and a surrogate, and int64 keys of   *)
(* two bytes at both ends of the range and on both sides of a byte.  The texts *)
(* offered as addresses spell stores, records and neither.                     *)
(* Five slices: one for the application, one each for a document and a program *)
(* and two for a message of them, or for an older document and program that an *)
(* operation still has.                                                        *)
EXTENDS ByteOwnership, ResourceURI, TLC

MCInit == Init /\ URIInit

MCNext ==
    \/ Init /\ URINext /\ UNCHANGED vars
    \/ URIInit /\ Next /\ UNCHANGED known

MCSpec == MCInit /\ [][MCNext]_<<vars, known>>

MCObjects == [json |-> {"object"}, bson |-> {"document"}]

Symmetry == Permutations(Slices)

MCStores == {<<100>>, <<100, 46, 49>>, <<68>>, <<46>>, << >>}

MCPaths == {<< >>, <<<<97>>>>, <<<<97, 47, 98>>, <<195, 169>>>>, <<<<46, 46>>>>, <<<<255>>>>, <<<<97>>, << >>>>}

MCText == {<< >>, <<49>>, <<45, 49>>, <<49, 58, 49>>, <<49, 47>>, <<37>>, <<195, 169>>, <<195>>, <<46>>,
           <<226, 130, 172>>, <<237, 160, 128>>, <<240, 159, 152, 128>>}

MCKey(kind, value, type) == [kind |-> kind, value |-> value, opaqueType |-> type]

MCKeys ==
    {MCKey("unspecified", << >>, << >>)}
    \cup {MCKey(kind, text, << >>) : kind \in {"string", "bytes"}, text \in MCText}
    \cup {MCKey("int64", n, << >>) : n \in {-32768, -256, -1, 0, 255, 32767}}
    \cup {MCKey("opaque", text, type) :
             text \in {<< >>, <<49>>, <<58, 49>>}, type \in {<< >>, <<49>>, <<49, 58>>, <<195>>}}

\* "", "sink://d", "sink://d/", "sink://d/a", "sink://d/i:-1" and "sink://d/i:-01"
MCOffered ==
    LET store == Scheme \o <<100>>
    IN  {<< >>, store} \cup
        {store \o <<Slash>> \o rest : rest \in {<< >>, <<97>>, <<105, 58, 45, 49>>, <<105, 58, 45, 48, 49>>}}

================================================================================
