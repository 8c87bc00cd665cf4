------------------------------ MODULE MCNativeCalls ------------------------------
(* Three documents in pages of one, two (the default) or three: the last page *)
(* is short, full, or the only one.  One command for each way in which it can *)
(* be refused, bound and typed.                                               *)
EXTENDS NativeCalls

MCCommand(u, t, p) == [uri |-> u, contentType |-> t, payload |-> p, headers |-> "well formed"]

MCCommands ==
    {MCCommand("", "none", "none"), MCCommand("", "none", "json"),
     MCCommand("own", "none", "bson"), MCCommand("own", "json", "json"),
     MCCommand("own", "json", "bson"), MCCommand("own", "bson", "json"),
     MCCommand("own", "malformed", "none"), MCCommand("other", "none", "none"),
     MCCommand("other", "bson", "bson"), MCCommand("//", "none", "none"),
     [MCCommand("own", "json", "json") EXCEPT !.headers = "unnamed"]}

MCBadPages == {-1, MaxUint32 + 1}

MCBadSizes == {-1, MaxPageSize + 1}

MCSorts == {<< >>, <<"a", "b">>, <<"a", "a">>, <<Blank>>}

MCProjections == {Nil, <<"a">>, <<"a", "a">>, <<NotUTF8>>}

================================================================================
