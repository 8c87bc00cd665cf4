SPECIFICATION Spec
CONSTANTS
    Calls = {c1, c2}
    Requests = {big, other, small, smallfail, fail, short, foreign}
    Replies = {reply, reply2}
    Malformed = malformed
    Error = Error
    Nil = Nil
    Buffers = {b1, b2, b3, b4, b5}
    Junk = Junk
    NotVT = {foreign}
    ReplyNotVT = {small}
    Small = {small, smallfail}
    Failing = {fail, smallfail}
    Missized = {short}
SYMMETRY Symmetry
INVARIANTS
    EachBufferOnce
PROPERTIES
    CallsByValue
