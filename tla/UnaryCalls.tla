------------------------------- MODULE UnaryCalls -------------------------------
(* What the stubs of sink_grpc.pb.go promise their caller, whatever buffers  *)
(* the messages travel in: the peer receives the request as it was when the  *)
(* call was made, and the caller receives the reply as the peer sent it, to  *)
(* keep.  A message is a value here.                                         *)

CONSTANTS
    Calls,         \* slots in which calls are made, one after the other
    Requests,      \* messages a caller sends
    Replies,       \* messages a peer answers with
    Malformed,     \* an answer that is not a message
    Error,         \* what a failed call returns
    Nil            \* nothing yet

VARIABLES
    asked,         \* the request of the call of each slot
    heard,         \* what the peer received of it
    answered,      \* what the peer sent back
    told           \* what the caller has: nothing, an error, a reply

vars == <<asked, heard, answered, told>>

Init == /\ asked = [c \in Calls |-> Nil]
        /\ heard = [c \in Calls |-> Nil]
        /\ answered = [c \in Calls |-> Nil]
        /\ told = [c \in Calls |-> Nil]

Ask(c, m) ==
    /\ asked[c] = Nil
    /\ asked' = [asked EXCEPT ![c] = m]
    /\ UNCHANGED <<heard, answered, told>>

\* Possibly after the caller has given up.
Hear(c) ==
    /\ asked[c] # Nil
    /\ heard' = [heard EXCEPT ![c] = asked[c]]
    /\ UNCHANGED <<asked, answered, told>>

Answer(c, r) ==
    /\ heard[c] # Nil /\ answered[c] = Nil /\ told[c] = Nil
    /\ answered' = [answered EXCEPT ![c] = r]
    /\ UNCHANGED <<asked, heard, told>>

Tell(c) ==
    /\ told[c] = Nil
    /\ answered[c] \in Replies
    /\ told' = [told EXCEPT ![c] = answered[c]]
    /\ UNCHANGED <<asked, heard, answered>>

Fail(c) ==
    /\ asked[c] # Nil /\ told[c] = Nil
    /\ told' = [told EXCEPT ![c] = Error]
    /\ UNCHANGED <<asked, heard, answered>>

\* The caller is done with the result, and the slot is free for another call.
Close(c) ==
    /\ told[c] # Nil
    /\ asked' = [asked EXCEPT ![c] = Nil]
    /\ heard' = [heard EXCEPT ![c] = Nil]
    /\ answered' = [answered EXCEPT ![c] = Nil]
    /\ told' = [told EXCEPT ![c] = Nil]

Next == \E c \in Calls :
    \/ \E m \in Requests : Ask(c, m)
    \/ Hear(c)
    \/ \E r \in Replies \cup {Malformed} : Answer(c, r)
    \/ Tell(c)
    \/ Fail(c)
    \/ Close(c)

Spec == Init /\ [][Next]_vars

================================================================================
