---------------------------- MODULE AddressSource ----------------------------
(***************************************************************************)
(* What a gRPC channel may rely on when dns_refresh.go gives it addresses: *)
(* they come from one DNS resolver at a time; a resolver is replaced only  *)
(* after it has delivered, so that no lookup is cut off before its first   *)
(* answer; and when Close has returned nobody delivers any more.  There    *)
(* are no goroutines, channels or timers here.                             *)
(***************************************************************************)

CONSTANT Resolvers

VARIABLES
    life,       \* "open", "closing" (Close was called) or "closed" (it returned)
    sources,    \* resolvers that may deliver addresses
    delivered   \* those of them that have

vars == <<life, sources, delivered>>

Init == life = "open" /\ sources = {} /\ delivered = {}

\* A new resolver, never beside another; one may still be on its way when
\* Close is called.
Start(r) ==
    /\ life # "closed" /\ sources = {}
    /\ sources' = {r}
    /\ UNCHANGED <<life, delivered>>

Deliver(r) ==
    /\ r \in sources
    /\ delivered' = delivered \cup {r}
    /\ UNCHANGED <<life, sources>>

\* A refresh ends a resolver that has delivered, Close ends any.
Retire(r) ==
    /\ r \in sources
    /\ r \in delivered \/ life = "closing"
    /\ sources' = sources \ {r} /\ delivered' = delivered \ {r}
    /\ UNCHANGED life

CloseBegins ==
    /\ life = "open" /\ life' = "closing"
    /\ UNCHANGED <<sources, delivered>>

CloseReturns ==
    /\ life = "closing" /\ sources = {}
    /\ life' = "closed"
    /\ UNCHANGED <<sources, delivered>>

Next ==
    \/ \E r \in Resolvers : Start(r) \/ Deliver(r) \/ Retire(r)
    \/ CloseBegins \/ CloseReturns

Spec == Init /\ [][Next]_vars

===============================================================================
