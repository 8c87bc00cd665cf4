--------------------------- MODULE DNSRefreshProofs ---------------------------
(***************************************************************************)
(* Safety of the refreshing resolver for any set of resolvers and any set  *)
(* of goroutines calling Close.                                            *)
(***************************************************************************)
EXTENDS DNSRefresh, TLAPS

\* A watcher runs only while the goroutine holds its resolver open or waits
\* for it to end.
WatcherOwned ==
    \A r \in Resolvers : watcher[r] # "none" =>
        r = underlying /\ pc \in {"select", "closing", "exiting"}

\* In the select loop the resolver held is running and has not been closed.
HeldIsLive ==
    pc = "select" /\ underlying # None =>
        watcher[underlying] # "none" /\ underlying \notin cancelled

\* A watcher that reports, or rests after, a success has had one accepted.
ReportedIsAccepted ==
    \A r \in Resolvers : watcher[r] \in {"notify", "idle"} => r \in accepted

\* The timer runs only in the select loop; the channel is empty before Build
\* and between the drain and the next Build.
QuietOutsideSelect ==
    /\ pc # "select" => timer = "off"
    /\ pc \in {"unbuilt", "build"} => ~updates

\* What Close has seen: the Once is no longer new for the caller that runs
\* its body, a caller returns only after the Once is over, which
\* is after done was closed, which is the goroutine's last step.
CloseOrder ==
    /\ \A c \in Closers :
           /\ closer[c] = "returned" => once = "over"
           /\ closer[c] = "first" => once # "new"
    /\ once = "over" => done
    /\ done => pc = "exited"

\* The goroutine ends a resolver that has delivered, or because of Close.
RetiredForReason ==
    /\ pc = "closing" /\ underlying # None => underlying \in accepted
    /\ pc = "exiting" => stop
    /\ once # "new" <=> stop

IInv ==
    /\ TypeOK
    /\ WatcherOwned
    /\ HeldIsLive
    /\ ReportedIsAccepted
    /\ QuietOutsideSelect
    /\ CloseOrder
    /\ RetiredForReason
    /\ FirstLookupKept
    /\ RefreshScheduled

-------------------------------------------------------------------------------

LEMMA InitIInv == Init => IInv
  BY NoneAssumption DEF Init, IInv, TypeOK, WatcherOwned, HeldIsLive,
     ReportedIsAccepted, QuietOutsideSelect, CloseOrder, RetiredForReason,
     FirstLookupKept, RefreshScheduled

\* The builder and the refresh goroutine.
LEMMA RefreshIInv == ASSUME IInv, Builder \/ Refresh PROVE IInv'
<1> USE NoneAssumption DEF IInv, TypeOK, WatcherOwned, HeldIsLive,
    ReportedIsAccepted, QuietOutsideSelect, CloseOrder, RetiredForReason,
    FirstLookupKept, RefreshScheduled, channels, closing, external, local
<1>1. CASE BuildLiteral BY <1>1 DEF BuildLiteral
<1>2. CASE BuildRefreshing BY <1>2 DEF BuildRefreshing, StartWatcher
<1>3. CASE BuildError BY <1>3 DEF BuildError
<1>4. CASE SelectStop BY <1>4 DEF SelectStop, CancelUnderlying
<1>5. CASE Exit BY <1>5 DEF Exit, UnderlyingClosed
<1>6. CASE SelectUpdate BY <1>6 DEF SelectUpdate
<1>7. CASE SelectHint BY <1>7 DEF SelectHint
<1>8. CASE SelectTimer BY <1>8 DEF SelectTimer, CancelUnderlying
<1>9. CASE Drain BY <1>9 DEF Drain, UnderlyingClosed
<1>10. CASE Rebuild BY <1>10 DEF Rebuild, StartWatcher
<1>11. CASE RebuildError BY <1>11 DEF RebuildError
<1>12. QED
  BY <1>1, <1>2, <1>3, <1>4, <1>5, <1>6, <1>7, <1>8, <1>9, <1>10, <1>11
     DEF Builder, Refresh

\* The watcher of a resolver and the callbacks it makes.
LEMMA WatcherIInv == ASSUME IInv, NEW r \in Resolvers, Watcher(r) PROVE IInv'
<1> USE NoneAssumption DEF IInv, TypeOK, WatcherOwned, HeldIsLive,
    ReportedIsAccepted, QuietOutsideSelect, CloseOrder, RetiredForReason,
    FirstLookupKept, RefreshScheduled, channels, closing, local, Move
<1>1. CASE LookupSucceeds(r) BY <1>1 DEF LookupSucceeds
<1>2. CASE LookupFails(r) BY <1>2 DEF LookupFails
<1>3. CASE UpdateAccepted(r) BY <1>3 DEF UpdateAccepted
<1>4. CASE UpdateRejected(r) BY <1>4 DEF UpdateRejected
<1>5. CASE SendUpdate(r) BY <1>5 DEF SendUpdate
<1>6. CASE TakeHint(r) BY <1>6 DEF TakeHint
<1>7. CASE PauseEnds(r) BY <1>7 DEF PauseEnds
<1>8. CASE WatcherExits(r) BY <1>8 DEF WatcherExits
<1>9. QED
  BY <1>1, <1>2, <1>3, <1>4, <1>5, <1>6, <1>7, <1>8 DEF Watcher

\* The timer and the calls made by gRPC.
LEMMA CallsIInv ==
    ASSUME IInv, TimerFires \/ ResolveNow \/ (\E c \in Closers : Close(c))
    PROVE  IInv'
<1> USE NoneAssumption DEF IInv, TypeOK, WatcherOwned, HeldIsLive,
    ReportedIsAccepted, QuietOutsideSelect, CloseOrder, RetiredForReason,
    FirstLookupKept, RefreshScheduled, channels, external, local
<1>1. CASE TimerFires BY <1>1 DEF TimerFires, closing
<1>2. CASE ResolveNow BY <1>2 DEF ResolveNow, closing, Running
<1>3. ASSUME NEW c \in Closers, Close(c) PROVE IInv'
  <2>1. CASE CloseFirst(c) BY <2>1 DEF CloseFirst, Running
  <2>2. CASE CloseDone(c) BY <2>2 DEF CloseDone
  <2>3. CASE CloseAgain(c) BY <2>3 DEF CloseAgain, Running
  <2>4. CASE CloseUnblocked(c) BY <2>4 DEF CloseUnblocked
  <2>5. QED BY <1>3, <2>1, <2>2, <2>3, <2>4 DEF Close
<1>4. QED BY <1>1, <1>2, <1>3

\* Every step preserves the inductive invariant.
THEOREM Inductive == Spec => []IInv
<1>1. IInv /\ [Next]_vars => IInv'
  <2> SUFFICES ASSUME IInv, [Next]_vars PROVE IInv'
    OBVIOUS
  <2>1. CASE Builder \/ Refresh BY <2>1, RefreshIInv
  <2>2. CASE \E r \in Resolvers : Watcher(r) BY <2>2, WatcherIInv
  <2>3. CASE TimerFires \/ ResolveNow \/ \E c \in Closers : Close(c)
    BY <2>3, CallsIInv
  <2>4. CASE UNCHANGED vars
    BY <2>4 DEF vars, local, channels, closing, external, IInv, TypeOK,
       WatcherOwned, HeldIsLive, ReportedIsAccepted, QuietOutsideSelect,
       CloseOrder, RetiredForReason, FirstLookupKept, RefreshScheduled
  <2>5. QED BY <2>1, <2>2, <2>3, <2>4 DEF Next
<1>2. QED BY InitIInv, <1>1, PTL DEF Spec

\* The variables of the resolver keep their types.
THEOREM TypeCorrect == Spec => []TypeOK
  BY Inductive, PTL DEF IInv

\* refresh closes an old resolver, and waits for it, before it builds a new
\* one: at most one runs, and it is the one the goroutine holds.
THEOREM SoleResolverTheorem == Spec => []SoleResolver
<1>1. IInv => SoleResolver BY DEF IInv, WatcherOwned, SoleResolver
<1>2. QED BY Inductive, <1>1, PTL

\* When a call of Close has returned, every resolver and the goroutine have
\* ended.
THEOREM CloseIsFinalTheorem == Spec => []CloseIsFinal
<1>1. IInv => CloseIsFinal
  BY DEF IInv, CloseOrder, WatcherOwned, QuietOutsideSelect, CloseIsFinal
<1>2. QED BY Inductive, <1>1, PTL

\* The timer runs only against a resolver whose update was accepted.
THEOREM FirstLookupKeptTheorem == Spec => []FirstLookupKept
  BY Inductive, PTL DEF IInv

\* A further refresh is always scheduled.
THEOREM RefreshScheduledTheorem == Spec => []RefreshScheduled
  BY Inductive, PTL DEF IInv

-------------------------------------------------------------------------------
(* The refinement of AddressSource. *)

\* A step that starts or ends no watcher, accepts nothing and leaves the Once
\* and stop alone does not show.
LEMMA Hidden ==
    ASSUME Sources' = Sources, UNCHANGED <<accepted, once, stop>>
    PROVE  UNCHANGED Channel!vars
  BY DEF Channel!vars, Delivered, Life

\* A new resolver starts only when none runs: before the first, and after the
\* old one was waited for.
LEMMA BuildStarts ==
    ASSUME IInv, BuildRefreshing \/ Rebuild
    PROVE  Channel!Next
<1> USE DEF IInv, TypeOK, WatcherOwned, CloseOrder
<1>1. PICK r \in Resolvers : StartWatcher(r)
  BY DEF BuildRefreshing, Rebuild
<1>2. /\ pc \in {"unbuilt", "build"}
      /\ UNCHANGED <<once, stop>>
  BY DEF BuildRefreshing, Rebuild, channels, closing
<1>3. Sources = {} /\ Life # "closed"
  BY <1>2 DEF Sources, Life
<1>4. Sources' = {r}
  BY <1>1, <1>3 DEF StartWatcher, Sources
<1>5. Delivered' = Delivered
  BY <1>1, <1>3, <1>4 DEF StartWatcher, Delivered
<1>6. Life' = Life
  BY <1>2 DEF Life
<1>7. Channel!Start(r)
  BY <1>3, <1>4, <1>5, <1>6 DEF Channel!Start
<1> QED BY <1>7 DEF Channel!Next

\* An accepted update is a delivery of the resolver that runs.
LEMMA UpdateDelivers ==
    ASSUME IInv, NEW r \in Resolvers, UpdateAccepted(r)
    PROVE  Channel!Next
<1> USE DEF IInv, TypeOK, UpdateAccepted, Move
<1>1. r \in Sources /\ Sources' = Sources
  BY DEF Sources
<1>2. Delivered' = Delivered \cup {r}
  BY <1>1 DEF Delivered
<1>3. Life' = Life
  BY DEF Life, channels, closing
<1>4. Channel!Deliver(r)
  BY <1>1, <1>2, <1>3 DEF Channel!Deliver
<1> QED BY <1>4 DEF Channel!Next

\* A watcher ends after the timer closed it, which its own update armed, or
\* after Close.
LEMMA ExitRetires ==
    ASSUME IInv, NEW r \in Resolvers, WatcherExits(r)
    PROVE  Channel!Next
<1> USE DEF IInv, TypeOK, WatcherExits, Move
<1>1. r \in Sources /\ Sources' = Sources \ {r}
  BY DEF Sources
<1>2. Delivered' = Delivered \ {r}
  BY <1>1 DEF Delivered
<1>3. Life' = Life
  BY DEF Life, channels, closing
<1>4. r = underlying /\ underlying # None /\ pc \in {"closing", "exiting"}
  BY NoneAssumption DEF WatcherOwned, HeldIsLive
<1>5. pc = "closing" => r \in Delivered
  BY <1>1, <1>4 DEF RetiredForReason, Delivered
<1>6. pc = "exiting" => Life = "closing"
  BY DEF RetiredForReason, CloseOrder, Life
<1>7. r \in Delivered \/ Life = "closing"
  BY <1>4, <1>5, <1>6
<1>8. Channel!Retire(r)
  BY <1>1, <1>2, <1>3, <1>7 DEF Channel!Retire
<1> QED BY <1>8 DEF Channel!Next

\* The first caller of Close begins it, and it ends after the last resolver.
LEMMA CloseCloses ==
    ASSUME IInv, NEW c \in Closers, Close(c)
    PROVE  Channel!Next \/ UNCHANGED Channel!vars
<1> USE DEF IInv, TypeOK
<1>1. CASE CloseFirst(c)
  <2>1. UNCHANGED <<Sources, Delivered>>
    BY <1>1 DEF CloseFirst, external, Sources, Delivered
  <2>2. Life = "open" /\ Life' = "closing"
    BY <1>1 DEF CloseFirst, RetiredForReason, Life
  <2>3. Channel!CloseBegins
    BY <2>1, <2>2 DEF Channel!CloseBegins
  <2> QED BY <2>3 DEF Channel!Next
<1>2. CASE CloseDone(c)
  <2>1. UNCHANGED <<Sources, Delivered>>
    BY <1>2 DEF CloseDone, external, Sources, Delivered
  <2>2. Sources = {}
    BY <1>2 DEF CloseDone, CloseOrder, WatcherOwned, Sources
  <2>3. Life \in {"closing", "closed"} /\ Life' = "closed"
    BY <1>2 DEF CloseDone, CloseOrder, RetiredForReason, Life
  <2>4. CASE Life = "closing"
    <3>1. Channel!CloseReturns
      BY <2>1, <2>2, <2>3, <2>4 DEF Channel!CloseReturns
    <3> QED BY <3>1 DEF Channel!Next
  <2>5. CASE Life = "closed"
    BY <2>1, <2>3, <2>5 DEF Channel!vars
  <2> QED BY <2>3, <2>4, <2>5
<1>3. CASE CloseAgain(c) \/ CloseUnblocked(c)
  <2>1. UNCHANGED <<Sources, accepted, once, stop>>
    BY <1>3 DEF CloseAgain, CloseUnblocked, channels, external, Sources
  <2> QED BY <2>1, Hidden
<1> QED BY <1>1, <1>2, <1>3 DEF Close

\* Everything else that the goroutine, the timer, the watchers and gRPC do
\* does not show: it starts and ends no watcher.
LEMMA OthersHidden ==
    ASSUME IInv,
           \/ BuildLiteral \/ BuildError \/ TimerFires \/ ResolveNow
           \/ SelectStop \/ Exit \/ SelectUpdate \/ SelectHint
           \/ SelectTimer \/ Drain \/ RebuildError
           \/ \E r \in Resolvers :
                  \/ LookupSucceeds(r) \/ LookupFails(r) \/ UpdateRejected(r)
                  \/ SendUpdate(r) \/ TakeHint(r) \/ PauseEnds(r)
    PROVE  UNCHANGED Channel!vars
<1> USE DEF IInv, TypeOK, channels, closing, external, local
<1>1. UNCHANGED <<accepted, once, stop>>
  BY DEF BuildLiteral, BuildError, TimerFires, ResolveNow, SelectStop, Exit,
     SelectUpdate, SelectHint, SelectTimer, Drain, RebuildError, LookupSucceeds,
     LookupFails, UpdateRejected, SendUpdate, TakeHint, PauseEnds
<1>2. CASE watcher' = watcher
  BY <1>1, <1>2, Hidden DEF Sources
<1>3. ASSUME NEW r \in Resolvers,
             \/ LookupSucceeds(r) \/ LookupFails(r) \/ UpdateRejected(r)
             \/ SendUpdate(r) \/ TakeHint(r) \/ PauseEnds(r)
      PROVE  Sources' = Sources
  BY <1>3 DEF LookupSucceeds, LookupFails, UpdateRejected, SendUpdate,
     TakeHint, PauseEnds, Move, Sources
<1> QED
  BY <1>1, <1>2, <1>3, Hidden DEF BuildLiteral, BuildError, TimerFires,
     ResolveNow, SelectStop, Exit, SelectUpdate, SelectHint, SelectTimer,
     Drain, RebuildError

\* OneSourceAtATime (dns_refresh.go): for any number of resolvers and callers
\* of Close, every step of the goroutine, the watchers, the timer and gRPC is
\* a step of AddressSource or does not show to the channel.
THEOREM OneSourceTheorem == Spec => OneSourceAtATime
<1>1. Init => Channel!Init
  BY DEF Init, Channel!Init, Sources, Delivered, Life
<1>2. IInv /\ [Next]_vars => [Channel!Next]_(Channel!vars)
  <2> SUFFICES ASSUME IInv, [Next]_vars
               PROVE  Channel!Next \/ UNCHANGED Channel!vars
    OBVIOUS
  <2>1. CASE BuildRefreshing \/ Rebuild
    BY <2>1, BuildStarts
  <2>2. CASE \E r \in Resolvers : UpdateAccepted(r)
    BY <2>2, UpdateDelivers
  <2>3. CASE \E r \in Resolvers : WatcherExits(r)
    BY <2>3, ExitRetires
  <2>4. CASE \E c \in Closers : Close(c)
    BY <2>4, CloseCloses
  <2>5. CASE UNCHANGED vars
    <3>1. UNCHANGED <<Sources, accepted, once, stop>>
      BY <2>5 DEF vars, channels, closing, external, Sources
    <3> QED BY <3>1, Hidden
  <2> QED
    BY <2>1, <2>2, <2>3, <2>4, <2>5, OthersHidden
       DEF Next, Builder, Refresh, Watcher
<1> QED BY <1>1, <1>2, Inductive, PTL DEF Spec, OneSourceAtATime, Channel!Spec

===============================================================================
