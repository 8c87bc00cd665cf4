------------------------------ MODULE DNSRefresh ------------------------------
(***************************************************************************)
(* The periodic DNS resolver that Dial installs on a gRPC channel          *)
(* (dns_refresh.go).  One goroutine, refresh, selects over four channels:  *)
(* stop, updates, hints and the timer.  It owns one underlying gRPC DNS    *)
(* resolver, whose own goroutine (the watcher) calls back into UpdateState.*)
(* gRPC calls ResolveNow and Close from its goroutines.                    *)
(*                                                                         *)
(* Time is abstract: a timer that is armed may fire at any later moment.   *)
(* The watcher is gRPC code, modelled from how this file uses it: Build    *)
(* starts it, Close cancels it and waits for it to leave its callbacks.    *)
(***************************************************************************)

CONSTANTS
    Resolvers,  \* identities of underlying DNS resolvers, reused once closed
    Closers,    \* goroutines that may call Close
    None        \* the nil resolver

ASSUME NoneAssumption == None \notin Resolvers

VARIABLES
    pc,          \* where Build and then the refresh goroutine stand
    underlying,  \* the resolver the goroutine holds, or None
    updates,     \* the one-slot channel updates holds a token
    hints,       \* the one-slot channel hints holds a token
    timer,       \* "off", "armed" or "fired" (a value waits in timer.C)
    stop,        \* channel stop is closed
    done,        \* channel done is closed
    once,        \* state of the sync.Once: "new", "running" or "over"
    closer,      \* per goroutine, its progress through Close
    watcher,     \* per resolver, where its goroutine stands ("none": not running)
    rn,          \* per resolver, its one-slot ResolveNow channel holds a token
    cancelled,   \* resolvers whose Close has been called
    accepted     \* history: resolvers with an update the channel accepted

local    == <<pc, underlying, timer>>
channels == <<updates, hints, stop, done>>
closing  == <<once, closer>>
external == <<watcher, rn, cancelled, accepted>>
vars     == <<local, channels, closing, external>>

TypeOK ==
    /\ pc \in {"unbuilt", "literal", "failed", "select", "closing", "build",
               "exiting", "exited"}
    /\ underlying \in Resolvers \cup {None}
    /\ updates \in BOOLEAN /\ hints \in BOOLEAN
    /\ stop \in BOOLEAN /\ done \in BOOLEAN
    /\ timer \in {"off", "armed", "fired"}
    /\ once \in {"new", "running", "over"}
    /\ closer \in [Closers -> {"outside", "first", "blocked", "returned"}]
    /\ watcher \in [Resolvers ->
                      {"none", "lookup", "update", "notify", "idle", "pause"}]
    /\ rn \in [Resolvers -> BOOLEAN]
    /\ cancelled \subseteq Resolvers
    /\ accepted \subseteq Resolvers

Init ==
    /\ pc = "unbuilt" /\ underlying = None /\ timer = "off"
    /\ updates = FALSE /\ hints = FALSE /\ stop = FALSE /\ done = FALSE
    /\ once = "new" /\ closer = [c \in Closers |-> "outside"]
    /\ watcher = [r \in Resolvers |-> "none"]
    /\ rn = [r \in Resolvers |-> FALSE]
    /\ cancelled = {} /\ accepted = {}

-------------------------------------------------------------------------------
(***************************************************************************)
(* Calls on the underlying resolver.                                       *)
(***************************************************************************)

\* Builder.Build: a resolver starts its first lookup at once.
StartWatcher(r) ==
    /\ watcher[r] = "none"
    /\ watcher' = [watcher EXCEPT ![r] = "lookup"]
    /\ rn' = [rn EXCEPT ![r] = FALSE]
    /\ cancelled' = cancelled \ {r}
    /\ accepted' = accepted \ {r}
    /\ underlying' = r

\* "if underlying != nil { underlying.Close() }": Close cancels the watcher ...
CancelUnderlying == cancelled' = cancelled \cup ({underlying} \ {None})

\* ... and returns once the watcher has left its callbacks and ended.
UnderlyingClosed == underlying # None => watcher[underlying] = "none"

(***************************************************************************)
(* refreshingDNSBuilder.Build.                                             *)
(***************************************************************************)

\* A literal IP address gets the plain resolver and no refresh goroutine.
BuildLiteral ==
    /\ pc = "unbuilt" /\ pc' = "literal"
    /\ UNCHANGED <<underlying, timer, channels, closing, external>>

\* The first resolver is built and the goroutine started, its timer stopped.
BuildRefreshing ==
    /\ pc = "unbuilt" /\ pc' = "select"
    /\ \E r \in Resolvers : StartWatcher(r)
    /\ UNCHANGED <<timer, channels, closing>>

\* The underlying Build fails: Build returns the error, nothing was started.
BuildError ==
    /\ pc = "unbuilt" /\ pc' = "failed"
    /\ UNCHANGED <<underlying, timer, channels, closing, external>>

-------------------------------------------------------------------------------
(***************************************************************************)
(* The select loop of refresh.  When several cases are ready Go picks any. *)
(***************************************************************************)

\* case <-r.stop: the deferred calls stop the timer, close the resolver, ...
SelectStop ==
    /\ pc = "select" /\ stop
    /\ pc' = "exiting"
    /\ timer' = "off"
    /\ CancelUnderlying
    /\ UNCHANGED <<underlying, channels, closing, watcher, rn, accepted>>

\* Faulty variant: done is closed before the resolver has ended.
ExitWithoutWaiting ==
    /\ pc = "exiting" /\ pc' = "exited"
    /\ done' = TRUE
    /\ UNCHANGED <<underlying, timer, updates, hints, stop, closing, external>>

\* Faulty variant: done is never closed.
ExitSilently ==
    /\ pc = "exiting" /\ UnderlyingClosed
    /\ pc' = "exited"
    /\ UNCHANGED <<underlying, timer, channels, closing, external>>

\* ... wait for it, and close done.
Exit ==
    /\ pc = "exiting" /\ UnderlyingClosed
    /\ pc' = "exited"
    /\ done' = TRUE
    /\ UNCHANGED <<underlying, timer, updates, hints, stop, closing, external>>

\* case <-r.updates: an accepted update (re)arms the timer.
SelectUpdate ==
    /\ pc = "select" /\ updates
    /\ updates' = FALSE
    /\ timer' = "armed"
    /\ UNCHANGED <<pc, underlying, hints, stop, done, closing, external>>

\* case <-r.hints: forward the hint; a full rn channel drops it.
SelectHint ==
    /\ pc = "select" /\ hints
    /\ hints' = FALSE
    /\ rn' = [r \in Resolvers |-> rn[r] \/ r = underlying]
    /\ UNCHANGED <<local, updates, stop, done, closing, watcher, cancelled, accepted>>

\* Faulty variant: a resolver that is up is kept and the timer runs again.
SelectTimerRearms ==
    /\ pc = "select" /\ timer = "fired"
    /\ timer' = "armed"
    /\ UNCHANGED <<pc, underlying, channels, closing, external>>

\* case <-timer.C: close the resolver ...
SelectTimer ==
    /\ pc = "select" /\ timer = "fired"
    /\ pc' = "closing"
    /\ timer' = "off"
    /\ CancelUnderlying
    /\ UNCHANGED <<underlying, channels, closing, watcher, rn, accepted>>

\* Faulty variant: the old resolver is not waited for.
DrainWithoutWaiting ==
    /\ pc = "closing" /\ pc' = "build"
    /\ updates' = FALSE
    /\ UNCHANGED <<underlying, timer, hints, stop, done, closing, external>>

\* Faulty variant: the raced update stays in the channel.
DrainNothing ==
    /\ pc = "closing" /\ UnderlyingClosed
    /\ pc' = "build"
    /\ UNCHANGED <<underlying, timer, channels, closing, external>>

\* ... then discard an update that raced with the timer ...
Drain ==
    /\ pc = "closing" /\ UnderlyingClosed
    /\ pc' = "build"
    /\ updates' = FALSE
    /\ UNCHANGED <<underlying, timer, hints, stop, done, closing, external>>

\* ... and start a fresh resolver.
Rebuild ==
    /\ pc = "build" /\ pc' = "select"
    /\ \E r \in Resolvers : StartWatcher(r)
    /\ UNCHANGED <<timer, channels, closing>>

\* Faulty variant: the timer is not reset after a failed Build.
RebuildErrorUnscheduled ==
    /\ pc = "build" /\ pc' = "select"
    /\ underlying' = None
    /\ UNCHANGED <<timer, channels, closing, external>>

\* A failed Build leaves no resolver; the timer schedules the next try.
RebuildError ==
    /\ pc = "build" /\ pc' = "select"
    /\ underlying' = None
    /\ timer' = "armed"
    /\ UNCHANGED <<channels, closing, external>>

\* The interval elapses.
TimerFires ==
    /\ timer = "armed" /\ timer' = "fired"
    /\ UNCHANGED <<pc, underlying, channels, closing, external>>

-------------------------------------------------------------------------------
(***************************************************************************)
(* The watcher goroutine of resolver r, up to its callbacks (gRPC code).   *)
(***************************************************************************)

Move(r, from, to) ==
    /\ watcher[r] = from
    /\ watcher' = [watcher EXCEPT ![r] = to]

\* A lookup ends with addresses: the watcher calls UpdateState.
LookupSucceeds(r) ==
    /\ Move(r, "lookup", "update")
    /\ UNCHANGED <<local, channels, closing, rn, cancelled, accepted>>

\* A lookup fails: ReportError goes straight to the channel, then a backoff.
LookupFails(r) ==
    /\ Move(r, "lookup", "pause")
    /\ UNCHANGED <<local, channels, closing, rn, cancelled, accepted>>

\* UpdateState: the channel accepts the addresses ...
UpdateAccepted(r) ==
    /\ Move(r, "update", "notify")
    /\ accepted' = accepted \cup {r}
    /\ UNCHANGED <<local, channels, closing, rn, cancelled>>

\* ... or refuses them, and the watcher backs off.
UpdateRejected(r) ==
    /\ Move(r, "update", "pause")
    /\ UNCHANGED <<local, channels, closing, rn, cancelled, accepted>>

\* After an accepted update UpdateState leaves a token, unless one is there.
SendUpdate(r) ==
    /\ Move(r, "notify", "idle")
    /\ updates' = TRUE
    /\ UNCHANGED <<local, hints, stop, done, closing, rn, cancelled, accepted>>

\* A ResolveNow token ends the rest after a successful lookup.
TakeHint(r) ==
    /\ rn[r] /\ Move(r, "idle", "pause")
    /\ rn' = [rn EXCEPT ![r] = FALSE]
    /\ UNCHANGED <<local, channels, closing, cancelled, accepted>>

\* The minimum resolution interval, or the backoff, has passed.
PauseEnds(r) ==
    /\ Move(r, "pause", "lookup")
    /\ UNCHANGED <<local, channels, closing, rn, cancelled, accepted>>

\* A cancelled watcher ends when it next waits.
WatcherExits(r) ==
    /\ r \in cancelled
    /\ Move(r, "idle", "none") \/ Move(r, "pause", "none")
    /\ UNCHANGED <<local, channels, closing, rn, cancelled, accepted>>

-------------------------------------------------------------------------------
(***************************************************************************)
(* Calls made by gRPC.                                                     *)
(***************************************************************************)

Running == pc \notin {"unbuilt", "literal", "failed"}

\* ResolveNow leaves a token and never blocks.
ResolveNow ==
    /\ Running /\ ~hints
    /\ hints' = TRUE
    /\ UNCHANGED <<local, updates, stop, done, closing, external>>

\* Close: the first caller runs the body of the Once ...
CloseFirst(c) ==
    /\ Running /\ closer[c] = "outside" /\ once = "new"
    /\ once' = "running"
    /\ stop' = TRUE
    /\ closer' = [closer EXCEPT ![c] = "first"]
    /\ UNCHANGED <<local, updates, hints, done, external>>

\* ... and waits for done; ...
CloseDone(c) ==
    /\ closer[c] = "first" /\ done
    /\ once' = "over"
    /\ closer' = [closer EXCEPT ![c] = "returned"]
    /\ UNCHANGED <<local, channels, external>>

\* ... another caller enters while the body runs ...
CloseAgain(c) ==
    /\ Running /\ closer[c] = "outside" /\ once # "new"
    /\ closer' = [closer EXCEPT ![c] = "blocked"]
    /\ UNCHANGED <<local, channels, once, external>>

\* ... and returns once it has run to its end.
CloseUnblocked(c) ==
    /\ closer[c] = "blocked" /\ once = "over"
    /\ closer' = [closer EXCEPT ![c] = "returned"]
    /\ UNCHANGED <<local, channels, once, external>>

Builder == BuildLiteral \/ BuildRefreshing \/ BuildError

Refresh ==
    \/ SelectStop \/ Exit \/ SelectUpdate \/ SelectHint
    \/ SelectTimer \/ Drain \/ Rebuild \/ RebuildError

Watcher(r) ==
    \/ LookupSucceeds(r) \/ LookupFails(r)
    \/ UpdateAccepted(r) \/ UpdateRejected(r) \/ SendUpdate(r)
    \/ TakeHint(r) \/ PauseEnds(r) \/ WatcherExits(r)

Close(c) == CloseFirst(c) \/ CloseDone(c) \/ CloseAgain(c) \/ CloseUnblocked(c)

Next ==
    \/ Builder \/ Refresh \/ TimerFires
    \/ \E r \in Resolvers : Watcher(r)
    \/ ResolveNow
    \/ \E c \in Closers : Close(c)

Spec == Init /\ [][Next]_vars

(***************************************************************************)
(* Timers fire, calls return and goroutines run.  A case of a select that  *)
(* is ready again and again is taken eventually, because Go draws the case *)
(* at random: that is strong fairness for stop, and for the cancellation   *)
(* of a watcher.  Nothing is assumed of DNS answers or of gRPC's calls.    *)
(***************************************************************************)
Fairness ==
    /\ WF_vars(TimerFires)
    /\ WF_vars(Refresh) /\ SF_vars(SelectStop) /\ SF_vars(SelectTimer)
    /\ \A r \in Resolvers : WF_vars(Watcher(r)) /\ SF_vars(WatcherExits(r))
    /\ \A c \in Closers : WF_vars(CloseDone(c)) /\ WF_vars(CloseUnblocked(c))

FairSpec == Spec /\ Fairness

-------------------------------------------------------------------------------
(***************************************************************************)
(* Correctness.                                                            *)
(***************************************************************************)

\* At most one underlying resolver runs, and it is the one the goroutine
\* holds: a scheduled refresh never leaves an old resolver behind that could
\* push stale addresses into the channel (refresh closes before it builds).
SoleResolver == \A r \in Resolvers : watcher[r] # "none" => r = underlying

\* Once any call of Close has returned, no resolver runs, so no callback can
\* reach the channel any more, and the goroutine is gone with its timer off.
CloseIsFinal ==
    (\E c \in Closers : closer[c] = "returned") =>
        /\ \A r \in Resolvers : watcher[r] = "none"
        /\ pc = "exited" /\ timer = "off"

\* The refresh timer never runs, and no token that would arm it is pending,
\* against a resolver whose first lookup has not been accepted yet: only its
\* own accepted update arms the refresh that closes a resolver.
FirstLookupKept ==
    pc = "select" /\ underlying # None /\ (timer # "off" \/ updates) =>
        underlying \in accepted

\* A refresh is always on its way: after an accepted update, and after a
\* failed Build, the timer runs or a token that arms it is pending.
RefreshScheduled ==
    pc = "select" =>
        /\ underlying = None => timer # "off"
        /\ underlying \in accepted =>
               timer # "off" \/ updates \/ watcher[underlying] = "notify"

\* The resolver as the channel sees it: a resolver may deliver while its
\* watcher runs, and Close has returned when its Once is over.
Sources == {r \in Resolvers : watcher[r] # "none"}

Delivered == accepted \cap Sources

Life == IF once = "over" THEN "closed" ELSE IF stop THEN "closing" ELSE "open"

Channel == INSTANCE AddressSource
              WITH life <- Life, sources <- Sources, delivered <- Delivered

\* Goroutine, watchers, channels and timer together are an AddressSource: one
\* resolver delivers at a time, a refresh replaces none that has not delivered
\* yet, and nothing is delivered after Close, however UpdateState, ResolveNow,
\* Close and the timer race.
OneSourceAtATime == Channel!Spec

\* Every call of Close returns.
CloseReturns ==
    \A c \in Closers :
        closer[c] \in {"first", "blocked"} ~> closer[c] = "returned"

\* The channel never rests on old addresses for ever: a goroutine whose
\* resolver is idle, or that has none, moves on to another lookup or exits.
Resting == pc = "select" /\ (underlying # None => watcher[underlying] = "idle")

AddressesRefreshed == Resting ~> ~Resting

\* What the comment in refresh says, "Failed or slow lookups keep their
\* original resolver and backoff": the timer closes no resolver that is in
\* the middle of a lookup.
LookupNotInterrupted ==
    [][pc = "select" /\ pc' = "closing" /\ underlying # None =>
           watcher[underlying] # "lookup"]_vars

===============================================================================
