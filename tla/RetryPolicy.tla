------------------------------ MODULE RetryPolicy ------------------------------
(***************************************************************************)
(* RetryPolicy of client.go: its defaults and checks, and the arithmetic   *)
(* of the backoff.                                                         *)
(*                                                                         *)
(* Durations are integers (nanoseconds).  The two float64 fields count in  *)
(* units of 1/Scale, so that Scale stands for 1.0, or are NaN.  Rounding   *)
(* of float64 is left out; the truncation to a Duration is not.            *)
(***************************************************************************)
EXTENDS Integers

CONSTANTS
    Scale,              \* the number that stands for 1.0
    NaN,                \* the float64 that is no number
    MaxDuration,        \* stands for the largest int64
    DefaultAttempts,    \* defaultReadAttempts
    DefaultBackoff,     \* defaultReadBackoff
    DefaultMaxBackoff,  \* defaultMaxBackoff
    DefaultMultiplier,  \* defaultMultiplier
    DefaultJitter,      \* defaultRetryJitter
    Policies            \* the policies that callers pass

RetryPolicies ==
    [MaxAttempts : Int, InitialBackoff : Int, MaxBackoff : Int,
     Multiplier : Int \cup {NaN}, Jitter : Int \cup {NaN}]

\* As the constants of client.go are: positive and themselves acceptable.
ASSUME DefaultsAssumption ==
    /\ Scale \in Nat \ {0} /\ MaxDuration \in Nat
    /\ DefaultAttempts \in Nat \ {0}
    /\ DefaultBackoff \in Nat \ {0}
    /\ DefaultMaxBackoff \in Nat /\ DefaultMaxBackoff >= DefaultBackoff
    /\ DefaultMultiplier \in Nat /\ DefaultMultiplier >= Scale
    /\ DefaultJitter \in 1 .. Scale

ASSUME PoliciesAssumption == NaN \notin Int /\ Policies \subseteq RetryPolicies

-------------------------------------------------------------------------------

\* The zero value of RetryPolicy.
ZeroPolicy == [MaxAttempts |-> 0, InitialBackoff |-> 0, MaxBackoff |-> 0,
               Multiplier |-> 0, Jitter |-> 0]

\* x < y and x > y of float64: false when x is NaN.
Less(x, y) == x # NaN /\ x < y

Greater(x, y) == x # NaN /\ x > y

OrDefault(x, default) == IF x = 0 THEN default ELSE x

\* normalizeRetryPolicy: the zero fields get their defaults ...
WithDefaults(p) ==
    [MaxAttempts    |-> OrDefault(p.MaxAttempts, DefaultAttempts),
     InitialBackoff |-> OrDefault(p.InitialBackoff, DefaultBackoff),
     MaxBackoff     |-> OrDefault(p.MaxBackoff, DefaultMaxBackoff),
     Multiplier     |-> OrDefault(p.Multiplier, DefaultMultiplier),
     Jitter         |-> OrDefault(p.Jitter, DefaultJitter)]

\* ... and a policy is refused for a negative field or a jitter above one as it
\* was given, and for a cap below the start or a multiplier below one as it is
\* with the defaults.
Accepted(p) ==
    /\ p.MaxAttempts >= 0 /\ p.InitialBackoff >= 0 /\ p.MaxBackoff >= 0
    /\ ~Less(p.Multiplier, 0)
    /\ ~Less(p.Jitter, 0) /\ ~Greater(p.Jitter, Scale)
    /\ WithDefaults(p).MaxBackoff >= WithDefaults(p).InitialBackoff
    /\ ~Less(WithDefaults(p).Multiplier, Scale)

\* time.Duration(NaN) depends on the machine: the smallest int64 on amd64, zero
\* on arm64.
NaNDurations == {-MaxDuration - 1, 0}

\* Faulty variant: the growth is taken for the new backoff.
NextBackoffsGrowthOnly(current, p) ==
    IF current >= p.MaxBackoff THEN {p.MaxBackoff}
    ELSE IF p.Multiplier = NaN THEN NaNDurations
    ELSE {(current * (p.Multiplier - Scale)) \div Scale}

\* nextBackoff, as the set of its possible results.  The code divides MaxBackoff
\* by current to compare; current is positive wherever the multiplier is a number.
NextBackoffs(current, p) ==
    IF current >= p.MaxBackoff THEN {p.MaxBackoff}
    ELSE IF p.Multiplier = NaN THEN NaNDurations
    ELSE IF current * p.Multiplier >= p.MaxBackoff * Scale THEN {p.MaxBackoff}
    ELSE {(current * p.Multiplier) \div Scale}

\* Faulty variant: the whole spread comes on top of the backoff.
JitterOnTop(backoff, jitter) ==
    IF backoff <= 1 THEN {backoff}
    ELSE IF jitter = NaN THEN NaNDurations
    ELSE backoff .. (backoff * (Scale + 2 * jitter) - 1) \div Scale

\* jitteredBackoff: minimum + rand * spread with rand in [0,1), truncated.
JitteredBackoffs(backoff, jitter) ==
    IF backoff <= 1 THEN {backoff}
    ELSE IF jitter = NaN THEN NaNDurations
    ELSE IF jitter <= 0 THEN {backoff}
    ELSE (backoff * (Scale - jitter)) \div Scale
            .. (backoff * (Scale + jitter) - 1) \div Scale

================================================================================
