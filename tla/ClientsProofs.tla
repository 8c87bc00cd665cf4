----------------------------- MODULE ClientsProofs -----------------------------
(***************************************************************************)
(* The invariants of RetryBackoff, proved for every policy, every default  *)
(* that is itself acceptable, and any number of attempts; and those of     *)
(* ClientLifecycle, for any number of clients and connections and any      *)
(* options.  Both rest on what normalizeRetryPolicy returns.               *)
(***************************************************************************)
EXTENDS ClientLifecycle, RetryBackoff, TLAPS

\* What normalizeRetryPolicy guarantees of the policy it returns.
PolicyInv ==
    /\ policy.InitialBackoff <= policy.MaxBackoff
    /\ policy.Multiplier # NaN => policy.Multiplier >= Scale
    /\ policy.Jitter # NaN => policy.Jitter \in 1 .. Scale

\* The attempt being made, and the one that follows a wait, are within budget.
AttemptInv ==
    /\ pc \in {"new", "refused"} => attempt = 0
    /\ InCall => attempt >= 1
    /\ pc = "wait" => attempt < policy.MaxAttempts

\* One delay is at most the cap plus its jitter.
DelayInv ==
    pc = "wait" /\ Numeric =>
        delay * Scale <= policy.MaxBackoff * (Scale + policy.Jitter)

IInv == TypeOK /\ PolicyInv /\ AttemptInv /\ BackoffBounded /\ DelayInv /\ WaitBounded

-------------------------------------------------------------------------------

\* The integer division of the model, which truncates like time.Duration.
LEMMA DivisionBounds ==
    ASSUME NEW a \in Int, NEW s \in Nat \ {0}
    PROVE  a \div s \in Int /\ (a \div s) * s <= a /\ a < (a \div s) * s + s
  BY SMT

\* A factor may be cancelled, or multiplied in.
LEMMA Cancel ==
    ASSUME NEW a \in Int, NEW b \in Int, NEW s \in Nat \ {0}
    PROVE  (a * s < b * s => a < b) /\ (a <= b => a * s <= b * s)
  BY SMT

\* A sum of delays grows with the number of attempts.
LEMMA OneMoreWait ==
    ASSUME NEW w \in Int, NEW d \in Int, NEW n \in Int, NEW m \in Int, NEW s \in Int,
           w * s <= (n - 1) * m, d * s <= m
    PROVE  (w + d) * s <= (n + 1 - 1) * m
<1>1. (w + d) * s = w * s + d * s /\ (n + 1 - 1) * m = (n - 1) * m + m
  BY SMT
<1>2. w * s \in Int /\ d * s \in Int /\ (n - 1) * m \in Int
  OBVIOUS
<1> QED BY <1>1, <1>2

\* normalizeRetryPolicy returns a policy with positive fields, a cap that is no
\* lower than the start, a multiplier of at least one and a jitter of at most
\* one, unless these are NaN.
LEMMA NormalizedPolicy ==
    ASSUME NEW p \in RetryPolicies, Accepted(p), NEW q, q = WithDefaults(p)
    PROVE  /\ q \in RetryPolicies
           /\ q.MaxAttempts \in Nat \ {0}
           /\ q.InitialBackoff \in Nat \ {0} /\ q.MaxBackoff \in Nat \ {0}
           /\ q.InitialBackoff <= q.MaxBackoff
           /\ q.Multiplier # NaN => q.Multiplier >= Scale
           /\ q.Jitter # NaN => q.Jitter \in 1 .. Scale
<1>1. /\ p.MaxAttempts \in Int /\ p.InitialBackoff \in Int /\ p.MaxBackoff \in Int
      /\ p.Multiplier \in Int \cup {NaN} /\ p.Jitter \in Int \cup {NaN}
  BY DEF RetryPolicies
<1>2. q = [MaxAttempts |-> q.MaxAttempts, InitialBackoff |-> q.InitialBackoff,
           MaxBackoff |-> q.MaxBackoff, Multiplier |-> q.Multiplier, Jitter |-> q.Jitter]
  BY DEF WithDefaults
<1>3. q.MaxAttempts \in Nat \ {0}
  BY <1>1, DefaultsAssumption DEF WithDefaults, OrDefault, Accepted
<1>4. q.InitialBackoff \in Nat \ {0} /\ q.MaxBackoff \in Nat \ {0}
  BY <1>1, DefaultsAssumption DEF WithDefaults, OrDefault, Accepted
<1>5. /\ q.Multiplier \in Int \cup {NaN}
      /\ q.Multiplier # NaN => q.Multiplier >= Scale
  BY <1>1, DefaultsAssumption, PoliciesAssumption
  DEF WithDefaults, OrDefault, Accepted, Less
<1>6. /\ q.Jitter \in Int \cup {NaN}
      /\ q.Jitter # NaN => q.Jitter \in 1 .. Scale
  BY <1>1, DefaultsAssumption, PoliciesAssumption
  DEF WithDefaults, OrDefault, Accepted, Less, Greater
<1>7. q.InitialBackoff <= q.MaxBackoff
  BY <1>4 DEF Accepted
<1>8. q.MaxAttempts \in Int /\ q.InitialBackoff \in Int /\ q.MaxBackoff \in Int
  BY <1>3, <1>4
<1>9. q \in RetryPolicies
  BY <1>2, <1>5, <1>6, <1>8, Zenon DEF RetryPolicies
<1> QED BY <1>3, <1>4, <1>5, <1>6, <1>7, <1>9

\* A policy with the properties of a normalised one passes the checks of
\* normalizeRetryPolicy again and keeps its fields.
LEMMA FixedPoint ==
    ASSUME NEW q \in RetryPolicies,
           q.MaxAttempts \in Nat \ {0},
           q.InitialBackoff \in Nat \ {0}, q.MaxBackoff \in Nat \ {0},
           q.InitialBackoff <= q.MaxBackoff,
           q.Multiplier # NaN => q.Multiplier >= Scale,
           q.Jitter # NaN => q.Jitter \in 1 .. Scale
    PROVE  Accepted(q) /\ WithDefaults(q) = q
<1>1. /\ q.Multiplier \in Int \cup {NaN} /\ q.Jitter \in Int \cup {NaN}
      /\ Scale \in Nat \ {0}
  BY DefaultsAssumption DEF RetryPolicies
<1>2. q.Multiplier # 0 /\ q.Jitter # 0
  BY <1>1, PoliciesAssumption
<1>3. WithDefaults(q) =
        [MaxAttempts |-> q.MaxAttempts, InitialBackoff |-> q.InitialBackoff,
         MaxBackoff |-> q.MaxBackoff, Multiplier |-> q.Multiplier, Jitter |-> q.Jitter]
  BY <1>2 DEF WithDefaults, OrDefault
<1>4. q = [MaxAttempts |-> q.MaxAttempts, InitialBackoff |-> q.InitialBackoff,
           MaxBackoff |-> q.MaxBackoff, Multiplier |-> q.Multiplier, Jitter |-> q.Jitter]
  BY DEF RetryPolicies
<1>5. WithDefaults(q) = q
  BY <1>3, <1>4
<1>6. Accepted(q)
  BY <1>1, <1>5 DEF Accepted, Less, Greater
<1> QED BY <1>5, <1>6

\* The zero policy stands for the defaults and is accepted.
LEMMA ZeroAccepted == ZeroPolicy \in RetryPolicies /\ Accepted(ZeroPolicy)
  BY DefaultsAssumption, PoliciesAssumption
  DEF ZeroPolicy, RetryPolicies, Accepted, WithDefaults, OrDefault, Less, Greater

\* nextBackoff neither shrinks the backoff nor exceeds the cap, truncation
\* included.
LEMMA NextBackoffRange ==
    ASSUME NEW p \in RetryPolicies, NEW current \in Nat \ {0},
           p.MaxBackoff \in Nat, current <= p.MaxBackoff,
           p.Multiplier # NaN, p.Multiplier >= Scale,
           NEW next \in NextBackoffs(current, p)
    PROVE  next \in Int /\ current <= next /\ next <= p.MaxBackoff
<1> DEFINE m == p.Multiplier
<1>1. m \in Int /\ p.MaxBackoff \in Int /\ Scale \in Nat \ {0}
  BY DefaultsAssumption DEF RetryPolicies
<1>2. CASE current >= p.MaxBackoff \/ current * m >= p.MaxBackoff * Scale
  BY <1>1, <1>2 DEF NextBackoffs
<1>3. CASE current < p.MaxBackoff /\ current * m < p.MaxBackoff * Scale
  <2>1. next = (current * m) \div Scale
    BY <1>1, <1>3 DEF NextBackoffs
  <2>2. current * m \in Int
    BY <1>1
  <2>3. next \in Int /\ next * Scale <= current * m /\ current * m < next * Scale + Scale
    BY <1>1, <2>1, <2>2, DivisionBounds
  <2>4. current * Scale <= current * m
    BY <1>1, SMT
  <2>5. current * Scale < (next + 1) * Scale
    BY <1>1, <2>2, <2>3, <2>4, SMT
  <2>6. current < next + 1
    BY <1>1, <2>3, <2>5, Cancel
  <2>7. next * Scale < p.MaxBackoff * Scale
    BY <1>1, <1>3, <2>2, <2>3, SMT
  <2>8. next < p.MaxBackoff
    BY <1>1, <2>3, <2>7, Cancel
  <2> QED BY <1>1, <2>3, <2>6, <2>8
<1> QED BY <1>1, <1>2, <1>3, SMT

\* jitteredBackoff exceeds the backoff by its jitter at most.
LEMMA JitterRange ==
    ASSUME NEW b \in Nat, NEW max \in Nat, b <= max, NEW j \in 1 .. Scale,
           NEW d \in JitteredBackoffs(b, j)
    PROVE  d \in Int /\ d * Scale <= max * (Scale + j)
<1>1. Scale \in Nat \ {0} /\ j \in Int /\ j # NaN
  BY DefaultsAssumption, PoliciesAssumption
<1>2. b * (Scale + j) <= max * (Scale + j)
  BY <1>1, Cancel
<1>3. CASE b <= 1
  <2>1. d = b
    BY <1>3 DEF JitteredBackoffs
  <2>2. b * Scale <= b * (Scale + j)
    BY <1>1, SMT
  <2> QED BY <1>1, <1>2, <2>1, <2>2, SMT
<1>4. CASE b > 1
  <2> DEFINE top == b * (Scale + j) - 1
  <2>1. d \in (b * (Scale - j)) \div Scale .. top \div Scale
    BY <1>1, <1>4 DEF JitteredBackoffs
  <2>2. top \in Int /\ b * (Scale - j) \in Int
    BY <1>1
  <2>3. /\ top \div Scale \in Int /\ (top \div Scale) * Scale <= top
        /\ (b * (Scale - j)) \div Scale \in Int
    BY <1>1, <2>2, DivisionBounds
  <2>4. d \in Int /\ d <= top \div Scale
    BY <2>1, <2>3
  <2>5. d * Scale <= (top \div Scale) * Scale
    BY <1>1, <2>3, <2>4, Cancel
  <2>6. d * Scale \in Int /\ max * (Scale + j) \in Int /\ b * (Scale + j) \in Int
    BY <1>1, <2>4
  <2> HIDE DEF top
  <2>7. (top \div Scale) * Scale \in Int
    BY <1>1, <2>3
  <2>8. top < b * (Scale + j)
    BY <2>6 DEF top
  <2> QED BY <1>2, <2>2, <2>3, <2>4, <2>5, <2>6, <2>7, <2>8
<1> QED BY <1>3, <1>4

-------------------------------------------------------------------------------

LEMMA InitIInv == Init => IInv
<1> SUFFICES ASSUME Init PROVE IInv
  OBVIOUS
<1>1. /\ policy \in RetryPolicies
      /\ policy.MaxAttempts \in Nat \ {0}
      /\ policy.InitialBackoff \in Nat \ {0} /\ policy.MaxBackoff \in Nat \ {0}
      /\ PolicyInv
  BY ZeroAccepted, NormalizedPolicy DEF Init, PolicyInv
<1>2. TypeOK
  BY <1>1 DEF Init, TypeOK
<1> QED BY <1>1, <1>2
  DEF Init, IInv, AttemptInv, BackoffBounded, DelayInv, WaitBounded, InCall

LEMMA ConfigureIInv == IInv /\ Configure => IInv'
<1> SUFFICES ASSUME IInv, Configure PROVE IInv'
  OBVIOUS
<1>1. PICK p \in Policies : Accepted(p) /\ policy' = WithDefaults(p)
  BY DEF Configure
<1>2. p \in RetryPolicies
  BY <1>1, PoliciesAssumption
<1>3. /\ policy' \in RetryPolicies
      /\ policy'.MaxAttempts \in Nat \ {0}
      /\ policy'.InitialBackoff \in Nat \ {0} /\ policy'.MaxBackoff \in Nat \ {0}
      /\ PolicyInv'
  BY <1>1, <1>2, NormalizedPolicy DEF PolicyInv
<1>4. attempt' = 0 /\ pc' = "ready"
  BY DEF Configure, IInv, AttemptInv
<1>5. backoff' \in Int /\ delay' \in Int /\ waited' \in Nat
  BY DEF Configure, IInv, TypeOK
<1>6. TypeOK'
  BY <1>3, <1>4, <1>5 DEF TypeOK
<1> QED BY <1>3, <1>4, <1>6
  DEF IInv, AttemptInv, BackoffBounded, DelayInv, WaitBounded, InCall

LEMMA BeginIInv == IInv /\ Begin => IInv'
<1> SUFFICES ASSUME IInv, Begin PROVE IInv'
  OBVIOUS
<1>1. /\ policy' = policy /\ attempt' = 1 /\ waited' = 0 /\ delay' = 0
      /\ backoff' = policy.InitialBackoff /\ pc' = "attempt"
  BY DEF Begin
<1>2. TypeOK'
  BY <1>1 DEF IInv, TypeOK
<1>3. PolicyInv' /\ AttemptInv' /\ BackoffBounded' /\ DelayInv'
  BY <1>1 DEF IInv, TypeOK, PolicyInv, AttemptInv, BackoffBounded, DelayInv, InCall, Numeric
<1>4. WaitBounded'
  <2> SUFFICES ASSUME Numeric' PROVE waited' * Scale <=
                 (attempt' - 1) * (policy'.MaxBackoff * (Scale + policy'.Jitter))
    BY DEF WaitBounded
  <2> DEFINE most == policy'.MaxBackoff * (Scale + policy'.Jitter)
  <2>1. most \in Int
    BY <1>1, <1>3, DefaultsAssumption DEF IInv, TypeOK, PolicyInv, Numeric
  <2> HIDE DEF most
  <2>2. waited' * Scale <= (attempt' - 1) * most
    BY <1>1, <2>1, DefaultsAssumption
  <2> QED BY <2>2 DEF most
<1> QED BY <1>2, <1>3, <1>4 DEF IInv

LEMMA RetryIInv == IInv /\ Retry => IInv'
<1> SUFFICES ASSUME IInv, Retry PROVE IInv'
  OBVIOUS
<1>1. /\ policy' = policy /\ attempt' = attempt /\ waited' = waited
      /\ backoff' = backoff /\ pc = "attempt" /\ pc' = "wait"
      /\ attempt < policy.MaxAttempts
      /\ delay' \in JitteredBackoffs(backoff, policy.Jitter)
  BY DEF Retry
<1>2. delay' \in Int
  <2>1. CASE backoff <= 1 \/ policy.Jitter = NaN
    BY <1>1, <2>1, DefaultsAssumption
    DEF JitteredBackoffs, NaNDurations, IInv, TypeOK
  <2>2. CASE ~(backoff <= 1 \/ policy.Jitter = NaN)
    <3> DEFINE low == (backoff * (Scale - policy.Jitter)) \div Scale
               high == (backoff * (Scale + policy.Jitter) - 1) \div Scale
    <3>1. backoff \in Int /\ policy.Jitter \in 1 .. Scale /\ Scale \in Nat \ {0}
      BY <2>2, DefaultsAssumption DEF IInv, TypeOK, PolicyInv
    <3>2. low \in Int /\ high \in Int
      BY <3>1, DivisionBounds
    <3>3. delay' \in low .. high
      BY <1>1, <2>2, <3>1 DEF JitteredBackoffs
    <3> QED BY <3>2, <3>3
  <2> QED BY <2>1, <2>2
<1>3. TypeOK'
  BY <1>1, <1>2 DEF IInv, TypeOK
<1>4. PolicyInv' /\ AttemptInv' /\ BackoffBounded' /\ WaitBounded'
  BY <1>1 DEF IInv, PolicyInv, AttemptInv, BackoffBounded, WaitBounded, InCall, Numeric
<1>5. DelayInv'
  <2> SUFFICES ASSUME Numeric'
               PROVE delay' * Scale <= policy'.MaxBackoff * (Scale + policy'.Jitter)
    BY DEF DelayInv
  <2>1. /\ backoff \in Nat /\ policy.MaxBackoff \in Nat /\ backoff <= policy.MaxBackoff
        /\ policy.Jitter \in 1 .. Scale
    BY <1>1 DEF IInv, TypeOK, PolicyInv, BackoffBounded, Numeric, InCall
  <2> QED BY <1>1, <2>1, JitterRange
<1> QED BY <1>3, <1>4, <1>5 DEF IInv

LEMMA ElapseIInv == IInv /\ Elapse => IInv'
<1> SUFFICES ASSUME IInv, Elapse PROVE IInv'
  OBVIOUS
<1>1. /\ policy' = policy /\ attempt' = attempt + 1 /\ delay' = delay
      /\ backoff' \in NextBackoffs(backoff, policy)
      /\ pc = "wait" /\ pc' = "attempt"
      /\ waited' = waited + (IF delay > 0 THEN delay ELSE 0)
  BY DEF Elapse
<1>2. /\ attempt \in Nat \ {0} /\ attempt < policy.MaxAttempts
      /\ policy.MaxAttempts \in Nat /\ Scale \in Nat \ {0}
      /\ delay \in Int /\ waited \in Nat
  BY <1>1, DefaultsAssumption DEF IInv, TypeOK, AttemptInv, InCall
<1>3. Numeric => /\ backoff' \in Int
                 /\ policy.InitialBackoff <= backoff'
                 /\ backoff' <= policy.MaxBackoff
  <2> SUFFICES ASSUME Numeric
               PROVE  /\ backoff' \in Int
                      /\ policy.InitialBackoff <= backoff'
                      /\ backoff' <= policy.MaxBackoff
    OBVIOUS
  <2>1. /\ policy \in RetryPolicies /\ policy.MaxBackoff \in Nat
        /\ policy.InitialBackoff \in Nat \ {0}
        /\ backoff \in Int /\ policy.InitialBackoff <= backoff
        /\ backoff <= policy.MaxBackoff
        /\ policy.Multiplier # NaN /\ policy.Multiplier >= Scale
    BY <1>1 DEF IInv, TypeOK, PolicyInv, BackoffBounded, Numeric, InCall
  <2>2. backoff \in Nat \ {0}
    BY <2>1
  <2>3. backoff' \in Int /\ backoff <= backoff' /\ backoff' <= policy.MaxBackoff
    BY <1>1, <2>1, <2>2, NextBackoffRange
  <2> QED BY <2>1, <2>3
<1>4. backoff' \in Int
  <2>1. policy.MaxBackoff \in Int /\ backoff \in Int /\ MaxDuration \in Nat
    BY DefaultsAssumption DEF IInv, TypeOK
  <2>2. CASE policy.Multiplier = NaN
    BY <1>1, <2>1, <2>2 DEF NextBackoffs, NaNDurations
  <2>3. CASE policy.Multiplier # NaN
    <3>1. policy.Multiplier \in Int
      BY <2>3 DEF IInv, TypeOK, RetryPolicies
    <3>2. backoff * policy.Multiplier \in Int
      BY <2>1, <3>1
    <3>3. (backoff * policy.Multiplier) \div Scale \in Int
      BY <1>2, <3>2, DivisionBounds
    <3> QED BY <1>1, <2>1, <2>3, <3>3 DEF NextBackoffs
  <2> QED BY <2>2, <2>3
<1>5. TypeOK'
  BY <1>1, <1>2, <1>4 DEF IInv, TypeOK
<1>6. PolicyInv' /\ AttemptInv' /\ DelayInv'
  BY <1>1, <1>2 DEF IInv, PolicyInv, AttemptInv, DelayInv, InCall
<1>7. BackoffBounded'
  BY <1>1, <1>3 DEF BackoffBounded, Numeric
<1>8. WaitBounded'
  <2> SUFFICES ASSUME Numeric PROVE waited' * Scale <=
                 (attempt' - 1) * (policy.MaxBackoff * (Scale + policy.Jitter))
    BY <1>1 DEF WaitBounded, Numeric
  <2> DEFINE most == policy.MaxBackoff * (Scale + policy.Jitter)
             slept == IF delay > 0 THEN delay ELSE 0
  <2>1. most \in Nat
    BY <1>2 DEF IInv, TypeOK, PolicyInv, Numeric
  <2>2. delay * Scale <= most /\ waited * Scale <= (attempt - 1) * most
    BY <1>1 DEF IInv, DelayInv, WaitBounded, InCall
  <2> HIDE DEF most
  <2>3. slept \in Int /\ slept * Scale <= most
    BY <1>2, <2>1, <2>2
  <2> HIDE DEF slept
  <2>4. waited' = waited + slept /\ attempt' = attempt + 1
    BY <1>1 DEF slept
  <2>5. (waited + slept) * Scale <= (attempt + 1 - 1) * most
    BY <1>2, <2>1, <2>2, <2>3, OneMoreWait
  <2>6. waited' * Scale = (waited + slept) * Scale
    BY <2>4
  <2>7. (attempt' - 1) * most = (attempt + 1 - 1) * most
    BY <1>2, <2>1, <2>4
  <2>8. waited' * Scale <= (attempt' - 1) * most
    BY <2>5, <2>6, <2>7, Zenon
  <2> QED BY <2>8, Zenon DEF most
<1> QED BY <1>5, <1>6, <1>7, <1>8 DEF IInv

LEMMA NextIInv == IInv /\ [Next]_vars => IInv'
<1> SUFFICES ASSUME IInv, [Next]_vars PROVE IInv'
  OBVIOUS
<1>1. CASE Refuse
  BY <1>1 DEF Refuse, IInv, TypeOK, PolicyInv, AttemptInv, BackoffBounded, DelayInv,
              WaitBounded, InCall
<1>2. CASE Finish \/ Cancelled
  BY <1>2 DEF Finish, Cancelled, IInv, TypeOK, PolicyInv, AttemptInv, BackoffBounded,
              DelayInv, WaitBounded, InCall
<1>3. CASE UNCHANGED vars
  BY <1>3 DEF vars, IInv, TypeOK, PolicyInv, AttemptInv, BackoffBounded, DelayInv,
              WaitBounded, InCall, Numeric
<1> QED BY <1>1, <1>2, <1>3, ConfigureIInv, BeginIInv, RetryIInv, ElapseIInv DEF Next

\* The inductive invariant holds of every behaviour of the retry loop.
THEOREM IInvTheorem == Spec => []IInv
  BY InitIInv, NextIInv, PTL DEF Spec

\* Every variable of the retry loop keeps its type; above all the attempts of a
\* call never exceed MaxAttempts.
THEOREM TypeCorrect == Spec => []TypeOK
<1>1. IInv => TypeOK
  BY DEF IInv
<1> QED BY <1>1, IInvTheorem, PTL

\* The backoff of the retry loops stays between InitialBackoff and MaxBackoff
\* under every policy that normalizeRetryPolicy accepts.
THEOREM BackoffBoundedTheorem == Spec => []BackoffBounded
<1>1. IInv => BackoffBounded
  BY DEF IInv
<1> QED BY <1>1, IInvTheorem, PTL

\* The waits of one call add up to at most MaxBackoff and its jitter per retry.
THEOREM WaitBoundedTheorem == Spec => []WaitBounded
<1>1. IInv => WaitBounded
  BY DEF IInv
<1> QED BY <1>1, IInvTheorem, PTL

\* A policy in use is a fixed point of normalizeRetryPolicy.
THEOREM NormalizeSettledTheorem == Spec => []NormalizeSettled
<1>1. IInv => NormalizeSettled
  <2> SUFFICES ASSUME IInv PROVE NormalizeSettled
    OBVIOUS
  <2>1. /\ policy \in RetryPolicies
        /\ policy.MaxAttempts \in Nat \ {0}
        /\ policy.InitialBackoff \in Nat \ {0} /\ policy.MaxBackoff \in Nat \ {0}
        /\ policy.InitialBackoff <= policy.MaxBackoff
        /\ policy.Multiplier # NaN => policy.Multiplier >= Scale
        /\ policy.Jitter # NaN => policy.Jitter \in 1 .. Scale
    BY DEF IInv, TypeOK, PolicyInv
  <2> QED BY <2>1, FixedPoint DEF NormalizeSettled
<1> QED BY <1>1, IInvTheorem, PTL

\* No step within a call shrinks the backoff, truncation notwithstanding.
THEOREM BackoffMonotoneTheorem == Spec => BackoffMonotone
<1>1. IInv /\ [Next]_vars => [InCall /\ InCall' /\ Numeric => backoff' >= backoff]_vars
  <2> SUFFICES ASSUME IInv, Next, InCall, InCall', Numeric PROVE backoff' >= backoff
    OBVIOUS
  <2>1. /\ policy \in RetryPolicies /\ policy.MaxBackoff \in Nat
        /\ backoff \in Nat \ {0} /\ backoff <= policy.MaxBackoff
        /\ policy.Multiplier # NaN /\ policy.Multiplier >= Scale
    BY DEF IInv, TypeOK, PolicyInv, BackoffBounded, Numeric
  <2>2. CASE Retry
    BY <2>1, <2>2 DEF Retry
  <2>3. CASE Elapse
    BY <2>1, <2>3, NextBackoffRange DEF Elapse
  <2>4. Retry \/ Elapse
    BY DEF Next, Configure, Refuse, Begin, Finish, Cancelled, InCall
  <2> QED BY <2>2, <2>3, <2>4
<1> QED BY <1>1, IInvTheorem, PTL DEF Spec, BackoffMonotone

-------------------------------------------------------------------------------
(***************************************************************************)
(* Clients and their connections.                                          *)
(***************************************************************************)

Configs ==
    [maxOperations : Int, readRetry : RetryPolicies, scanRetry : RetryPolicies,
     scanTimeout : Int, maxReceiveBytes : Int, maxSendBytes : Int]

ClientRecords ==
    [rpc : Conns \cup {None}, connection : Conns \cup {None}, config : Configs,
     interval : Int]

\* A connection nobody has opened is absent, and only Dial hands one to a
\* client to own.
OwnerInv ==
    /\ conn \in [Conns -> {"absent", "open", "closed"}]
    /\ maker \in [Conns -> {"nobody", "caller", "Dial"}]
    /\ closer \in [Conns -> {"nobody", "caller", "client"}]
    /\ client \in [Clients -> ClientRecords]
    /\ \A c \in Conns : conn[c] = "absent" <=> maker[c] = "nobody"
    /\ \A k \in Clients, c \in Conns : client[k].connection = c => maker[c] = "Dial"

ClientInv == OwnerInv /\ NoLeak /\ OwnershipKept /\ ClientsUsable

\* newClientConfig makes a usable configuration of any options it accepts.
LEMMA ConfigUsable ==
    ASSUME NEW o \in ClientOptions, ConfigAccepted(o)
    PROVE  newClientConfig(o) \in Configs /\ Usable(newClientConfig(o))
<1> DEFINE f == newClientConfig(o)
<1>1. /\ o.MaxOperations \in Int /\ o.ScanTimeout \in Int
      /\ o.MaxReceiveMessageBytes \in Int /\ o.MaxSendMessageBytes \in Int
      /\ o.ReadRetry \in RetryPolicies /\ o.ScanRetry \in RetryPolicies
  BY DEF ClientOptions
<1>2. ASSUME NEW p \in RetryPolicies, Accepted(p), NEW q, q = WithDefaults(p)
      PROVE  q \in RetryPolicies /\ q.MaxAttempts >= 1 /\ q.InitialBackoff >= 1 /\ Accepted(q)
  <2>1. /\ q \in RetryPolicies
        /\ q.MaxAttempts \in Nat \ {0}
        /\ q.InitialBackoff \in Nat \ {0} /\ q.MaxBackoff \in Nat \ {0}
        /\ q.InitialBackoff <= q.MaxBackoff
        /\ q.Multiplier # NaN => q.Multiplier >= Scale
        /\ q.Jitter # NaN => q.Jitter \in 1 .. Scale
    BY <1>2, NormalizedPolicy
  <2> QED BY <2>1, FixedPoint
<1>3. /\ f.readRetry = WithDefaults(o.ReadRetry) /\ f.scanRetry = WithDefaults(o.ScanRetry)
      /\ Accepted(o.ReadRetry) /\ Accepted(o.ScanRetry)
  BY DEF newClientConfig, ConfigAccepted
<1>4. \A p \in {f.readRetry, f.scanRetry} :
          p \in RetryPolicies /\ p.MaxAttempts >= 1 /\ p.InitialBackoff >= 1 /\ Accepted(p)
  BY <1>1, <1>2, <1>3
<1>5. /\ f.maxOperations \in Nat \ {0} /\ f.scanTimeout \in Nat \ {0}
      /\ f.maxReceiveBytes \in Nat \ {0} /\ f.maxSendBytes \in Nat \ {0}
  BY <1>1, ClientAssumption DEF newClientConfig, OrDefault, ConfigAccepted
<1>6. f = [maxOperations |-> f.maxOperations, readRetry |-> f.readRetry,
           scanRetry |-> f.scanRetry, scanTimeout |-> f.scanTimeout,
           maxReceiveBytes |-> f.maxReceiveBytes, maxSendBytes |-> f.maxSendBytes]
  BY DEF newClientConfig
<1> HIDE DEF f
<1>7. f \in Configs
  BY <1>4, <1>5, <1>6 DEF Configs
<1>8. Usable(f)
  BY <1>4, <1>5 DEF Usable
<1> QED BY <1>7, <1>8 DEF f

LEMMA InitClientInv == ClientInit => ClientInv
<1> SUFFICES ASSUME ClientInit PROVE ClientInv
  OBVIOUS
<1>1. WithDefaults(ZeroPolicy) \in RetryPolicies
  BY ZeroAccepted, NormalizedPolicy
<1>2. ZeroConfig \in Configs
  BY <1>1 DEF ZeroConfig, Configs
<1>3. NoClient \in ClientRecords /\ NoClient.connection = None
  BY <1>2 DEF NoClient, Client, ClientRecords
<1>4. OwnerInv
  BY <1>3, ClientAssumption DEF ClientInit, OwnerInv
<1>5. NoLeak /\ OwnershipKept /\ ClientsUsable
  BY <1>3 DEF ClientInit, NoLeak, OwnershipKept, ClientsUsable
<1> QED BY <1>4, <1>5 DEF ClientInv

\* A client is made with a configuration, and owns the connection it is given
\* or none.
LEMMA MadeClient ==
    ASSUME NEW o \in Options, ConfigAccepted(o), NEW c \in Conns,
           NEW connection \in Conns \cup {None}, NEW interval \in Int,
           NEW made, made = Client(c, connection, newClientConfig(o), interval)
    PROVE  /\ made \in ClientRecords /\ made.connection = connection
           /\ Usable(made.config) /\ made.interval = interval
<1>1. newClientConfig(o) \in Configs /\ Usable(newClientConfig(o))
  BY ConfigUsable, ClientAssumption
<1> QED BY <1>1 DEF Client, ClientRecords

LEMMA DialClientInv ==
    ASSUME ClientInv, NEW k \in Clients, NEW c \in Conns, NEW o \in Options,
           NEW interval \in Intervals, Dial(k, c, o, interval)
    PROVE  ClientInv'
<1> DEFINE i == OrDefault(interval, DefaultInterval)
           made == Client(c, c, newClientConfig(o), i)
<1>1. i \in Int /\ i >= 1
  BY ClientAssumption DEF Dial, OrDefault
<1>2. ConfigAccepted(o)
  BY DEF Dial
<1> HIDE DEF i
<1>3. /\ made \in ClientRecords /\ made.connection = c
      /\ Usable(made.config) /\ made.interval = i
  BY <1>1, <1>2, MadeClient
<1>4. /\ conn[c] = "absent" /\ client[k] = NoClient
      /\ conn' = [conn EXCEPT ![c] = "open"] /\ maker' = [maker EXCEPT ![c] = "Dial"]
      /\ client' = [client EXCEPT ![k] = made] /\ closer' = closer
  BY DEF Dial, i
<1> HIDE DEF made
<1>5. maker[c] = "nobody" /\ c # None
  BY <1>4, ClientAssumption DEF ClientInv, OwnerInv
<1>6. \A j \in Clients : client[j].connection # c
  BY <1>5 DEF ClientInv, OwnerInv
<1>7. OwnerInv'
  BY <1>3, <1>4 DEF ClientInv, OwnerInv
<1>8. /\ client'[k] = made
      /\ \A j \in Clients : j # k => client'[j] = client[j]
  BY <1>4 DEF ClientInv, OwnerInv
<1>9. NoLeak'
  <2> SUFFICES ASSUME NEW d \in Conns, maker'[d] = "Dial", conn'[d] = "open"
               PROVE  \E j \in Clients : client'[j].connection = d
    BY DEF NoLeak
  <2>1. CASE d = c
    BY <1>3, <1>8, <2>1
  <2>2. CASE d # c
    <3>1. PICK j \in Clients : client[j].connection = d
      BY <1>4, <2>2 DEF ClientInv, OwnerInv, NoLeak
    <3>2. j # k
      BY <1>4, <3>1, ClientAssumption DEF NoClient, Client
    <3> QED BY <1>8, <3>1, <3>2
  <2> QED BY <2>1, <2>2
<1>10. OwnershipKept'
  <2>1. \A d \in Conns : closer'[d] = "client" => maker'[d] = "Dial"
    BY <1>4 DEF ClientInv, OwnerInv, OwnershipKept
  <2>2. ASSUME NEW j \in Clients, NEW l \in Clients, j # l,
               client'[j].connection = client'[l].connection
        PROVE  client'[j].connection = None
    BY <1>3, <1>6, <1>8, <2>2 DEF ClientInv, OwnershipKept
  <2> QED BY <2>1, <2>2 DEF OwnershipKept
<1>11. ClientsUsable'
  BY <1>1, <1>3, <1>8 DEF ClientInv, ClientsUsable
<1> QED BY <1>7, <1>9, <1>10, <1>11 DEF ClientInv

LEMMA NewClientInv ==
    ASSUME ClientInv, NEW k \in Clients, NEW c \in Conns, NEW o \in Options, New(k, c, o)
    PROVE  ClientInv'
<1> DEFINE made == Client(c, None, newClientConfig(o), 0)
<1>0. ConfigAccepted(o) /\ 0 \in Int
  BY DEF New
<1>1. /\ made \in ClientRecords /\ made.connection = None /\ Usable(made.config)
  BY <1>0, MadeClient
<1>2. /\ client[k] = NoClient /\ client' = [client EXCEPT ![k] = made]
      /\ conn' = conn /\ maker' = maker /\ closer' = closer
  BY DEF New
<1> HIDE DEF made
<1>3. client[k].connection = None
  BY <1>2 DEF NoClient, Client
<1>4. /\ client'[k] = made
      /\ \A j \in Clients : j # k => client'[j] = client[j]
  BY <1>2 DEF ClientInv, OwnerInv
<1>5. OwnerInv'
  BY <1>1, <1>2, <1>4, ClientAssumption DEF ClientInv, OwnerInv
<1>6. \A j \in Clients : client'[j].connection = client[j].connection
  BY <1>1, <1>3, <1>4
<1>7. NoLeak' /\ OwnershipKept'
  BY <1>2, <1>6 DEF ClientInv, NoLeak, OwnershipKept
<1>8. ClientsUsable'
  BY <1>1, <1>4 DEF ClientInv, ClientsUsable
<1> QED BY <1>5, <1>7, <1>8 DEF ClientInv

LEMMA CloseClientInv ==
    ASSUME ClientInv, NEW k \in Clients, Close(k)
    PROVE  ClientInv'
<1>1. client' = client /\ maker' = maker
  BY DEF Close
<1>2. CASE client[k].connection = None
  <2>1. conn' = conn /\ closer' = closer
    BY <1>2 DEF Close
  <2> QED BY <1>1, <2>1
      DEF ClientInv, OwnerInv, NoLeak, OwnershipKept, ClientsUsable
<1>3. CASE client[k].connection # None
  <2> DEFINE c == client[k].connection
  <2>1. c \in Conns
    BY <1>3 DEF ClientInv, OwnerInv, ClientRecords
  <2>2. conn' = [conn EXCEPT ![c] = "closed"] /\ closer' = [closer EXCEPT ![c] = "client"]
    BY <1>3 DEF Close
  <2>3. maker[c] = "Dial"
    BY <2>1 DEF ClientInv, OwnerInv
  <2> HIDE DEF c
  <2>4. OwnerInv'
    BY <1>1, <2>1, <2>2, <2>3 DEF ClientInv, OwnerInv
  <2>5. NoLeak' /\ OwnershipKept'
    BY <1>1, <2>1, <2>2, <2>3 DEF ClientInv, OwnerInv, NoLeak, OwnershipKept
  <2> QED BY <1>1, <2>4, <2>5 DEF ClientInv, ClientsUsable
<1> QED BY <1>2, <1>3

\* The steps that make no client.
LEMMA ConnectionClientInv ==
    ASSUME ClientInv, NEW c \in Conns,
           \/ CallerConnects(c) \/ CallerDisconnects(c)
           \/ \E o \in Options, interval \in Intervals : DialFails(c, o, interval)
    PROVE  ClientInv'
<1>1. client' = client
  BY DEF CallerConnects, CallerDisconnects, DialFails
<1>2. OwnerInv'
  BY <1>1 DEF ClientInv, OwnerInv, CallerConnects, CallerDisconnects, DialFails
<1>3. NoLeak' /\ OwnershipKept'
  BY <1>1 DEF ClientInv, OwnerInv, NoLeak, OwnershipKept,
              CallerConnects, CallerDisconnects, DialFails
<1> QED BY <1>1, <1>2, <1>3 DEF ClientInv, ClientsUsable

LEMMA NextClientInv == ClientInv /\ [ClientNext]_clientVars => ClientInv'
<1> SUFFICES ASSUME ClientInv, [ClientNext]_clientVars PROVE ClientInv'
  OBVIOUS
<1>1. CASE \/ DialRefused \/ \E o \in Options : NewRefused(o)
           \/ UNCHANGED clientVars
  <2>1. UNCHANGED <<conn, maker, closer, client>>
    BY <1>1 DEF DialRefused, NewRefused, clientVars
  <2> QED BY <2>1 DEF ClientInv, OwnerInv, NoLeak, OwnershipKept, ClientsUsable
<1> QED BY <1>1, DialClientInv, NewClientInv, CloseClientInv, ConnectionClientInv
        DEF ClientNext

\* Who owns which connection, and every client's configuration, are as they
\* should be in every behaviour of the clients.
THEOREM ClientInvTheorem == ClientSpec => []ClientInv
  BY InitClientInv, NextClientInv, PTL DEF ClientSpec

\* A connection that Dial opened is closed or owned by a client: a Dial that
\* fails late leaks none, whatever clients exist.
THEOREM NoLeakTheorem == ClientSpec => []NoLeak
<1>1. ClientInv => NoLeak
  BY DEF ClientInv
<1> QED BY <1>1, ClientInvTheorem, PTL

\* Close never closes a connection of the caller, and no connection has two
\* owners.
THEOREM OwnershipKeptTheorem == ClientSpec => []OwnershipKept
<1>1. ClientInv => OwnershipKept
  BY DEF ClientInv
<1> QED BY <1>1, ClientInvTheorem, PTL

\* newClientConfig, whatever options it accepts, gives every client the limits
\* that the batch, retry and scan loops assume of theirs.
THEOREM ClientsUsableTheorem == ClientSpec => []ClientsUsable
<1>1. ClientInv => ClientsUsable
  BY DEF ClientInv
<1> QED BY <1>1, ClientInvTheorem, PTL

================================================================================
