------------------------------- MODULE MCClients --------------------------------
(* Clients are made and closed (ClientLifecycle), and the retry loops pass the *)
(* time under a policy that a client was made with (RetryBackoff).  A loop     *)
(* depends on no other state of its client than the policy: each of the two    *)
(* is run while the other one is at rest.                                      *)
(*                                                                             *)
(* Options: the zero options; every field with a refused value; and a few      *)
(* fields given, so that given values and defaults mix.  Policies of a loop:   *)
(* a refused value, zero, and values at and around the default of every field; *)
(* a cap below the default start is among them, and a multiplier of 1.5, whose *)
(* product is truncated.                                                       *)
EXTENDS ClientLifecycle, RetryBackoff, TLC

MCInit == ClientInit /\ Init

MCNext ==
    \/ Init /\ ClientNext /\ UNCHANGED vars
    \/ ClientInit /\ Next /\ UNCHANGED clientVars

MCSpec == MCInit /\ [][MCNext]_<<clientVars, vars>>

MCPolicies ==
    [MaxAttempts : {-1, 0, 2}, InitialBackoff : {-1, 0, 1, 4}, MaxBackoff : {-1, 0, 2, 8},
     Multiplier : {-1, 0, 5, 10, 15, NaN}, Jitter : {-1, 0, 5, 11, NaN}]

OptionPolicies == {ZeroPolicy, [ZeroPolicy EXCEPT !.MaxAttempts = 1],
                   [ZeroPolicy EXCEPT !.MaxBackoff = 2]}

Zero == [MaxOperations |-> 0, ReadRetry |-> ZeroPolicy, ScanRetry |-> ZeroPolicy,
         ScanTimeout |-> 0, MaxReceiveMessageBytes |-> 0, MaxSendMessageBytes |-> 0]

MCOptions ==
    {Zero}
    \cup { [Zero EXCEPT !.MaxOperations = n] : n \in {-1, 1} }
    \cup { [Zero EXCEPT !.ScanTimeout = n] : n \in {-1, 1} }
    \cup {[Zero EXCEPT !.MaxReceiveMessageBytes = -1],
          [Zero EXCEPT !.MaxSendMessageBytes = -1]}
    \cup { [Zero EXCEPT !.ReadRetry = p] : p \in OptionPolicies }
    \cup { [Zero EXCEPT !.ScanRetry = p] : p \in OptionPolicies }

MCIntervals == {-1, 0, 2}

Symmetry == Permutations(Clients) \cup Permutations(Conns)

================================================================================
