----------------------------- MODULE MCDNSRefresh -----------------------------
(* Two resolver identities are enough to see an old resolver outlive its    *)
(* replacement, and two callers to see Close race with itself.              *)
EXTENDS DNSRefresh

===============================================================================
