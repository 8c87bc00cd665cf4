----------------------------- MODULE MCCodecBuffers -----------------------------
(* Two calls at a time over five buffers: each may hold its request and a     *)
(* reply in two pieces, so that a buffer one call releases is the next one    *)
(* the other takes.  One request for each path of Marshal and Unmarshal; two  *)
(* that are sent, so that a mix-up shows.                                     *)
EXTENDS CodecBuffers, TLC

Symmetry == Permutations(Buffers) \cup Permutations(Calls)

================================================================================
