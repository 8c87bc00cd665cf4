------------------------------ MODULE MCScanPages ------------------------------
(* Three documents in pages of at most two, so that a traversal needs two   *)
(* pages and more when they are cut short; two attempts, so that the last   *)
(* one is also a retry; one restart.                                        *)
EXTENDS ScanPages

================================================================================
