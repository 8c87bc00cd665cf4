----------------------------- MODULE MCDatasetReads ----------------------------
(* Three addresses in batches of two: a full batch, then a shorter one, so   *)
(* that a later batch can fail after one with failed records; a batch of two *)
(* is the smallest whose pending list can be narrowed to its second          *)
(* operation, and three attempts leave one after it was.                     *)
EXTENDS DatasetReads

================================================================================
