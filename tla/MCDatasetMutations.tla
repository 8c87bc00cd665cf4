-------------------------- MODULE MCDatasetMutations ---------------------------
(* Three operations in batches of two: an operation before, in and after a    *)
(* failed batch, and two batches that may use the same program or another.    *)
EXTENDS DatasetMutations

================================================================================
