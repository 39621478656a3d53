----------------------------- MODULE MCBatchJobs -----------------------------
(* Small instances of BatchJobs. *)
EXTENDS BatchJobs

CONSTANTS a, b

OneEach == [k \in Kinds |-> 1]
=============================================================================
