--------------------------- MODULE MCFairCapacity ---------------------------
(* The instance of FairCapacity that TLC checks: every argument within the bounds. *)
EXTENDS FairCapacity
=============================================================================
