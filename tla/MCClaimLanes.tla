---------------------------- MODULE MCClaimLanes ----------------------------
(* The instance of ClaimLanes that TLC checks; MCClaimLanes.cfg has the numbers. *)
EXTENDS ClaimLanes
=============================================================================
