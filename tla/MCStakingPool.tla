--------------------------- MODULE MCStakingPool ---------------------------
(* Instances of StakingPool for TLC. *)
EXTENDS StakingPool
=============================================================================
