-------------------------- MODULE MCFeeSettlement --------------------------
(* Instances of FeeSettlement for TLC.                                      *)
EXTENDS FeeSettlement
CONSTANTS x, y, z
MCDelegators == {x, y, z}
=============================================================================
