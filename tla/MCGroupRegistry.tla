-------------------------- MODULE MCGroupRegistry ---------------------------
(* Instances of GroupRegistry for TLC: all its constants are sets of model *)
(* values, given in the configurations.                                    *)
EXTENDS GroupRegistry
=============================================================================
