----------------------------- MODULE MCUpgrader -----------------------------
(***************************************************************************)
(* Instances of Upgrader for TLC: three blocks, so that there is one which *)
(* is neither the first nor the last.                                      *)
(***************************************************************************)
EXTENDS Upgrader
=============================================================================
