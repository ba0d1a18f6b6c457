--------------------------- MODULE MCLidarConfig ---------------------------
(***************************************************************************)
(* Instances of LidarConfig for TLC.  Two settings are the fewest for an   *)
(* answer to one to race the sending of the other.                         *)
(***************************************************************************)
EXTENDS LidarConfig

(* The settings LidarInfoChangeCallback knows that the instances use. *)
CONSTANTS k1, k2   \* data type, scan pattern
TwoSettings == {k1, k2}
OneSetting  == {k1}
RefusedSome == {k1}
=============================================================================
