--------------------------- MODULE MCLidarBringUp ---------------------------
(***************************************************************************)
(* Instances of LidarBringUp for TLC.  One lidar is enough for all three   *)
(* loops to work on it at once; two, one of them a HAP, share the retry    *)
(* counter.  MaxRetry is cut from 10 to 0 or 1, so that the SDK gives up   *)
(* after a few steps.                                                      *)
(***************************************************************************)
EXTENDS LidarBringUp

CONSTANTS h1, h2
OneLidar  == {h1}
TwoLidars == {h1, h2}
NoHap     == {}
OneHap    == {h2}
=============================================================================
