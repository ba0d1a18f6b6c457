---------------------------- MODULE MCDriverNode ----------------------------
(***************************************************************************)
(* Instances of DriverNode for TLC: lidar 257 is in every file, lidar 513  *)
(* in some of them, and there is room for two.  The low octets of the      *)
(* handles are equal, as those of two addresses of one subnet.             *)
(***************************************************************************)
EXTENDS DriverNode

(* A file that leaves everything out but one address, and one that names    *)
(* both, one of them twice, and has an entry without an address.            *)
MCFiles == {
  << [ip |-> 257] >>,
  << [pcl_data_type |-> 1], [ip |-> 257, blind_spot_set |-> 60],
     [ip |-> 257, dual_emit_en |-> 1, x |-> -25], [ip |-> 513] >> }

(* A topic for each lidar, or one for all and a format that never pops.     *)
MCNodes == { [multi_topic |-> TRUE, xfer_format |-> "Custom"],
             [multi_topic |-> FALSE, xfer_format |-> "PclPxyzi"] }

(* The range of blind_spot_set in the README.                               *)
BlindSpotFiles == { << [ip |-> 1, blind_spot_set |-> v] >> : v \in {50, 127, 128, 200} }
=============================================================================
