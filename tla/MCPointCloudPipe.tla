------------------------- MODULE MCPointCloudPipe -------------------------
(***************************************************************************)
(* Instances of PointCloudPipe for TLC.  A ring of two slots and counters  *)
(* modulo 4 keep the proportions of the code (size divides the range of    *)
(* the counters) while both the ring and the counters wrap within a few    *)
(* frames: three overrun the ring, four take the counters past their end.  *)
(***************************************************************************)
EXTENDS PointCloudPipe

(* Values of xfer_format, by what PollingLidarPointCloudData does with it. *)
FormatPointCloud2 == "PointCloud2"
FormatPcl         == "PclPxyzi"

(* Frames each lidar delivers. *)
FiveAndTwo == [l \in Lidar |-> IF l = 0 THEN 5 ELSE 2]
Three      == [l \in Lidar |-> 3]
=============================================================================
