----------------------------- MODULE FrameFifo -----------------------------
(***************************************************************************)
(* What the point cloud path of the driver promises, without its ring      *)
(* buffer, its semaphore or its threads: for every lidar a bounded FIFO of *)
(* frames.  Frames are offered in order; an offered frame is either kept   *)
(* or, only when Capacity frames are waiting, dropped; kept frames are     *)
(* handed to ROS whole, once each and in the order they were kept.         *)
(***************************************************************************)
EXTENDS Naturals, Sequences

CONSTANTS Lidar,      \* the lidars
          Field,      \* the parts of a frame
          Capacity    \* frames one lidar may have waiting

VARIABLES seen,       \* seen[l]: how many frames of l were kept or dropped
          accepted,   \* accepted[l]: the frames of l kept so far, in order
          published   \* published[l]: the frames of l handed to ROS, in order

fifoVars == <<seen, accepted, published>>

(* Frame number n of a lidar: all its parts belong together. *)
Frame(n) == [f \in Field |-> n]

Waiting(l) == Len(accepted[l]) - Len(published[l])

FifoInit == /\ seen = [l \in Lidar |-> 0]
            /\ accepted = [l \in Lidar |-> <<>>]
            /\ published = [l \in Lidar |-> <<>>]

Keep(l) == /\ Waiting(l) < Capacity
           /\ seen' = [seen EXCEPT ![l] = @ + 1]
           /\ accepted' = [accepted EXCEPT ![l] = Append(@, Frame(seen[l] + 1))]
           /\ UNCHANGED published

Drop(l) == /\ Waiting(l) = Capacity
           /\ seen' = [seen EXCEPT ![l] = @ + 1]
           /\ UNCHANGED <<accepted, published>>

Publish(l) == /\ Waiting(l) > 0
              /\ published' = [published EXCEPT
                                 ![l] = Append(@, accepted[l][Len(@) + 1])]
              /\ UNCHANGED <<seen, accepted>>

FifoNext == \E l \in Lidar : Keep(l) \/ Drop(l) \/ Publish(l)

FifoSpec == FifoInit /\ [][FifoNext]_fifoVars
=============================================================================
