---------------------------- MODULE FrameStream ----------------------------
(***************************************************************************)
(* What PubHandler promises of the points of the lidars, without its       *)
(* queue, its thread or its timers: the points of a lidar are a stream,    *)
(* and a published frame takes the next piece of the stream of each of     *)
(* its lidars.  Nothing is lost, repeated or out of order, no piece is     *)
(* empty, and the base time of a piece is the time of its first point.     *)
(***************************************************************************)
EXTENDS Naturals, Sequences

CONSTANTS Lidar,    \* the lidars
          Packet    \* packets of points, each with its time_stamp

VARIABLES stream,   \* stream[l]: packets of points of l not yet published
          frame     \* the last frame: base time and points of each lidar in it

Pieces(l) == {SubSeq(stream[l], 1, k) : k \in 1..Len(stream[l])}

Piece(points) == [base_time |-> points[1].time_stamp, points |-> points]

StreamInit == stream = [l \in Lidar |-> <<>>] /\ frame = <<>>

(* The lidar's next packet of points arrives. *)
Arrive(l) == /\ stream'[l] # <<>>
             /\ LET packet == stream'[l][Len(stream'[l])]
                IN  /\ packet \in Packet
                    /\ stream' = [stream EXCEPT ![l] = Append(@, packet)]
             /\ UNCHANGED frame

(* One frame, with a piece of the stream of each lidar of S. *)
Publish(S) ==
  /\ S # {} /\ DOMAIN frame' = S
  /\ \A l \in S : \E points \in Pieces(l) : frame'[l] = Piece(points)
  /\ stream' = [l \in Lidar |->
       IF l \in S THEN SubSeq(stream[l], Len(frame'[l].points) + 1, Len(stream[l]))
                  ELSE stream[l]]

StreamNext == \/ \E l \in Lidar : Arrive(l)
              \/ \E S \in SUBSET Lidar : Publish(S)

StreamSpec == StreamInit /\ [][StreamNext]_<<stream, frame>>
=============================================================================
