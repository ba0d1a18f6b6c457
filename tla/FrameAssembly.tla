--------------------------- MODULE FrameAssembly ---------------------------
(***************************************************************************)
(* PubHandler: point packets of the lidars become frames.  The SDK's data  *)
(* loop calls the observer OnLivoxLidarPointCloudCallback, which queues a  *)
(* packet; the raw data thread (RawDataProcess) takes packets off the      *)
(* queue, collects the points of each lidar and, by CheckTimer, publishes  *)
(* what is collected: with synchronised lidars when the points reach a     *)
(* multiple of the interval, without when the interval has passed on the   *)
(* host's clock.  Uninit ends the thread.                                  *)
(*                                                                         *)
(* Time is counted in ticks.  The points of one packet share a tick, so a  *)
(* packet stands for its points and has one time_stamp.                    *)
(***************************************************************************)
EXTENDS Integers, Sequences

CONSTANTS
  Lidar,        \* handles of the lidars
  TimeTypes,    \* TimeTypes[l][n]: may l be synchronised, or not, at packet n?
                \* (so the length bounds the packets l sends in the model)
  TicksPerMs,   \* ticks in a millisecond
  Interval,     \* publish_interval_, in ticks
  HostEpoch,    \* the host's clock less that of the synchronised lidars
  StampMod,     \* time stamps count modulo this (2^64 in the code)
  MaxTime       \* bound of the model: ticks that pass

ASSUME TimeTypesAssumption == TimeTypes \in [Lidar -> Seq(SUBSET BOOLEAN)]
(* publish_freq is at most 100 Hz, so the interval is over 2 ms.            *)
ASSUME IntervalAssumption == /\ TicksPerMs \in Nat \ {0}
                             /\ Interval \in Nat
                             /\ Interval >= 2 * TicksPerMs
ASSUME HostEpochAssumption == HostEpoch \in Nat
ASSUME StampModAssumption == /\ MaxTime \in Nat \ {0} /\ StampMod \in Nat
                             /\ HostEpoch + MaxTime < StampMod

PublishIntervalMs == Interval \div TicksPerMs
PublishIntervalTolerance == Interval - TicksPerMs

VARIABLES
  now,                  \* the host's clock
  is_timestamp_sync_,   \* one flag for all lidars
  arriving,             \* the packet in the observer: <<>> or <<packet>>
  raw_packet_queue_,
  pc, raw_data,         \* the raw data thread, and the packet it is about
  points_clouds_,       \* points_clouds_[l]: the points collected of l
  frame_,               \* the last frame handed to points_callback_
  first, last_pub_time_,
  is_quit_, uninit,     \* uninit: how far Uninit is
  sent,                 \* history: packets each lidar has sent
  sync_end,             \* history: end of the last synchronised frame, or 0
  no_sync_frames,       \* history: frames published without synchronisation
  first_time            \* history: when their clock was set

vars == <<now, is_timestamp_sync_, arriving, raw_packet_queue_, pc, raw_data,
          points_clouds_, frame_, first, last_pub_time_, is_quit_, uninit,
          sent, sync_end, no_sync_frames, first_time>>

thread   == <<pc, raw_data>>
clock    == <<first, last_pub_time_, no_sync_frames, first_time>>
observer == <<is_timestamp_sync_, arriving, sent>>

(* GetEthPacketTimestamp: the lidar's clock, or the host's.                 *)
TimeStamp(sync) == IF sync THEN now ELSE now + HostEpoch

(* Mutant: the base time is read after the points were swapped out. *)
LidarBaseTime_AfterSwap(l) == 0

(* Points of a lidar: first and last time, 0 when there are none.           *)
LidarBaseTime(l) ==
  IF points_clouds_[l] = <<>> THEN 0 ELSE points_clouds_[l][1].time_stamp
RecentTimeStamp(l) ==
  IF points_clouds_[l] = <<>> THEN 0
  ELSE points_clouds_[l][Len(points_clouds_[l])].time_stamp
RecentTimeMs(l) == RecentTimeStamp(l) \div TicksPerMs

(* Mutants: the next frame's time does not move, or moves twice. *)
NextPubTime_Stuck == last_pub_time_
(* A late frame does not shift the time of the next.                        *)
NextPubTime == last_pub_time_ + Interval

(* Mutant: the last packet does not count. *)
QueueEmpty_OneLeft == Len(raw_packet_queue_) <= 1

QueueEmpty == raw_packet_queue_ = <<>>

NoPacket == [lidar |-> 0, number |-> 0, sync |-> FALSE, time_stamp |-> 0]

Init ==
  /\ now = 1 /\ is_timestamp_sync_ = FALSE
  /\ arriving = <<>> /\ raw_packet_queue_ = <<>>
  /\ pc = "loop" /\ raw_data = NoPacket
  /\ points_clouds_ = [l \in Lidar |-> <<>>] /\ frame_ = <<>>
  /\ first = TRUE /\ last_pub_time_ = 0
  /\ is_quit_ = FALSE /\ uninit = "running"
  /\ sent = [l \in Lidar |-> 0] /\ sync_end = [l \in Lidar |-> 0]
  /\ no_sync_frames = 0 /\ first_time = 0
-----------------------------------------------------------------------------
(* The observer, called by the SDK under the mutex of its observers.        *)

Tick == /\ now < MaxTime /\ now' = now + 1
        /\ UNCHANGED <<observer, raw_packet_queue_, thread, points_clouds_, frame_,
                       clock, is_quit_, uninit, sync_end>>

OnLivoxLidarPointCloudCallback(l) ==
  /\ uninit = "running" /\ arriving = <<>> /\ sent[l] < Len(TimeTypes[l])
  /\ \E sync \in TimeTypes[l][sent[l] + 1] :
       /\ is_timestamp_sync_' = sync
       /\ arriving' = <<[lidar |-> l, number |-> sent[l] + 1, sync |-> sync,
                         time_stamp |-> TimeStamp(sync)]>>
  /\ sent' = [sent EXCEPT ![l] = @ + 1]
  /\ UNCHANGED <<now, raw_packet_queue_, thread, points_clouds_, frame_, clock,
                 is_quit_, uninit, sync_end>>

(* A packet of IMU data only sets the flag; imu_callback_ takes it away.    *)
OnImuPacket(l) ==
  /\ uninit = "running" /\ arriving = <<>>
  /\ \E n \in 1..Len(TimeTypes[l]) : is_timestamp_sync_' \in TimeTypes[l][n]
  /\ UNCHANGED <<now, arriving, sent, raw_packet_queue_, thread, points_clouds_,
                 frame_, clock, is_quit_, uninit, sync_end>>

PushPacket ==
  /\ arriving # <<>> /\ arriving' = <<>>
  /\ raw_packet_queue_' = Append(raw_packet_queue_, arriving[1])
  /\ UNCHANGED <<now, is_timestamp_sync_, sent, thread, points_clouds_, frame_,
                 clock, is_quit_, uninit, sync_end>>
-----------------------------------------------------------------------------
(* The raw data thread.                                                     *)

TestQuit ==
  /\ pc = "loop" /\ pc' = IF is_quit_ THEN "ended" ELSE "lock"
  /\ UNCHANGED <<now, observer, raw_packet_queue_, raw_data, points_clouds_,
                 frame_, clock, is_quit_, uninit, sync_end>>

(* An empty queue is waited for, but never longer than 500 ms.              *)
WaitFor ==
  /\ pc = "lock" /\ QueueEmpty /\ pc' = "waiting"
  /\ UNCHANGED <<now, observer, raw_packet_queue_, raw_data, points_clouds_,
                 frame_, clock, is_quit_, uninit, sync_end>>

(* The wait ends by a notification, by time-out or for no reason: at any    *)
(* time.  With nothing in the queue, back to the test of is_quit_.          *)
WakeEmpty ==
  /\ pc = "waiting" /\ QueueEmpty /\ pc' = "loop"
  /\ UNCHANGED <<now, observer, raw_packet_queue_, raw_data, points_clouds_,
                 frame_, clock, is_quit_, uninit, sync_end>>

(* PointCloudProcess appends the points to those collected of the lidar.    *)
TakePacket ==
  /\ pc \in {"lock", "waiting"} /\ ~QueueEmpty
  /\ pc' = "check"
  /\ raw_packet_queue_' = Tail(raw_packet_queue_)
  /\ LET packet == Head(raw_packet_queue_)
     IN  /\ raw_data' = packet
         /\ points_clouds_' = [points_clouds_ EXCEPT ![packet.lidar] = Append(@, packet)]
         /\ sync_end' = IF packet.sync THEN sync_end
                        ELSE [sync_end EXCEPT ![packet.lidar] = 0]
  /\ UNCHANGED <<now, observer, frame_, clock, is_quit_, uninit>>

(* The frame of the lidars of S that have points, handed to points_callback_.*)
PublishPointCloud(S) ==
  LET filled == {l \in S : points_clouds_[l] # <<>>}
  IN  /\ frame_' = [l \in filled |-> [base_time |-> LidarBaseTime(l),
                                      points |-> points_clouds_[l]]]
      /\ points_clouds_' = [l \in Lidar |->
                              IF l \in S THEN <<>> ELSE points_clouds_[l]]

(* Mutant: a packet of the boundary's millisecond is enough. *)
SyncDue_NoTolerance(l) ==
  RecentTimeMs(l) % PublishIntervalMs = 0 /\ RecentTimeMs(l) # 0

(* Unsigned: a difference below zero wraps.                                 *)
SyncDue(l) ==
  /\ RecentTimeMs(l) % PublishIntervalMs = 0 /\ RecentTimeMs(l) # 0
  /\ (RecentTimeStamp(l) - LidarBaseTime(l)) % StampMod >= PublishIntervalTolerance

(* CheckTimer goes by the flag as it is now, whichever packet set it.       *)
CheckTimerSync ==
  /\ pc = "check" /\ is_timestamp_sync_ /\ pc' = "loop"
  /\ LET l == raw_data.lidar
     IN  \/ /\ SyncDue(l)
            /\ PublishPointCloud({l})
            /\ sync_end' = [sync_end EXCEPT
                              ![l] = IF raw_data.sync THEN RecentTimeStamp(l) ELSE 0]
         \/ /\ ~SyncDue(l)
            /\ UNCHANGED <<points_clouds_, frame_, sync_end>>
  /\ UNCHANGED <<now, observer, raw_packet_queue_, raw_data, clock, is_quit_, uninit>>

CheckTimerNoSync ==
  /\ pc = "check" /\ ~is_timestamp_sync_ /\ pc' = "read_clock"
  /\ UNCHANGED <<now, observer, raw_packet_queue_, raw_data, points_clouds_,
                 frame_, clock, is_quit_, uninit, sync_end>>

(* The first reading starts the clock.                                      *)
ReadClock ==
  /\ pc = "read_clock" /\ pc' = "loop"
  /\ \/ /\ first
        /\ first' = FALSE /\ last_pub_time_' = now /\ first_time' = now
        /\ UNCHANGED <<points_clouds_, frame_, no_sync_frames>>
     \/ /\ ~first /\ now - last_pub_time_ < Interval
        /\ UNCHANGED <<points_clouds_, frame_, clock>>
     \/ /\ ~first /\ now - last_pub_time_ >= Interval
        /\ last_pub_time_' = NextPubTime
        /\ PublishPointCloud(Lidar)
        /\ no_sync_frames' = no_sync_frames + 1
        /\ UNCHANGED <<first, first_time>>
  /\ UNCHANGED <<now, observer, raw_packet_queue_, raw_data, is_quit_, uninit, sync_end>>
-----------------------------------------------------------------------------
(* Uninit: remove the observer, ask the thread to quit, join it.            *)

RemovePointCloudObserver ==
  /\ uninit = "running" /\ arriving = <<>> /\ uninit' = "removed"
  /\ UNCHANGED <<now, observer, raw_packet_queue_, thread, points_clouds_, frame_,
                 clock, is_quit_, sync_end>>

(* Mutant: nobody tells the thread to quit. *)
RequestExit_Forgotten ==
  /\ uninit = "removed" /\ uninit' = "joining"
  /\ UNCHANGED <<now, observer, raw_packet_queue_, thread, points_clouds_, frame_,
                 clock, is_quit_, sync_end>>

RequestExit ==
  /\ uninit = "removed" /\ uninit' = "joining" /\ is_quit_' = TRUE
  /\ UNCHANGED <<now, observer, raw_packet_queue_, thread, points_clouds_, frame_,
                 clock, sync_end>>

Join ==
  /\ uninit = "joining" /\ pc = "ended" /\ uninit' = "done"
  /\ UNCHANGED <<now, observer, raw_packet_queue_, thread, points_clouds_, frame_,
                 clock, is_quit_, sync_end>>

Observe == \/ PushPacket
           \/ \E l \in Lidar : OnLivoxLidarPointCloudCallback(l) \/ OnImuPacket(l)

RawDataProcess == \/ TestQuit \/ WaitFor \/ WakeEmpty \/ TakePacket
                  \/ CheckTimerSync \/ CheckTimerNoSync \/ ReadClock

Uninit == RemovePointCloudObserver \/ RequestExit \/ Join

Next == Tick \/ Observe \/ RawDataProcess \/ Uninit

Spec == Init /\ [][Next]_vars

(* The thread runs, a push is finished, and Uninit goes on once begun.      *)
FairSpec == Spec /\ WF_vars(RawDataProcess) /\ WF_vars(PushPacket)
                 /\ WF_vars(RequestExit \/ Join)
-----------------------------------------------------------------------------
Packet == [lidar : Lidar, number : Nat, sync : BOOLEAN,
           time_stamp : 1..MaxTime \cup (HostEpoch + 1)..(HostEpoch + MaxTime)]

(* The state of the thread, the collected points and the timers have their  *)
(* types; a frame published has points of each of its lidars.               *)
TypeOK ==
  /\ now \in 1..MaxTime /\ is_timestamp_sync_ \in BOOLEAN
  /\ arriving \in Seq(Packet) /\ Len(arriving) <= 1
  /\ raw_packet_queue_ \in Seq(Packet)
  /\ pc \in {"loop", "lock", "waiting", "check", "read_clock", "ended"}
  /\ raw_data \in Packet \cup {NoPacket}
  /\ points_clouds_ \in [Lidar -> Seq(Packet)]
  /\ DOMAIN frame_ \subseteq Lidar
  /\ \A l \in DOMAIN frame_ : frame_[l].points \in Seq(Packet)
  /\ first \in BOOLEAN /\ last_pub_time_ \in 0..MaxTime
  /\ is_quit_ \in BOOLEAN
  /\ uninit \in {"running", "removed", "joining", "done"}
  /\ sent \in [Lidar -> Nat] /\ sync_end \in [Lidar -> Nat]
  /\ no_sync_frames \in Nat /\ first_time \in 0..MaxTime

(* The packets of l, in their order.                                        *)
OfLidar(l, packets) ==
  LET of[n \in 0..Len(packets)] ==
        IF n = 0 THEN <<>>
        ELSE IF packets[n].lidar = l THEN Append(of[n-1], packets[n]) ELSE of[n-1]
  IN of[Len(packets)]

(* The points of l not yet published: collected, in the queue and in the    *)
(* observer, in the order they were sent.                                   *)
Unpublished(l) ==
  points_clouds_[l]
    \o OfLidar(l, raw_packet_queue_ \o arriving)

Stream == INSTANCE FrameStream
            WITH Packet <- Packet, frame <- frame_,
                 stream <- [l \in Lidar |-> Unpublished(l)]

(* From the observer to the callback nothing of a lidar is lost, repeated   *)
(* or reordered, whatever the other lidars and the flag do; every frame is  *)
(* filled, and its base_time is the time of its first point.                *)
RefinesStream == Stream!StreamSpec

(* Synchronised frames of a lidar do not end twice at one multiple of the   *)
(* interval, though many packets fall into that millisecond and packets of  *)
(* other lidars set the flag: their ends are at least an interval apart.    *)
OneFramePerInterval ==
  [][\A l \in Lidar :
       (/\ pc = "check" /\ frame_' # frame_ /\ l \in DOMAIN frame_'
        /\ sync_end[l] # 0)
         => (sync_end'[l] \div TicksPerMs) - (sync_end[l] \div TicksPerMs)
              >= PublishIntervalMs]_vars

(* Without synchronisation frames may come late and then in a burst, but    *)
(* since the clock was set never more than one per interval: the catching   *)
(* up of last_pub_time_ does not overshoot.                                 *)
NoSyncRate == no_sync_frames * Interval <= now - first_time

Queued(l, n) == \E i \in 1..Len(raw_packet_queue_) :
                   /\ raw_packet_queue_[i].lidar = l
                   /\ raw_packet_queue_[i].number = n

(* The last packet of a lidar does not stay in the queue, though nothing    *)
(* follows that would wake the thread, unless the thread is told to quit.   *)
LastPacketTaken ==
  \A l \in Lidar :
    LET n == Len(TimeTypes[l]) IN Queued(l, n) ~> (~Queued(l, n) \/ is_quit_)

(* Uninit ends, even when the queue is empty and nobody notifies, and while *)
(* packets are waiting; after it no packet arrives.                         *)
UninitEnds == (uninit = "removed") ~> [](uninit = "done" /\ arriving = <<>>)
=============================================================================
