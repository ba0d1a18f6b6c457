----------------------- MODULE FrameAssembly_proofs -----------------------
(***************************************************************************)
(* Proofs about FrameAssembly, for any lidars, any interval the            *)
(* configuration allows and any number of packets: type correctness, the   *)
(* rate of frames without synchronisation, the distance of the ends of     *)
(* synchronised frames, and that it implements FrameStream.                *)
(***************************************************************************)
EXTENDS FrameAssembly, SequenceTheorems, WellFoundedInduction, TLAPS

(* Frames are published at first_time + Interval, + 2 * Interval, ..., each *)
(* of them not before its time.                                             *)
RateInv ==
  /\ now \in Nat /\ first_time \in Nat /\ no_sync_frames \in Nat
  /\ first_time <= now
  /\ first \in BOOLEAN
  /\ first => no_sync_frames = 0
  /\ ~first => /\ last_pub_time_ = first_time + no_sync_frames * Interval
               /\ last_pub_time_ <= now

LEMMA NextMultiple ==
  ASSUME NEW n \in Nat, NEW k \in Nat
  PROVE  (n + 1) * k = n * k + k
OBVIOUS

LEMMA RateInit == Init => RateInv
BY DEF Init, RateInv

LEMMA RateNext == RateInv /\ [Next]_vars => RateInv'
<1> SUFFICES ASSUME RateInv, [Next]_vars PROVE RateInv'
  OBVIOUS
<1> USE IntervalAssumption
<1>1. CASE Tick
  BY <1>1 DEF RateInv, Tick, clock
<1>2. CASE ReadClock
  <2>1. CASE first
    <3>1. /\ first' = FALSE /\ last_pub_time_' = now /\ first_time' = now
          /\ now' = now /\ no_sync_frames' = no_sync_frames
      BY <1>2, <2>1 DEF ReadClock
    <3>2. no_sync_frames' = 0 /\ 0 * Interval = 0 /\ now \in Nat
      BY <2>1, <3>1 DEF RateInv
    <3>3. last_pub_time_' = first_time' + no_sync_frames' * Interval
      <4>1. no_sync_frames' * Interval = 0
        BY <3>2, Zenon
      <4> QED BY <3>1, <3>2, <4>1
    <3>4. ~first' /\ first' \in BOOLEAN
      BY <3>1, Zenon
    <3> QED BY <3>1, <3>2, <3>3, <3>4 DEF RateInv
  <2>2. CASE ~first /\ now - last_pub_time_ < Interval
    BY <1>2, <2>2 DEF RateInv, ReadClock, clock
  <2>3. CASE ~first /\ now - last_pub_time_ >= Interval
    <3>0. last_pub_time_ \in Int
      BY <2>3 DEF RateInv
    <3>1. /\ last_pub_time_' = last_pub_time_ + Interval
          /\ no_sync_frames' = no_sync_frames + 1
          /\ first' = first /\ first_time' = first_time /\ now' = now
      <4>1. ~(now - last_pub_time_ < Interval)
        BY <2>3, <3>0 DEF RateInv
      <4> QED BY <1>2, <2>3, <4>1, Zenon DEF ReadClock, NextPubTime
    <3>2. no_sync_frames' * Interval = no_sync_frames * Interval + Interval
      BY <3>1, NextMultiple DEF RateInv
    <3>3. no_sync_frames * Interval \in Nat
      BY DEF RateInv
    <3>4. last_pub_time_' = first_time + no_sync_frames' * Interval
      BY <2>3, <3>1, <3>2, <3>3 DEF RateInv
    <3>5. last_pub_time_' <= now
      BY <2>3, <3>1, <3>3 DEF RateInv
    <3> QED BY <2>3, <3>1, <3>4, <3>5 DEF RateInv
  <2> QED BY <1>2, <2>1, <2>2, <2>3 DEF ReadClock
<1>3. CASE \/ Observe \/ TestQuit \/ WaitFor \/ WakeEmpty \/ TakePacket
           \/ CheckTimerSync \/ CheckTimerNoSync \/ Uninit
  BY <1>3 DEF RateInv, clock, Observe, PushPacket, OnLivoxLidarPointCloudCallback,
     OnImuPacket, TestQuit, WaitFor, WakeEmpty, TakePacket, CheckTimerSync,
     CheckTimerNoSync, Uninit, RemovePointCloudObserver, RequestExit, Join
<1>4. CASE UNCHANGED vars
  BY <1>4 DEF RateInv, vars
<1> QED BY <1>1, <1>2, <1>3, <1>4 DEF Next, RawDataProcess

(* Without synchronisation PubHandler never publishes more than one frame   *)
(* per interval, counted from the reading that started its clock.           *)
THEOREM NoSyncRateHolds == Spec => []NoSyncRate
<1>1. RateInv => NoSyncRate
  BY IntervalAssumption DEF RateInv, NoSyncRate
<1> QED BY RateInit, RateNext, <1>1, PTL DEF Spec
-----------------------------------------------------------------------------
(* The packets still to be taken, and the packet the thread is about.       *)
PacketsInv ==
  /\ arriving \in Seq(Packet) /\ Len(arriving) <= 1
  /\ raw_packet_queue_ \in Seq(Packet)
  /\ points_clouds_ \in [Lidar -> Seq(Packet)]
  /\ sent \in [Lidar -> Nat] /\ sync_end \in [Lidar -> Nat]
  /\ now \in 1..MaxTime
  /\ pc \in {"check", "read_clock"} =>
       LET collected == points_clouds_[raw_data.lidar]
       IN  /\ raw_data \in Packet
           /\ Len(collected) > 0 /\ raw_data = collected[Len(collected)]

LEMMA PacketParts ==
  ASSUME NEW p \in Packet
  PROVE  /\ p.lidar \in Lidar /\ p.number \in Nat /\ p.sync \in BOOLEAN
         /\ p.time_stamp \in Nat /\ p.time_stamp > 0 /\ p.time_stamp < StampMod
BY HostEpochAssumption, StampModAssumption DEF Packet

LEMMA PacketsInit == Init => PacketsInv
BY StampModAssumption DEF Init, PacketsInv

LEMMA PacketsCallback ==
  ASSUME PacketsInv, NEW l \in Lidar, OnLivoxLidarPointCloudCallback(l)
  PROVE  PacketsInv'
<1>1. PICK sync \in TimeTypes[l][sent[l] + 1] :
        arriving' = <<[lidar |-> l, number |-> sent[l] + 1, sync |-> sync,
                       time_stamp |-> TimeStamp(sync)]>>
  BY DEF OnLivoxLidarPointCloudCallback
<1>2. sync \in BOOLEAN
  <2>1. sent[l] \in Nat /\ TimeTypes[l] \in Seq(SUBSET BOOLEAN) /\ sent[l] < Len(TimeTypes[l])
    BY TimeTypesAssumption DEF PacketsInv, OnLivoxLidarPointCloudCallback
  <2>2. TimeTypes[l][sent[l] + 1] \in SUBSET BOOLEAN
    BY <2>1
  <2> QED BY <2>2
<1>3. TimeStamp(sync) \in 1..MaxTime \cup (HostEpoch + 1)..(HostEpoch + MaxTime)
  BY HostEpochAssumption, StampModAssumption DEF TimeStamp, PacketsInv
<1>4. [lidar |-> l, number |-> sent[l] + 1, sync |-> sync,
       time_stamp |-> TimeStamp(sync)] \in Packet
  BY <1>2, <1>3 DEF Packet, PacketsInv
<1>5. arriving' \in Seq(Packet) /\ Len(arriving') <= 1
  BY <1>1, <1>4
<1> QED BY <1>5 DEF PacketsInv, OnLivoxLidarPointCloudCallback, thread

LEMMA PacketsPush == PacketsInv /\ PushPacket => PacketsInv'
BY DEF PacketsInv, PushPacket, thread

LEMMA PacketsTake == PacketsInv /\ TakePacket => PacketsInv'
<1> SUFFICES ASSUME PacketsInv, TakePacket PROVE PacketsInv'
  OBVIOUS
<1> DEFINE p == Head(raw_packet_queue_)
<1>1. p \in Packet /\ Tail(raw_packet_queue_) \in Seq(Packet)
  BY DEF PacketsInv, TakePacket, QueueEmpty
<1>2. p.lidar \in Lidar /\ points_clouds_[p.lidar] \in Seq(Packet)
  BY <1>1, PacketParts DEF PacketsInv
<1>3. /\ points_clouds_' = [points_clouds_ EXCEPT ![p.lidar] = Append(@, p)]
      /\ raw_data' = p /\ raw_packet_queue_' = Tail(raw_packet_queue_)
      /\ sync_end' \in {sync_end, [sync_end EXCEPT ![p.lidar] = 0]}
  BY DEF TakePacket
<1>4. points_clouds_'[p.lidar] = Append(points_clouds_[p.lidar], p)
  BY <1>2, <1>3 DEF PacketsInv
<1>5. points_clouds_' \in [Lidar -> Seq(Packet)] /\ sync_end' \in [Lidar -> Nat]
  <2>1. Append(points_clouds_[p.lidar], p) \in Seq(Packet)
    BY <1>1, <1>2
  <2>2. points_clouds_' \in [Lidar -> Seq(Packet)]
    BY <1>3, <2>1 DEF PacketsInv
  <2>3. sync_end' \in [Lidar -> Nat]
    BY <1>3 DEF PacketsInv
  <2> QED BY <2>2, <2>3
<1>6. LET collected == points_clouds_'[raw_data'.lidar]
      IN  /\ raw_data' \in Packet
          /\ Len(collected) > 0 /\ raw_data' = collected[Len(collected)]
  BY <1>1, <1>2, <1>3, <1>4
<1> QED BY <1>1, <1>3, <1>5, <1>6 DEF PacketsInv, TakePacket, observer

LEMMA PacketsPublish ==
  ASSUME PacketsInv, NEW S, PublishPointCloud(S)
  PROVE  points_clouds_' \in [Lidar -> Seq(Packet)]
BY DEF PacketsInv, PublishPointCloud

LEMMA RecentIsNat ==
  ASSUME PacketsInv, NEW l \in Lidar
  PROVE  RecentTimeStamp(l) \in Nat
<1>1. CASE points_clouds_[l] = <<>>
  BY <1>1 DEF RecentTimeStamp
<1>2. CASE points_clouds_[l] # <<>>
  <2>1. points_clouds_[l][Len(points_clouds_[l])] \in Packet
    BY <1>2 DEF PacketsInv
  <2> QED BY <1>2, <2>1, PacketParts DEF RecentTimeStamp
<1> QED BY <1>1, <1>2

LEMMA PacketsSync == PacketsInv /\ CheckTimerSync => PacketsInv'
<1> SUFFICES ASSUME PacketsInv, CheckTimerSync PROVE PacketsInv'
  OBVIOUS
<1>1. raw_data.lidar \in Lidar
  BY PacketParts DEF PacketsInv, CheckTimerSync
<1>2. points_clouds_' \in [Lidar -> Seq(Packet)]
  BY PacketsPublish DEF PacketsInv, CheckTimerSync
<1>3. sync_end' \in [Lidar -> Nat]
  <2>1. RecentTimeStamp(raw_data.lidar) \in Nat
    BY <1>1, RecentIsNat
  <2>2. \/ sync_end' = sync_end
        \/ \E t \in Nat : sync_end' = [sync_end EXCEPT ![raw_data.lidar] = t]
    BY <2>1 DEF CheckTimerSync
  <2> QED BY <2>2 DEF PacketsInv
<1> QED BY <1>2, <1>3 DEF PacketsInv, CheckTimerSync, observer

LEMMA PacketsClock == PacketsInv /\ ReadClock => PacketsInv'
<1> SUFFICES ASSUME PacketsInv, ReadClock PROVE PacketsInv'
  OBVIOUS
<1>1. points_clouds_' \in [Lidar -> Seq(Packet)]
  BY PacketsPublish DEF PacketsInv, ReadClock
<1> QED BY <1>1 DEF PacketsInv, ReadClock, observer

LEMMA PacketsNext == PacketsInv /\ [Next]_vars => PacketsInv'
<1> SUFFICES ASSUME PacketsInv, [Next]_vars PROVE PacketsInv'
  OBVIOUS
<1>1. CASE Tick
  BY <1>1, StampModAssumption DEF PacketsInv, Tick, observer, thread
<1>2. CASE \E l \in Lidar : OnImuPacket(l)
  BY <1>2 DEF PacketsInv, OnImuPacket, thread
<1>3. CASE TestQuit \/ WaitFor \/ WakeEmpty
  BY <1>3 DEF PacketsInv, TestQuit, WaitFor, WakeEmpty, observer
<1>4. CASE CheckTimerNoSync
  BY <1>4 DEF PacketsInv, CheckTimerNoSync, observer
<1>5. CASE Uninit
  BY <1>5 DEF PacketsInv, Uninit, RemovePointCloudObserver, RequestExit, Join,
     observer, thread
<1>6. CASE UNCHANGED vars
  BY <1>6 DEF PacketsInv, vars
<1> QED
  BY <1>1, <1>2, <1>3, <1>4, <1>5, <1>6, PacketsCallback, PacketsPush, PacketsTake,
     PacketsSync, PacketsClock DEF Next, Observe, RawDataProcess
-----------------------------------------------------------------------------
(* No synchronised packet still to be taken is earlier than t.              *)
NotLater(t) ==
  /\ t <= now
  /\ \A i \in 1..Len(raw_packet_queue_) :
       raw_packet_queue_[i].sync => t <= raw_packet_queue_[i].time_stamp
  /\ \A i \in 1..Len(arriving) : arriving[i].sync => t <= arriving[i].time_stamp

(* Synchronised packets are taken in the order of their time stamps.        *)
OrderInv ==
  /\ \A i \in 1..Len(arriving) : arriving[i].sync => arriving[i].time_stamp <= now
  /\ \A i \in 1..Len(raw_packet_queue_) : raw_packet_queue_[i].sync =>
       /\ raw_packet_queue_[i].time_stamp <= now
       /\ \A j \in i..Len(raw_packet_queue_) : raw_packet_queue_[j].sync =>
            raw_packet_queue_[i].time_stamp <= raw_packet_queue_[j].time_stamp
       /\ \A j \in 1..Len(arriving) : arriving[j].sync =>
            raw_packet_queue_[i].time_stamp <= arriving[j].time_stamp
  /\ \A l \in Lidar :
       /\ NotLater(sync_end[l])
       /\ \A k \in 1..Len(points_clouds_[l]) : points_clouds_[l][k].sync =>
            NotLater(points_clouds_[l][k].time_stamp)

(* Since the last synchronised frame of l, which ended at a multiple of the *)
(* interval, its points are synchronised, not earlier, and in order.        *)
FrameInv ==
  \A l \in Lidar : sync_end[l] # 0 =>
    /\ (sync_end[l] \div TicksPerMs) % PublishIntervalMs = 0
    /\ \A k \in 1..Len(points_clouds_[l]) :
         /\ points_clouds_[l][k].sync
         /\ sync_end[l] <= points_clouds_[l][k].time_stamp
         /\ \A j \in k..Len(points_clouds_[l]) :
              points_clouds_[l][k].time_stamp <= points_clouds_[l][j].time_stamp

EndsInv == PacketsInv /\ OrderInv /\ FrameInv

LEMMA EndsInit == Init => EndsInv
BY PacketsInit, StampModAssumption DEF Init, EndsInv, OrderInv, FrameInv, NotLater

(* Time passes, or nothing the invariant speaks of changes.                 *)
LEMMA EndsKept ==
  ASSUME EndsInv, PacketsInv', now' >= now, now' \in Nat,
         UNCHANGED <<arriving, raw_packet_queue_, points_clouds_, sync_end>>
  PROVE  EndsInv'
<1>1. OrderInv'
  <2>1. \A t : t \in Nat /\ NotLater(t) => NotLater(t)'
    BY DEF NotLater, EndsInv, PacketsInv
  <2>2. \A i \in 1..Len(arriving) : arriving[i] \in Packet
    BY DEF EndsInv, PacketsInv
  <2>3. \A i \in 1..Len(raw_packet_queue_) : raw_packet_queue_[i] \in Packet
    BY DEF EndsInv, PacketsInv
  <2>4. \A l \in Lidar : \A k \in 1..Len(points_clouds_[l]) : points_clouds_[l][k] \in Packet
    BY DEF EndsInv, PacketsInv
  <2> QED
    BY <2>1, <2>2, <2>3, <2>4, PacketParts DEF EndsInv, OrderInv, PacketsInv
<1>2. FrameInv'
  BY DEF EndsInv, FrameInv
<1> QED BY <1>1, <1>2 DEF EndsInv

LEMMA EndsCallback ==
  ASSUME EndsInv, NEW l \in Lidar, OnLivoxLidarPointCloudCallback(l)
  PROVE  EndsInv'
<1>1. PICK sync \in TimeTypes[l][sent[l] + 1] :
        arriving' = <<[lidar |-> l, number |-> sent[l] + 1, sync |-> sync,
                       time_stamp |-> TimeStamp(sync)]>>
  BY DEF OnLivoxLidarPointCloudCallback
<1>2. /\ arriving = <<>>
      /\ UNCHANGED <<now, raw_packet_queue_, points_clouds_, sync_end>>
  BY DEF OnLivoxLidarPointCloudCallback
<1>3. \A i \in 1..Len(arriving') : arriving'[i].sync => arriving'[i].time_stamp = now
  BY <1>1 DEF TimeStamp
<1>4. \A t : NotLater(t) => NotLater(t)'
  BY <1>2, <1>3 DEF NotLater
<1>5. OrderInv'
  BY <1>2, <1>3, <1>4 DEF EndsInv, OrderInv, PacketsInv
<1>6. FrameInv'
  BY <1>2 DEF EndsInv, FrameInv
<1> QED BY <1>5, <1>6, PacketsCallback DEF EndsInv

LEMMA EndsPush == EndsInv /\ PushPacket => EndsInv'
<1> SUFFICES ASSUME EndsInv, PushPacket PROVE EndsInv'
  OBVIOUS
<1>1. /\ arriving \in Seq(Packet) /\ raw_packet_queue_ \in Seq(Packet)
      /\ Len(arriving) = 1 /\ arriving' = <<>>
      /\ raw_packet_queue_' = Append(raw_packet_queue_, arriving[1])
      /\ UNCHANGED <<now, points_clouds_, sync_end>>
  <2>1. arriving \in Seq(Packet) /\ Len(arriving) <= 1 /\ arriving # <<>>
    BY DEF EndsInv, PacketsInv, PushPacket
  <2>2. Len(arriving) = 1
    BY <2>1, EmptySeq
  <2> QED BY <2>1, <2>2 DEF EndsInv, PacketsInv, PushPacket
<1>2. /\ Len(raw_packet_queue_') = Len(raw_packet_queue_) + 1
      /\ \A i \in 1..Len(raw_packet_queue_') :
           raw_packet_queue_'[i] = IF i <= Len(raw_packet_queue_)
                                   THEN raw_packet_queue_[i] ELSE arriving[1]
  BY <1>1
<1>3. \A t : NotLater(t) => NotLater(t)'
  BY <1>1, <1>2 DEF NotLater
<1>4. OrderInv'
  <2>1. arriving[1].sync => arriving[1].time_stamp <= now
    BY <1>1 DEF EndsInv, OrderInv
  <2>2. arriving[1].time_stamp \in Nat
    <3>0. 1 \in 1..Len(arriving) /\ arriving \in Seq(Packet)
      BY <1>1
    <3>1. arriving[1] \in Packet
      BY <3>0, ElementOfSeq
    <3> QED BY <3>1, PacketParts
  <2>3. \A i \in 1..Len(raw_packet_queue_') : raw_packet_queue_'[i].sync =>
          /\ raw_packet_queue_'[i].time_stamp <= now
          /\ \A j \in i..Len(raw_packet_queue_') : raw_packet_queue_'[j].sync =>
               raw_packet_queue_'[i].time_stamp <= raw_packet_queue_'[j].time_stamp
    BY <1>1, <1>2, <2>1, <2>2 DEF EndsInv, OrderInv
  <2> QED BY <1>1, <1>3, <2>3 DEF EndsInv, OrderInv
<1>5. FrameInv'
  BY <1>1 DEF EndsInv, FrameInv
<1> QED BY <1>4, <1>5, PacketsPush DEF EndsInv

LEMMA EndsTake == EndsInv /\ TakePacket => EndsInv'
<1> SUFFICES ASSUME EndsInv, TakePacket PROVE EndsInv'
  OBVIOUS
<1> DEFINE q == raw_packet_queue_
           p == Head(q)
           ps == points_clouds_[p.lidar]
<1>1. /\ q \in Seq(Packet) /\ q # <<>> /\ q' = Tail(q)
      /\ UNCHANGED <<now, arriving>>
      /\ points_clouds_' = [points_clouds_ EXCEPT ![p.lidar] = Append(@, p)]
      /\ sync_end' = IF p.sync THEN sync_end ELSE [sync_end EXCEPT ![p.lidar] = 0]
  BY DEF EndsInv, PacketsInv, TakePacket, QueueEmpty, observer
<1>2. /\ Len(q) > 0 /\ p = q[1] /\ Len(q') = Len(q) - 1
      /\ \A i \in 1..Len(q') : q'[i] = q[i + 1]
      /\ \A i \in 1..Len(q) : q[i] \in Packet
  BY <1>1
<1>3. p \in Packet /\ p.lidar \in Lidar /\ p.time_stamp \in Nat
  BY <1>2, PacketParts
<1>4. /\ ps \in Seq(Packet) /\ points_clouds_'[p.lidar] = Append(ps, p)
      /\ \A l \in Lidar \ {p.lidar} : points_clouds_'[l] = points_clouds_[l]
  BY <1>1, <1>3 DEF EndsInv, PacketsInv
<1>5. /\ Len(points_clouds_'[p.lidar]) = Len(ps) + 1
      /\ \A k \in 1..(Len(ps) + 1) :
           points_clouds_'[p.lidar][k] = IF k <= Len(ps) THEN ps[k] ELSE p
  BY <1>3, <1>4
<1>6. \A l \in Lidar : sync_end'[l] = IF p.sync \/ l # p.lidar THEN sync_end[l] ELSE 0
  BY <1>1, <1>3 DEF EndsInv, PacketsInv
<1>7. \A t : NotLater(t) => NotLater(t)'
  BY <1>1, <1>2 DEF NotLater
<1>8. \A t : p.sync /\ t = p.time_stamp => NotLater(t)'
  BY <1>1, <1>2, <1>3 DEF NotLater, EndsInv, OrderInv
<1>9. NotLater(0)'
  <2>1. \A i \in 1..Len(q') : q'[i] \in Packet
    BY <1>1, <1>2
  <2>2. \A i \in 1..Len(arriving) : arriving[i] \in Packet
    BY DEF EndsInv, PacketsInv
  <2>3. now \in Nat
    BY StampModAssumption DEF EndsInv, PacketsInv
  <2> QED BY <1>1, <2>1, <2>2, <2>3, PacketParts DEF NotLater
<1>10. OrderInv'
  <2>1. \A i \in 1..Len(arriving') : arriving'[i].sync => arriving'[i].time_stamp <= now'
    BY <1>1 DEF EndsInv, OrderInv
  <2>2. \A i \in 1..Len(q') : q'[i].sync =>
          /\ q'[i].time_stamp <= now'
          /\ \A j \in i..Len(q') : q'[j].sync => q'[i].time_stamp <= q'[j].time_stamp
          /\ \A j \in 1..Len(arriving') : arriving'[j].sync =>
               q'[i].time_stamp <= arriving'[j].time_stamp
    BY <1>1, <1>2 DEF EndsInv, OrderInv
  <2>3. \A l \in Lidar : \A t : t = sync_end'[l] => NotLater(t)'
    BY <1>6, <1>7, <1>9 DEF EndsInv, OrderInv
  <2>4. \A l \in Lidar : \A k \in 1..Len(points_clouds_'[l]) :
          \A t : points_clouds_'[l][k].sync /\ t = points_clouds_'[l][k].time_stamp
                  => NotLater(t)'
    <3> SUFFICES ASSUME NEW l \in Lidar, NEW k \in 1..Len(points_clouds_'[l]), NEW t,
                        points_clouds_'[l][k].sync, t = points_clouds_'[l][k].time_stamp
                 PROVE  NotLater(t)'
      OBVIOUS
    <3>0. \A x \in Lidar : \A j \in 1..Len(points_clouds_[x]) :
            points_clouds_[x][j].sync => NotLater(points_clouds_[x][j].time_stamp)
      BY DEF EndsInv, OrderInv
    <3>1. CASE l # p.lidar
      <4>1. points_clouds_'[l] = points_clouds_[l]
        BY <1>4, <3>1
      <4>2. NotLater(t)
        BY <3>0, <4>1
      <4> QED BY <1>7, <4>2
    <3>2. CASE l = p.lidar /\ k <= Len(ps)
      <4>1. k \in 1..Len(ps) /\ points_clouds_'[l][k] = ps[k]
        BY <1>4, <1>5, <3>2
      <4>2. k \in 1..Len(points_clouds_[l]) /\ points_clouds_'[l][k] = points_clouds_[l][k]
        BY <3>2, <4>1
      <4>3. NotLater(t)
        BY <3>0, <4>2
      <4> QED BY <1>7, <4>3
    <3>3. CASE l = p.lidar /\ k > Len(ps)
      BY <1>3, <1>4, <1>5, <1>8, <3>3
    <3> QED BY <1>4, <3>1, <3>2, <3>3
  <2>5. \A l \in Lidar :
          /\ NotLater(sync_end[l])'
          /\ \A k \in 1..Len(points_clouds_'[l]) :
               points_clouds_'[l][k].sync => NotLater(points_clouds_[l][k].time_stamp)'
    BY <2>3, <2>4
  <2> QED BY <2>1, <2>2, <2>5 DEF OrderInv
<1>11. FrameInv'
  <2> SUFFICES ASSUME NEW l \in Lidar, sync_end'[l] # 0
               PROVE  /\ (sync_end'[l] \div TicksPerMs) % PublishIntervalMs = 0
                      /\ \A k \in 1..Len(points_clouds_'[l]) :
                           /\ points_clouds_'[l][k].sync
                           /\ sync_end'[l] <= points_clouds_'[l][k].time_stamp
                           /\ \A j \in k..Len(points_clouds_'[l]) :
                                points_clouds_'[l][k].time_stamp
                                  <= points_clouds_'[l][j].time_stamp
    BY DEF FrameInv
  <2>1. CASE l # p.lidar
    BY <1>4, <1>6, <2>1 DEF EndsInv, FrameInv
  <2>2. CASE l = p.lidar
    <3>1. p.sync /\ sync_end'[l] = sync_end[l]
      BY <1>6, <2>2
    <3>2. /\ (sync_end[l] \div TicksPerMs) % PublishIntervalMs = 0
          /\ \A k \in 1..Len(ps) :
               /\ ps[k].sync /\ sync_end[l] <= ps[k].time_stamp
               /\ \A j \in k..Len(ps) : ps[k].time_stamp <= ps[j].time_stamp
      BY <1>3, <2>2, <3>1 DEF EndsInv, FrameInv
    <3>3. sync_end[l] <= p.time_stamp
      BY <1>2, <3>1 DEF EndsInv, OrderInv, NotLater
    <3>4. \A k \in 1..Len(ps) : ps[k].time_stamp <= p.time_stamp
      <4> SUFFICES ASSUME NEW k \in 1..Len(ps) PROVE ps[k].time_stamp <= p.time_stamp
        OBVIOUS
      <4>1. NotLater(ps[k].time_stamp)
        BY <1>3, <3>2 DEF EndsInv, OrderInv
      <4>2. 1 \in 1..Len(q) /\ q[1].sync /\ q[1].time_stamp = p.time_stamp
        BY <1>2, <3>1
      <4> QED BY <4>1, <4>2 DEF NotLater
    <3>5. /\ Len(points_clouds_'[l]) = Len(ps) + 1 /\ Len(ps) \in Nat
          /\ \A k \in 1..(Len(ps) + 1) :
               points_clouds_'[l][k] = IF k <= Len(ps) THEN ps[k] ELSE p
      BY <1>4, <1>5, <2>2
    <3>6. \A k \in 1..(Len(ps) + 1) :
            /\ points_clouds_'[l][k].sync
            /\ sync_end[l] <= points_clouds_'[l][k].time_stamp
      <4> SUFFICES ASSUME NEW k \in 1..(Len(ps) + 1)
                   PROVE  /\ points_clouds_'[l][k].sync
                          /\ sync_end[l] <= points_clouds_'[l][k].time_stamp
        OBVIOUS
      <4>1. CASE k <= Len(ps)
        BY <3>2, <3>5, <4>1
      <4>2. CASE k > Len(ps)
        BY <3>1, <3>3, <3>5, <4>2
      <4> QED BY <3>5, <4>1, <4>2
    <3>7. \A k \in 1..(Len(ps) + 1) : \A j \in k..(Len(ps) + 1) :
            points_clouds_'[l][k].time_stamp <= points_clouds_'[l][j].time_stamp
      <4> SUFFICES ASSUME NEW k \in 1..(Len(ps) + 1), NEW j \in k..(Len(ps) + 1)
                   PROVE  points_clouds_'[l][k].time_stamp
                            <= points_clouds_'[l][j].time_stamp
        OBVIOUS
      <4>1. CASE j <= Len(ps)
        <5>1. k \in 1..Len(ps) /\ j \in k..Len(ps) /\ j \in 1..Len(ps)
          BY <3>5, <4>1
        <5>2. ps[k].time_stamp <= ps[j].time_stamp
          BY <3>2, <5>1
        <5> QED BY <3>5, <5>1, <5>2
      <4>2. CASE k <= Len(ps) /\ j > Len(ps)
        BY <3>4, <3>5, <4>2
      <4>3. CASE k > Len(ps)
        BY <1>3, <3>5, <4>3
      <4> QED BY <3>5, <4>1, <4>2, <4>3
    <3> QED BY <3>1, <3>2, <3>5, <3>6, <3>7
  <2> QED BY <2>1, <2>2
<1> QED BY <1>10, <1>11, PacketsTake DEF EndsInv

(* Multiples of k that differ, differ by k or more.                         *)
LEMMA MultiplesApart ==
  ASSUME NEW k \in Nat \ {0}, NEW a \in Nat, NEW b \in Nat,
         a % k = 0, b % k = 0, a < b
  PROVE  b - a >= k
<1>1. PICK i \in Int : a = k * i
  <2>1. a = k * (a \div k) + (a % k) /\ a \div k \in Int
    OBVIOUS
  <2>2. k * (a \div k) \in Int
    BY <2>1
  <2>3. a = k * (a \div k)
    BY <2>1, <2>2
  <2> QED BY <2>1, <2>3, Zenon
<1>2. PICK j \in Int : b = k * j
  <2>1. b = k * (b \div k) + (b % k) /\ b \div k \in Int
    OBVIOUS
  <2>2. k * (b \div k) \in Int
    BY <2>1
  <2>3. b = k * (b \div k)
    BY <2>1, <2>2
  <2> QED BY <2>1, <2>3, Zenon
<1>3. i < j
  BY <1>1, <1>2
<1>4. k * (j - i) >= k
  BY <1>3
<1> QED BY <1>1, <1>2, <1>4

LEMMA AMillisecondLater ==
  ASSUME NEW k \in Nat \ {0}, NEW a \in Nat, NEW b \in Nat, b >= a + k
  PROVE  a \div k < b \div k /\ a \div k \in Nat /\ b \div k \in Nat
OBVIOUS

LEMMA IntervalMsIsPositive == PublishIntervalMs \in Nat \ {0}
BY IntervalAssumption DEF PublishIntervalMs

LEMMA NoWrap ==
  ASSUME NEW a \in Nat, NEW m \in Nat, a < m
  PROVE  a % m = a
OBVIOUS

(* What the thread has in its hands when it looks at the flag.              *)
LEMMA Collected ==
  ASSUME EndsInv, CheckTimerSync
  PROVE  LET l  == raw_data.lidar
             ps == points_clouds_[l]
         IN  /\ l \in Lidar /\ ps \in Seq(Packet) /\ Len(ps) > 0
             /\ raw_data = ps[Len(ps)]
             /\ LidarBaseTime(l) = ps[1].time_stamp
             /\ RecentTimeStamp(l) = ps[Len(ps)].time_stamp
             /\ ps[1].time_stamp \in Nat
             /\ ps[Len(ps)].time_stamp \in Nat
             /\ ps[Len(ps)].time_stamp < StampMod
<1> DEFINE l == raw_data.lidar
           ps == points_clouds_[l]
<1>1. raw_data \in Packet /\ Len(ps) > 0 /\ raw_data = ps[Len(ps)]
  BY DEF EndsInv, PacketsInv, CheckTimerSync
<1>2. l \in Lidar
  BY <1>1, PacketParts
<1>3. ps \in Seq(Packet) /\ ps # <<>>
  BY <1>1, <1>2 DEF EndsInv, PacketsInv
<1>4. 1 \in 1..Len(ps) /\ ps[1] \in Packet
  BY <1>1, <1>3
<1>5. LidarBaseTime(l) = ps[1].time_stamp /\ RecentTimeStamp(l) = ps[Len(ps)].time_stamp
  BY <1>3 DEF LidarBaseTime, RecentTimeStamp
<1> QED BY <1>1, <1>2, <1>3, <1>4, <1>5, PacketParts

LEMMA NoWrapBelow ==
  ASSUME NEW r \in Nat, NEW b \in Nat, NEW m \in Nat, b <= r, r < m
  PROVE  (r - b) % m = r - b
<1>1. r - b \in Nat /\ r - b < m
  OBVIOUS
<1> QED BY <1>1, NoWrap

LEMMA GapOfATick ==
  ASSUME NEW s \in Nat, NEW b \in Nat, NEW r \in Nat, NEW t \in Nat, NEW i \in Nat,
         s <= b, i >= 2 * t, r - b >= i - t
  PROVE  r >= s + t
OBVIOUS

(* A synchronised frame ends an interval or more after the last one.        *)
LEMMA FrameEndsLater ==
  ASSUME EndsInv, CheckTimerSync, SyncDue(raw_data.lidar),
         sync_end[raw_data.lidar] # 0
  PROVE  LET l == raw_data.lidar
         IN  /\ raw_data.sync
             /\ (RecentTimeStamp(l) \div TicksPerMs) - (sync_end[l] \div TicksPerMs)
                  >= PublishIntervalMs
<1> DEFINE l      == raw_data.lidar
           ps     == points_clouds_[l]
           base   == ps[1].time_stamp
           recent == ps[Len(ps)].time_stamp
<1>1. /\ l \in Lidar /\ ps \in Seq(Packet) /\ Len(ps) > 0 /\ raw_data = ps[Len(ps)]
      /\ LidarBaseTime(l) = base /\ RecentTimeStamp(l) = recent
      /\ base \in Nat /\ recent \in Nat /\ recent < StampMod
  BY Collected
<1>2. /\ (sync_end[l] \div TicksPerMs) % PublishIntervalMs = 0
      /\ \A k \in 1..Len(ps) :
           /\ ps[k].sync /\ sync_end[l] <= ps[k].time_stamp
           /\ \A j \in k..Len(ps) : ps[k].time_stamp <= ps[j].time_stamp
  BY <1>1 DEF EndsInv, FrameInv
<1>3. 1 \in 1..Len(ps) /\ Len(ps) \in 1..Len(ps) /\ Len(ps) \in Nat
  BY <1>1
<1>4. sync_end[l] <= base /\ base <= recent /\ ps[Len(ps)].sync
  BY <1>2, <1>3
<1>5. sync_end[l] \in Nat
  BY <1>1 DEF EndsInv, PacketsInv
<1>6. recent - base >= PublishIntervalTolerance
  <2>1. (recent - base) % StampMod = recent - base
    <3>1. StampMod \in Nat
      BY StampModAssumption
    <3> QED BY <1>1, <1>4, <3>1, NoWrapBelow
  <2> QED BY <1>1, <2>1 DEF SyncDue
<1>7. recent >= sync_end[l] + TicksPerMs
  <2>1. TicksPerMs \in Nat /\ Interval \in Nat /\ Interval >= 2 * TicksPerMs
    BY IntervalAssumption
  <2>2. recent - base >= Interval - TicksPerMs
    BY <1>6 DEF PublishIntervalTolerance
  <2> QED BY <1>1, <1>4, <1>5, <2>1, <2>2, GapOfATick
<1>8. /\ sync_end[l] \div TicksPerMs < recent \div TicksPerMs
      /\ sync_end[l] \div TicksPerMs \in Nat /\ recent \div TicksPerMs \in Nat
  BY <1>1, <1>5, <1>7, IntervalAssumption, AMillisecondLater
<1>9. (recent \div TicksPerMs) % PublishIntervalMs = 0
  BY <1>1 DEF SyncDue, RecentTimeMs
<1>10. (recent \div TicksPerMs) - (sync_end[l] \div TicksPerMs) >= PublishIntervalMs
  BY <1>2, <1>8, <1>9, IntervalMsIsPositive, MultiplesApart
<1> QED BY <1>1, <1>4, <1>10

LEMMA EndsPublish ==
  ASSUME EndsInv, NEW S, PublishPointCloud(S), NEW l \in Lidar
  PROVE  points_clouds_'[l] = IF l \in S THEN <<>> ELSE points_clouds_[l]
BY DEF PublishPointCloud

LEMMA EndsSync == EndsInv /\ CheckTimerSync => EndsInv'
<1> SUFFICES ASSUME EndsInv, CheckTimerSync PROVE EndsInv'
  OBVIOUS
<1> DEFINE l  == raw_data.lidar
           ps == points_clouds_[l]
<1>1. PacketsInv'
  BY PacketsSync DEF EndsInv
<1>2. CASE ~SyncDue(l)
  <2>1. now' >= now /\ now' \in Nat
    BY StampModAssumption DEF CheckTimerSync, EndsInv, PacketsInv
  <2>2. UNCHANGED <<arriving, raw_packet_queue_, points_clouds_, sync_end>>
    BY <1>2 DEF CheckTimerSync, observer
  <2> QED BY <1>1, <2>1, <2>2, EndsKept
<1>3. CASE SyncDue(l)
  <2>1. /\ PublishPointCloud({l})
        /\ sync_end' = [sync_end EXCEPT
                          ![l] = IF raw_data.sync THEN RecentTimeStamp(l) ELSE 0]
        /\ UNCHANGED <<now, arriving, raw_packet_queue_>>
    BY <1>3 DEF CheckTimerSync, observer
  <2>2. \A m \in Lidar : points_clouds_'[m] = IF m = l THEN <<>> ELSE points_clouds_[m]
    BY <2>1, EndsPublish
  <2>3. /\ l \in Lidar /\ ps \in Seq(Packet) /\ Len(ps) > 0 /\ raw_data = ps[Len(ps)]
        /\ RecentTimeStamp(l) = ps[Len(ps)].time_stamp
    BY Collected
  <2>4. \A m \in Lidar : sync_end'[m] = IF m # l THEN sync_end[m]
                                        ELSE IF raw_data.sync THEN RecentTimeStamp(l) ELSE 0
    BY <2>1, <2>3 DEF EndsInv, PacketsInv
  <2>5. \A t : NotLater(t) => NotLater(t)'
    BY <2>1 DEF NotLater
  <2>6. \A t : raw_data.sync /\ t = RecentTimeStamp(l) => NotLater(t)
    BY <2>3 DEF EndsInv, OrderInv
  <2>7. NotLater(0)
    <3>1. \A i \in 1..Len(raw_packet_queue_) : raw_packet_queue_[i] \in Packet
      BY DEF EndsInv, PacketsInv
    <3>2. \A i \in 1..Len(arriving) : arriving[i] \in Packet
      BY DEF EndsInv, PacketsInv
    <3> QED BY <3>1, <3>2, PacketParts, StampModAssumption DEF NotLater, EndsInv, PacketsInv
  <2>8. \A m \in Lidar : \A t : t = sync_end'[m] => NotLater(t)'
    BY <2>4, <2>5, <2>6, <2>7 DEF EndsInv, OrderInv
  <2>9. OrderInv'
    <3>1. \A m \in Lidar : \A k \in 1..Len(points_clouds_'[m]) :
            \A t : points_clouds_'[m][k].sync /\ t = points_clouds_'[m][k].time_stamp
                     => NotLater(t)'
      BY <2>2, <2>5 DEF EndsInv, OrderInv
    <3> QED BY <2>1, <2>8, <3>1 DEF EndsInv, OrderInv
  <2>10. FrameInv'
    <3>1. \A m \in Lidar \ {l} : /\ sync_end'[m] = sync_end[m]
                                 /\ points_clouds_'[m] = points_clouds_[m]
      BY <2>2, <2>4
    <3>2. points_clouds_'[l] = <<>> /\ Len(points_clouds_'[l]) = 0
      BY <2>2, <2>3
    <3>3. sync_end'[l] # 0 => (sync_end'[l] \div TicksPerMs) % PublishIntervalMs = 0
      BY <1>3, <2>3, <2>4 DEF SyncDue, RecentTimeMs
    <3> QED BY <3>1, <3>2, <3>3 DEF EndsInv, FrameInv
  <2> QED BY <1>1, <2>9, <2>10 DEF EndsInv
<1> QED BY <1>2, <1>3

LEMMA EndsClock == EndsInv /\ ReadClock => EndsInv'
<1> SUFFICES ASSUME EndsInv, ReadClock PROVE EndsInv'
  OBVIOUS
<1>1. PacketsInv' /\ now \in Nat
  BY PacketsClock, StampModAssumption DEF EndsInv, PacketsInv
<1>2. UNCHANGED <<now, arriving, raw_packet_queue_, sync_end>>
  BY DEF ReadClock, observer
<1>3. CASE UNCHANGED points_clouds_
  BY <1>1, <1>2, <1>3, EndsKept
<1>4. CASE PublishPointCloud(Lidar)
  <2>1. \A l \in Lidar : points_clouds_'[l] = <<>>
    BY <1>4, EndsPublish
  <2>2. \A t : NotLater(t) => NotLater(t)'
    BY <1>2 DEF NotLater
  <2>3. OrderInv'
    <3>1. \A l \in Lidar : \A t : t = sync_end'[l] => NotLater(t)'
      BY <1>2, <2>2 DEF EndsInv, OrderInv
    <3>2. \A l \in Lidar : Len(points_clouds_'[l]) = 0
      BY <2>1
    <3> QED BY <1>2, <3>1, <3>2 DEF EndsInv, OrderInv
  <2>4. FrameInv'
    <3>1. \A l \in Lidar : Len(points_clouds_'[l]) = 0
      BY <2>1
    <3> QED BY <1>2, <3>1 DEF EndsInv, FrameInv
  <2> QED BY <1>1, <2>3, <2>4 DEF EndsInv
<1> QED BY <1>3, <1>4 DEF ReadClock

LEMMA EndsNext == EndsInv /\ [Next]_vars => EndsInv'
<1> SUFFICES ASSUME EndsInv, [Next]_vars PROVE EndsInv'
  OBVIOUS
<1>1. PacketsInv' /\ now \in Nat
  BY PacketsNext, StampModAssumption DEF EndsInv, PacketsInv
<1>2. CASE Tick
  <2>1. now' >= now /\ now' \in Nat
    BY <1>1, <1>2 DEF Tick
  <2>2. UNCHANGED <<arriving, raw_packet_queue_, points_clouds_, sync_end>>
    BY <1>2 DEF Tick, observer
  <2> QED BY <1>1, <2>1, <2>2, EndsKept
<1>3. CASE \/ \E l \in Lidar : OnImuPacket(l)
           \/ TestQuit \/ WaitFor \/ WakeEmpty \/ CheckTimerNoSync
           \/ Uninit \/ UNCHANGED vars
  <2>1. UNCHANGED <<now, arriving, raw_packet_queue_, points_clouds_, sync_end>>
    BY <1>3 DEF OnImuPacket, TestQuit, WaitFor, WakeEmpty, CheckTimerNoSync, Uninit,
       RemovePointCloudObserver, RequestExit, Join, observer, vars
  <2>2. now' >= now /\ now' \in Nat
    BY <1>1, <2>1
  <2> QED BY <1>1, <2>1, <2>2, EndsKept
<1> QED
  BY <1>2, <1>3, EndsCallback, EndsPush, EndsTake, EndsSync, EndsClock
     DEF Next, Observe, RawDataProcess

(* Of any number of lidars, each with or without synchronisation, the       *)
(* synchronised frames of one end an interval or more apart, though each    *)
(* sets the one flag they share.                                            *)
THEOREM OneFramePerIntervalHolds == Spec => OneFramePerInterval
<1>1. EndsInv /\ [Next]_vars =>
        [\A l \in Lidar :
           (/\ pc = "check" /\ frame_' # frame_ /\ l \in DOMAIN frame_'
            /\ sync_end[l] # 0)
             => (sync_end'[l] \div TicksPerMs) - (sync_end[l] \div TicksPerMs)
                  >= PublishIntervalMs]_vars
  <2> SUFFICES ASSUME EndsInv, Next, NEW l \in Lidar, pc = "check", frame_' # frame_,
                      l \in DOMAIN frame_', sync_end[l] # 0
               PROVE  (sync_end'[l] \div TicksPerMs) - (sync_end[l] \div TicksPerMs)
                        >= PublishIntervalMs
    OBVIOUS
  <2>1. CheckTimerSync
    BY DEF Next, Observe, RawDataProcess, Uninit, Tick, PushPacket,
       OnLivoxLidarPointCloudCallback, OnImuPacket, TestQuit, WaitFor, WakeEmpty,
       TakePacket, CheckTimerNoSync, ReadClock, RemovePointCloudObserver,
       RequestExit, Join
  <2>2. SyncDue(raw_data.lidar) /\ PublishPointCloud({raw_data.lidar})
    BY <2>1 DEF CheckTimerSync
  <2>3. l = raw_data.lidar
    BY <2>2 DEF PublishPointCloud
  <2>4. sync_end'[l] = IF raw_data.sync THEN RecentTimeStamp(l) ELSE 0
    BY <2>1, <2>2, <2>3 DEF CheckTimerSync, EndsInv, PacketsInv
  <2> QED BY <2>1, <2>2, <2>3, <2>4, FrameEndsLater
<1> QED BY EndsInit, EndsNext, <1>1, PTL DEF Spec, OneFramePerInterval

(* The types that need no more than those of the packets and of the clock.  *)
RestInv ==
  /\ is_timestamp_sync_ \in BOOLEAN
  /\ pc \in {"loop", "lock", "waiting", "check", "read_clock", "ended"}
  /\ raw_data \in Packet \cup {NoPacket}
  /\ DOMAIN frame_ \subseteq Lidar
  /\ \A l \in DOMAIN frame_ : frame_[l].points \in Seq(Packet)
  /\ last_pub_time_ \in 0..MaxTime /\ first_time \in 0..MaxTime
  /\ is_quit_ \in BOOLEAN
  /\ uninit \in {"running", "removed", "joining", "done"}

LEMMA FrameTyped ==
  ASSUME PacketsInv, NEW S \in SUBSET Lidar, PublishPointCloud(S)
  PROVE  /\ DOMAIN frame_' \subseteq Lidar
         /\ \A l \in DOMAIN frame_' : frame_'[l].points \in Seq(Packet)
BY DEF PacketsInv, PublishPointCloud

LEMMA TimeTypeIsBoolean ==
  ASSUME NEW l \in Lidar, NEW n \in 1..Len(TimeTypes[l]), NEW sync \in TimeTypes[l][n]
  PROVE  sync \in BOOLEAN
<1>1. TimeTypes[l] \in Seq(SUBSET BOOLEAN)
  BY TimeTypesAssumption
<1>2. TimeTypes[l][n] \in SUBSET BOOLEAN
  BY <1>1, ElementOfSeq
<1> QED BY <1>2

LEMMA RestNext ==
  ASSUME RestInv, RateInv, PacketsInv, RateInv', PacketsInv', [Next]_vars
  PROVE  RestInv'
<1>1. CASE Tick
  BY <1>1 DEF RestInv, Tick, observer, thread, clock
<1>2. ASSUME NEW l \in Lidar, OnLivoxLidarPointCloudCallback(l)
      PROVE  RestInv'
  <2>1. sent[l] + 1 \in 1..Len(TimeTypes[l])
    BY <1>2, TimeTypesAssumption DEF OnLivoxLidarPointCloudCallback, PacketsInv
  <2>2. is_timestamp_sync_' \in BOOLEAN
    BY <1>2, <2>1, TimeTypeIsBoolean DEF OnLivoxLidarPointCloudCallback
  <2> QED BY <1>2, <2>2 DEF RestInv, OnLivoxLidarPointCloudCallback, thread, clock
<1>3. ASSUME NEW l \in Lidar, OnImuPacket(l)
      PROVE  RestInv'
  <2>1. is_timestamp_sync_' \in BOOLEAN
    BY <1>3, TimeTypeIsBoolean DEF OnImuPacket
  <2> QED BY <1>3, <2>1 DEF RestInv, OnImuPacket, thread, clock
<1>4. CASE PushPacket
  BY <1>4 DEF RestInv, PushPacket, thread, clock
<1>5. CASE TestQuit \/ WaitFor \/ WakeEmpty \/ CheckTimerNoSync
  BY <1>5 DEF RestInv, TestQuit, WaitFor, WakeEmpty, CheckTimerNoSync, observer, clock
<1>6. CASE TakePacket
  <2>1. raw_data' \in Packet
    BY <1>6 DEF TakePacket, PacketsInv
  <2> QED BY <1>6, <2>1 DEF RestInv, TakePacket, observer, clock
<1>7. CASE CheckTimerSync
  <2>1. raw_data.lidar \in Lidar
    BY <1>7, PacketParts DEF CheckTimerSync, PacketsInv
  <2>2. /\ DOMAIN frame_' \subseteq Lidar
        /\ \A l \in DOMAIN frame_' : frame_'[l].points \in Seq(Packet)
    BY <1>7, <2>1, FrameTyped DEF CheckTimerSync, RestInv
  <2> QED BY <1>7, <2>2 DEF RestInv, CheckTimerSync, observer, clock
<1>8. CASE ReadClock
  <2>1. /\ DOMAIN frame_' \subseteq Lidar
        /\ \A l \in DOMAIN frame_' : frame_'[l].points \in Seq(Packet)
    BY <1>8, FrameTyped DEF ReadClock, RestInv
  <2>2. last_pub_time_' \in 0..MaxTime /\ first_time' \in 0..MaxTime
    <3>1. now \in 0..MaxTime /\ now' = now
      BY <1>8 DEF ReadClock, PacketsInv
    <3>2. CASE first
      <4>1. last_pub_time_' = now /\ first_time' = now
        BY <1>8, <3>2, Zenon DEF ReadClock
      <4> QED BY <3>1, <4>1
    <3>3. CASE ~first /\ now - last_pub_time_ < Interval
      <4>1. ~(now - last_pub_time_ >= Interval)
        BY <3>1, <3>3, IntervalAssumption DEF RestInv
      <4>2. UNCHANGED <<last_pub_time_, first_time>>
        BY <1>8, <3>3, <4>1, Zenon DEF ReadClock, clock
      <4> QED BY <4>2 DEF RestInv
    <3>4. CASE ~first /\ ~(now - last_pub_time_ < Interval)
      <4>1. last_pub_time_ \in 0..MaxTime /\ first_time \in 0..MaxTime /\ Interval \in Nat
        BY IntervalAssumption DEF RestInv
      <4>2. last_pub_time_' = last_pub_time_ + Interval /\ first_time' = first_time
        BY <1>8, <3>4, Zenon DEF ReadClock, NextPubTime
      <4>3. last_pub_time_ + Interval <= now
        BY <3>1, <3>4, <4>1
      <4> QED BY <3>1, <4>1, <4>2, <4>3, StampModAssumption
    <3> QED BY <3>2, <3>3, <3>4
  <2> QED BY <1>8, <2>1, <2>2 DEF RestInv, ReadClock, observer
<1>9. CASE Uninit
  BY <1>9 DEF RestInv, Uninit, RemovePointCloudObserver, RequestExit, Join,
     observer, thread, clock
<1>10. CASE UNCHANGED vars
  BY <1>10 DEF RestInv, vars
<1> QED
  BY <1>1, <1>2, <1>3, <1>4, <1>5, <1>6, <1>7, <1>8, <1>9, <1>10
     DEF Next, Observe, RawDataProcess

(* The thread, its queue, the collected points, the frames and the clock    *)
(* keep to their types, for any lidars and any number of packets.           *)
THEOREM TypeCorrect == Spec => []TypeOK
<1>1. Init => RestInv
  <2>1. DOMAIN <<>> = {} /\ 0 \in 0..MaxTime
    BY StampModAssumption
  <2> QED BY <2>1 DEF Init, RestInv
<1>2. RateInv /\ PacketsInv /\ RestInv => TypeOK
  BY DEF RateInv, PacketsInv, RestInv, TypeOK
<1> QED
  BY <1>1, <1>2, RateInit, RateNext, PacketsInit, PacketsNext, RestNext, PTL DEF Spec
-----------------------------------------------------------------------------
(***************************************************************************)
(* The packets of one lidar.  OfLidar is a recursive function; that it     *)
(* exists, and what it returns, is by induction over the number of packets. *)
(***************************************************************************)

(* Induction, as a statement about a set: of the numbers that are not in S  *)
(* there would be a least.                                                  *)
LEMMA LeastNat ==
  ASSUME NEW S \in SUBSET Nat, S # {}
  PROVE  \E n \in S : \A m \in S : n <= m
<1> DEFINE R == OpToRel(<, Nat)
<1>1. IsWellFoundedOn(R, Nat)
  BY NatLessThanWellFounded
<1>2. \A x, y \in Nat : x < y => <<x, y>> \in R
  BY DEF OpToRel
<1> HIDE DEF R
<1>3. PICK x \in S : \A y \in S : ~ (<<y, x>> \in R)
  BY <1>1, WFMin
<1>4. ASSUME NEW m \in S PROVE x <= m
  <2>1. x \in Nat /\ m \in Nat /\ ~(m < x)
    BY <1>2, <1>3
  <2> QED BY <2>1
<1> QED BY <1>4

LEMMA NatInd ==
  ASSUME NEW S, 0 \in S, \A n \in Nat : n \in S => n + 1 \in S
  PROVE  \A n \in Nat : n \in S
<1> DEFINE B == {n \in Nat : n \notin S}
<1> SUFFICES ASSUME B # {} PROVE FALSE
  OBVIOUS
<1>1. PICK n \in B : \A m \in B : n <= m
  BY LeastNat
<1>2. n - 1 \in Nat /\ n - 1 \in S
  BY <1>1
<1> QED BY <1>1, <1>2

(* One step of the recursion, and a function that obeys it up to k.         *)
OfStep(l, s, f, n) ==
  IF n = 0 THEN <<>>
  ELSE IF s[n].lidar = l THEN Append(f[n-1], s[n]) ELSE f[n-1]

IsOf(l, s, k, f) == f = [n \in 0..k |-> OfStep(l, s, f, n)]

(* There is one, however long the sequence.                                *)
LEMMA OfExists ==
  ASSUME NEW l, NEW s
  PROVE  \A k \in Nat : \E f : IsOf(l, s, k, f)
<1> DEFINE S == {k \in Nat : \E f : IsOf(l, s, k, f)}
<1>1. 0 \in S
  <2> DEFINE f == [n \in 0..0 |-> <<>>]
  <2>1. \A n \in 0..0 : OfStep(l, s, f, n) = <<>>
    BY DEF OfStep
  <2> HIDE DEF f
  <2>2. f = [n \in 0..0 |-> <<>>]
    BY DEF f
  <2>3. IsOf(l, s, 0, f)
    BY <2>1, <2>2 DEF IsOf
  <2> QED BY <2>3
<1>2. ASSUME NEW k \in Nat, k \in S PROVE k + 1 \in S
  <2>1. PICK f : IsOf(l, s, k, f)
    BY <1>2
  <2> DEFINE g == [n \in 0..(k + 1) |-> OfStep(l, s, f, n)]
  <2>2. \A n \in 0..k : g[n] = f[n]
    BY <2>1 DEF IsOf
  <2>3. \A n \in 0..(k + 1) : n = 0 \/ n - 1 \in 0..k
    OBVIOUS
  <2>4. g = [n \in 0..(k + 1) |-> OfStep(l, s, f, n)]
    OBVIOUS
  <2> HIDE DEF g
  <2>5. ASSUME NEW n \in 0..(k + 1) PROVE OfStep(l, s, g, n) = OfStep(l, s, f, n)
    <3>1. n = 0 \/ g[n-1] = f[n-1]
      BY <2>2, <2>3
    <3>2. CASE n = 0
      BY <3>2, Zenon DEF OfStep
    <3>3. CASE g[n-1] = f[n-1]
      BY <3>3, Zenon DEF OfStep
    <3> QED BY <3>1, <3>2, <3>3
  <2>6. IsOf(l, s, k + 1, g)
    BY <2>4, <2>5, Zenon DEF IsOf
  <2> QED BY <2>6
<1> HIDE DEF S
<1>3. \A k \in Nat : k \in S
  BY <1>1, <1>2, NatInd
<1> QED BY <1>3 DEF S

LEMMA OfLidarIs ==
  ASSUME NEW l, NEW s, Len(s) \in Nat
  PROVE  \E f : IsOf(l, s, Len(s), f) /\ OfLidar(l, s) = f[Len(s)]
<1> DEFINE f == CHOOSE g : IsOf(l, s, Len(s), g)
<1>1. IsOf(l, s, Len(s), f)
  BY OfExists, Zenon
<1>2. OfLidar(l, s) = f[Len(s)]
  BY Zenon DEF OfLidar, IsOf, OfStep
<1> QED BY <1>1, <1>2

(* What IsOf says place by place.                                           *)
OfPlaced(l, s, k, f) ==
  /\ f[0] = <<>>
  /\ \A n \in 1..k : f[n] = IF s[n].lidar = l THEN Append(f[n-1], s[n]) ELSE f[n-1]

LEMMA OfPlaces ==
  ASSUME NEW l, NEW s, NEW k \in Nat, NEW f, IsOf(l, s, k, f)
  PROVE  OfPlaced(l, s, k, f)
<1>1. \A n \in 0..k : f[n] = OfStep(l, s, f, n)
  BY Zenon DEF IsOf
<1>2. 0 \in 0..k /\ \A n \in 1..k : n \in 0..k /\ n # 0
  OBVIOUS
<1> QED BY <1>1, <1>2, Zenon DEF OfStep, OfPlaced

LEMMA OfTyped ==
  ASSUME NEW l, NEW s \in Seq(Packet), NEW f, IsOf(l, s, Len(s), f)
  PROVE  \A n \in 0..Len(s) : f[n] \in Seq(Packet)
<1> DEFINE S == {n \in Nat : n <= Len(s) => f[n] \in Seq(Packet)}
<1>0. /\ f[0] = <<>> /\ <<>> \in Seq(Packet) /\ Len(s) \in Nat
      /\ \A n \in 1..Len(s) : f[n] = IF s[n].lidar = l THEN Append(f[n-1], s[n]) ELSE f[n-1]
  BY OfPlaces DEF OfPlaced
<1>1. 0 \in S
  BY <1>0
<1>2. ASSUME NEW n \in Nat, n \in S PROVE n + 1 \in S
  <2> SUFFICES ASSUME n + 1 <= Len(s) PROVE f[n+1] \in Seq(Packet)
    OBVIOUS
  <2>1. f[n] \in Seq(Packet) /\ s[n+1] \in Packet
    BY <1>0, <1>2
  <2>2. f[n+1] = IF s[n+1].lidar = l THEN Append(f[n], s[n+1]) ELSE f[n]
    <3>1. n + 1 \in 1..Len(s) /\ (n + 1) - 1 = n
      BY <1>0
    <3> QED BY <1>0, <3>1
  <2> QED BY <2>1, <2>2
<1> HIDE DEF S
<1>3. \A n \in Nat : n \in S
  BY <1>1, <1>2, NatInd
<1> QED BY <1>0, <1>3 DEF S

LEMMA OfSeq ==
  ASSUME NEW l, NEW s \in Seq(Packet)
  PROVE  OfLidar(l, s) \in Seq(Packet)
<1>1. PICK f : IsOf(l, s, Len(s), f) /\ OfLidar(l, s) = f[Len(s)]
  BY OfLidarIs
<1> QED BY <1>1, OfTyped

LEMMA OfEmpty ==
  ASSUME NEW l, NEW s, Len(s) = 0
  PROVE  OfLidar(l, s) = <<>>
<1>0. Len(s) \in Nat
  OBVIOUS
<1>1. PICK f : IsOf(l, s, Len(s), f) /\ OfLidar(l, s) = f[Len(s)]
  BY <1>0, OfLidarIs
<1>2. 0 \in 0..Len(s)
  BY <1>0
<1>3. f[0] = OfStep(l, s, f, 0)
  BY <1>1, <1>2, Zenon DEF IsOf
<1>4. f[0] = <<>>
  BY <1>3, Zenon DEF OfStep
<1> QED BY <1>1, <1>4

(* Two sequences that agree so far have the same packets of l so far.       *)
LEMMA OfAgree ==
  ASSUME NEW l, NEW s, NEW t, NEW j \in Nat, NEW k \in Nat, j <= k, NEW f, NEW g,
         IsOf(l, s, j, f), IsOf(l, t, k, g), \A n \in 1..j : s[n] = t[n]
  PROVE  f[j] = g[j]
<1> DEFINE S == {n \in Nat : n <= j => f[n] = g[n]}
<1>1. OfPlaced(l, s, j, f)
  BY OfPlaces, Zenon
<1>2. OfPlaced(l, t, k, g)
  BY OfPlaces, Zenon
<1>3. 0 \in S
  BY <1>1, <1>2 DEF OfPlaced
<1>4. ASSUME NEW n \in Nat, n \in S PROVE n + 1 \in S
  <2> SUFFICES ASSUME n + 1 <= j PROVE f[n+1] = g[n+1]
    OBVIOUS
  <2>1. n + 1 \in 1..j /\ n + 1 \in 1..k /\ (n + 1) - 1 = n /\ f[n] = g[n]
    BY <1>4
  <2> QED BY <1>1, <1>2, <2>1 DEF OfPlaced
<1> HIDE DEF S
<1>5. \A n \in Nat : n \in S
  BY <1>3, <1>4, NatInd
<1> QED BY <1>5 DEF S

(* A packet more at the end.                                               *)
LEMMA OfAppend ==
  ASSUME NEW l, NEW s \in Seq(Packet), NEW p \in Packet
  PROVE  OfLidar(l, Append(s, p)) = IF p.lidar = l THEN Append(OfLidar(l, s), p)
                                    ELSE OfLidar(l, s)
<1> DEFINE t == Append(s, p)
<1>1. /\ Len(s) \in Nat /\ Len(t) = Len(s) + 1 /\ t[Len(s) + 1] = p
      /\ \A n \in 1..Len(s) : s[n] = t[n]
  OBVIOUS
<1> HIDE DEF t
<1>2. PICK f : IsOf(l, s, Len(s), f) /\ OfLidar(l, s) = f[Len(s)]
  BY <1>1, OfLidarIs
<1>3. PICK g : IsOf(l, t, Len(t), g) /\ OfLidar(l, t) = g[Len(t)]
  BY <1>1, OfLidarIs
<1>4. f[Len(s)] = g[Len(s)]
  BY <1>1, <1>2, <1>3, OfAgree
<1>5. g[Len(s) + 1] = IF p.lidar = l THEN Append(g[Len(s)], p) ELSE g[Len(s)]
  <2>1. Len(s) + 1 \in 1..Len(t) /\ (Len(s) + 1) - 1 = Len(s) /\ Len(t) \in Nat
    BY <1>1
  <2> QED BY <1>1, <1>3, <2>1, OfPlaces DEF OfPlaced
<1> QED BY <1>1, <1>2, <1>3, <1>4, <1>5 DEF t

(* Packets put one after another.                                           *)
LEMMA Concatenated ==
  ASSUME NEW s \in Seq(Packet), NEW t \in Seq(Packet), NEW p \in Packet
  PROVE  /\ s \o Append(t, p) = Append(s \o t, p)
         /\ Append(s, p) \o t = s \o (<<p>> \o t)
<1>1. s \o Append(t, p) = Append(s \o t, p)
  OBVIOUS
<1>2. Append(s, p) = s \o <<p>> /\ <<p>> \in Seq(Packet)
  OBVIOUS
<1>3. (s \o <<p>>) \o t = s \o (<<p>> \o t)
  BY <1>2, ConcatAssociative
<1> QED BY <1>1, <1>2, <1>3

(* A packet less at the front.                                             *)
LEMMA OfHead ==
  ASSUME NEW l, NEW s \in Seq(Packet), s # <<>>
  PROVE  OfLidar(l, s) = IF Head(s).lidar = l THEN <<Head(s)>> \o OfLidar(l, Tail(s))
                         ELSE OfLidar(l, Tail(s))
<1> DEFINE t == Tail(s)
           h == IF s[1].lidar = l THEN <<s[1]>> ELSE <<>>
<1>1. /\ t \in Seq(Packet) /\ Len(t) \in Nat /\ Len(s) \in Nat /\ Len(s) = Len(t) + 1 /\ Head(s) = s[1]
      /\ \A n \in 1..Len(t) : t[n] = s[n+1]
      /\ s[1] \in Packet
  OBVIOUS
<1> HIDE DEF t
<1>2. PICK f : IsOf(l, s, Len(s), f) /\ OfLidar(l, s) = f[Len(s)]
  BY <1>1, OfLidarIs
<1>3. PICK g : IsOf(l, t, Len(t), g) /\ OfLidar(l, t) = g[Len(t)]
  BY <1>1, OfLidarIs
<1>4. /\ f[0] = <<>>
      /\ \A n \in 1..Len(s) : f[n] = IF s[n].lidar = l THEN Append(f[n-1], s[n]) ELSE f[n-1]
  BY <1>1, <1>2, OfPlaces DEF OfPlaced
<1>5. /\ g[0] = <<>>
      /\ \A n \in 1..Len(t) : g[n] = IF t[n].lidar = l THEN Append(g[n-1], t[n]) ELSE g[n-1]
  BY <1>1, <1>3, OfPlaces DEF OfPlaced
<1>6. \A n \in 0..Len(t) : g[n] \in Seq(Packet)
  BY <1>1, <1>3, OfTyped
<1>7. h \in Seq(Packet)
  BY <1>1
<1>8. f[1] = h
  <2>1. 1 \in 1..Len(s) /\ 1 - 1 = 0 /\ Append(<<>>, s[1]) = <<s[1]>>
    BY <1>1
  <2> QED BY <1>4, <2>1
<1> HIDE DEF h
<1>9. \A n \in Nat : n <= Len(t) => f[n+1] = h \o g[n]
  <2> DEFINE T == {n \in Nat : n <= Len(t) => f[n+1] = h \o g[n]}
  <2>1. 0 \in T
    BY <1>5, <1>7, <1>8
  <2>2. ASSUME NEW n \in Nat, n \in T PROVE n + 1 \in T
    <3> SUFFICES ASSUME n + 1 <= Len(t) PROVE f[(n + 1) + 1] = h \o g[n+1]
      OBVIOUS
    <3>1. /\ n + 1 \in 1..Len(t) /\ (n + 1) - 1 = n /\ n \in 0..Len(t)
          /\ (n + 1) + 1 \in 1..Len(s) /\ ((n + 1) + 1) - 1 = n + 1
      BY <1>1
    <3>2. f[n+1] = h \o g[n]
      BY <2>2, <3>1
    <3>3. s[(n + 1) + 1] = t[n+1] /\ t[n+1] \in Packet /\ g[n] \in Seq(Packet)
      BY <1>1, <1>6, <3>1
    <3>4. h \o Append(g[n], t[n+1]) = Append(h \o g[n], t[n+1])
      BY <1>7, <3>3, Concatenated
    <3>5. g[n+1] = IF t[n+1].lidar = l THEN Append(g[n], t[n+1]) ELSE g[n]
      BY <1>5, <3>1
    <3>6. f[(n + 1) + 1] = IF t[n+1].lidar = l THEN Append(f[n+1], t[n+1]) ELSE f[n+1]
      BY <1>4, <3>1, <3>3
    <3> QED BY <3>2, <3>4, <3>5, <3>6
  <2> HIDE DEF T
  <2>3. \A n \in Nat : n \in T
    BY <2>1, <2>2, NatInd
  <2> QED BY <2>3 DEF T
<1>10. f[Len(s)] = h \o g[Len(t)]
  BY <1>1, <1>9
<1>11. <<>> \o g[Len(t)] = g[Len(t)]
  BY <1>1, <1>6
<1> QED BY <1>1, <1>2, <1>3, <1>10, <1>11 DEF h, t

-----------------------------------------------------------------------------
(***************************************************************************)
(* Each step is one of FrameStream, or none.                               *)
(***************************************************************************)

(* What is in the queue and in the observer, and the streams.              *)
Waiting == raw_packet_queue_ \o arriving
StreamOf == [l \in Lidar |-> Unpublished(l)]

LEMMA UnpublishedIs ==
  ASSUME PacketsInv, NEW l \in Lidar
  PROVE  /\ Waiting \in Seq(Packet)
         /\ points_clouds_[l] \in Seq(Packet) /\ OfLidar(l, Waiting) \in Seq(Packet)
         /\ Unpublished(l) = points_clouds_[l] \o OfLidar(l, Waiting)
         /\ Unpublished(l) \in Seq(Packet)
<1>1. raw_packet_queue_ \in Seq(Packet) /\ arriving \in Seq(Packet)
  BY DEF PacketsInv
<1>2. Waiting \in Seq(Packet) /\ points_clouds_[l] \in Seq(Packet)
  BY <1>1 DEF PacketsInv, Waiting
<1>3. OfLidar(l, Waiting) \in Seq(Packet)
  BY <1>2, OfSeq
<1>4. Unpublished(l) = points_clouds_[l] \o OfLidar(l, Waiting)
  BY Zenon DEF Unpublished, Waiting
<1> QED BY <1>2, <1>3, <1>4

(* Nothing but the collected points and what waits is in the stream.        *)
LEMMA StreamKept ==
  ASSUME UNCHANGED frame_, UNCHANGED points_clouds_, UNCHANGED Waiting
  PROVE  UNCHANGED <<StreamOf, frame_>>
BY Zenon DEF StreamOf, Unpublished, Waiting

LEMMA StreamPush ==
  ASSUME PacketsInv, PushPacket
  PROVE  UNCHANGED <<StreamOf, frame_>>
<1>1. /\ arriving \in Seq(Packet) /\ Len(arriving) <= 1 /\ arriving # <<>>
      /\ raw_packet_queue_ \in Seq(Packet)
      /\ arriving' = <<>> /\ raw_packet_queue_' = Append(raw_packet_queue_, arriving[1])
      /\ UNCHANGED <<points_clouds_, frame_>>
  BY DEF PacketsInv, PushPacket
<1>2. arriving = <<arriving[1]>> /\ arriving[1] \in Packet
  <2>1. arriving \in Seq(Packet) /\ Len(arriving) <= 1 /\ arriving # <<>>
    BY <1>1
  <2>2. Len(arriving) = 1
    BY <2>1, EmptySeq
  <2> QED BY <2>1, <2>2
<1>3. Append(raw_packet_queue_, arriving[1]) \o <<>> = raw_packet_queue_ \o <<arriving[1]>>
  <2> DEFINE q == raw_packet_queue_
             a == arriving[1]
  <2>1. q \in Seq(Packet) /\ a \in Packet
    BY <1>1, <1>2
  <2> HIDE DEF q, a
  <2>2. Append(q, a) \o <<>> = q \o <<a>>
    BY <2>1
  <2> QED BY <2>2 DEF q, a
<1>4. UNCHANGED Waiting
  BY <1>1, <1>2, <1>3, Zenon DEF Waiting
<1> QED BY <1>1, <1>4, StreamKept

LEMMA StreamCallback ==
  ASSUME PacketsInv, PacketsInv', NEW l \in Lidar, OnLivoxLidarPointCloudCallback(l)
  PROVE  Stream!Arrive(l)
<1> DEFINE p == arriving'[1]
<1>1. /\ arriving = <<>> /\ UNCHANGED <<raw_packet_queue_, points_clouds_, frame_>>
      /\ arriving' = <<p>> /\ p.lidar = l
  BY DEF OnLivoxLidarPointCloudCallback
<1>2. p \in Packet
  <2>1. arriving' \in Seq(Packet) /\ Len(arriving') = 1
    BY <1>1 DEF PacketsInv
  <2> QED BY <2>1, ElementOfSeq
<1> HIDE DEF p
<1>3. Waiting' = Append(Waiting, p) /\ Waiting \in Seq(Packet)
  <2>1. raw_packet_queue_ \in Seq(Packet)
    BY DEF PacketsInv
  <2>2. raw_packet_queue_ \o <<p>> = Append(raw_packet_queue_ \o <<>>, p)
    BY <1>2, <2>1
  <2> QED BY <1>1, <2>1, <2>2 DEF Waiting
<1>4. ASSUME NEW m \in Lidar
      PROVE  Unpublished(m)' = IF m = l THEN Append(Unpublished(m), p) ELSE Unpublished(m)
  <2>1. Unpublished(m)' = points_clouds_[m] \o OfLidar(m, Append(Waiting, p))
    BY <1>1, <1>3, Zenon DEF Unpublished, Waiting
  <2>2. OfLidar(m, Append(Waiting, p)) = IF m = l THEN Append(OfLidar(m, Waiting), p)
                                         ELSE OfLidar(m, Waiting)
    BY <1>1, <1>2, <1>3, OfAppend
  <2>3. /\ points_clouds_[m] \in Seq(Packet) /\ OfLidar(m, Waiting) \in Seq(Packet)
        /\ Unpublished(m) = points_clouds_[m] \o OfLidar(m, Waiting)
    BY UnpublishedIs
  <2>4. points_clouds_[m] \o Append(OfLidar(m, Waiting), p)
          = Append(points_clouds_[m] \o OfLidar(m, Waiting), p)
    BY <1>2, <2>3, Concatenated
  <2> QED BY <2>1, <2>2, <2>3, <2>4
<1>5. /\ StreamOf'[l] = Append(Unpublished(l), p) /\ Unpublished(l) \in Seq(Packet)
      /\ StreamOf' = [StreamOf EXCEPT ![l] = Append(@, p)]
  BY <1>4, UnpublishedIs DEF StreamOf
<1>6. StreamOf'[l] # <<>> /\ StreamOf'[l][Len(StreamOf'[l])] = p
  BY <1>2, <1>5
<1> QED BY <1>1, <1>2, <1>5, <1>6, Zenon DEF Stream!Arrive, StreamOf

LEMMA StreamTake ==
  ASSUME PacketsInv, TakePacket
  PROVE  UNCHANGED <<StreamOf, frame_>>
<1> DEFINE q == raw_packet_queue_
           p == Head(q)
<1>1. /\ q \in Seq(Packet) /\ q # <<>> /\ arriving \in Seq(Packet)
      /\ q' = Tail(q) /\ UNCHANGED <<arriving, frame_>>
      /\ points_clouds_' = [points_clouds_ EXCEPT ![p.lidar] = Append(@, p)]
  BY DEF PacketsInv, TakePacket, QueueEmpty, observer
<1>2. /\ p \in Packet /\ Waiting \in Seq(Packet) /\ Waiting # <<>>
      /\ Head(Waiting) = p /\ Waiting' = Tail(Waiting) /\ Tail(Waiting) \in Seq(Packet)
  <2>1. p \in Packet
    BY <1>1
  <2>2. Waiting' = Tail(q) \o arriving /\ Waiting = q \o arriving
    BY <1>1 DEF Waiting
  <2>3. /\ q \o arriving \in Seq(Packet) /\ q \o arriving # <<>>
        /\ Head(q \o arriving) = p /\ Tail(q \o arriving) = Tail(q) \o arriving
        /\ Tail(q) \o arriving \in Seq(Packet)
    BY <1>1
  <2> QED BY <2>1, <2>2, <2>3
<1> HIDE DEF p
<1>3. ASSUME NEW l \in Lidar PROVE Unpublished(l)' = Unpublished(l)
  <2>1. Unpublished(l)' = points_clouds_'[l] \o OfLidar(l, Tail(Waiting))
    BY <1>2, Zenon DEF Unpublished, Waiting
  <2>2. OfLidar(l, Waiting) = IF p.lidar = l THEN <<p>> \o OfLidar(l, Tail(Waiting))
                              ELSE OfLidar(l, Tail(Waiting))
    BY <1>2, OfHead
  <2>3. /\ points_clouds_[l] \in Seq(Packet) /\ OfLidar(l, Tail(Waiting)) \in Seq(Packet)
        /\ Unpublished(l) = points_clouds_[l] \o OfLidar(l, Waiting)
    BY <1>2, UnpublishedIs, OfSeq
  <2>4. points_clouds_'[l] = IF p.lidar = l THEN Append(points_clouds_[l], p)
                             ELSE points_clouds_[l]
    BY <1>1 DEF PacketsInv
  <2>5. Append(points_clouds_[l], p) \o OfLidar(l, Tail(Waiting))
          = points_clouds_[l] \o (<<p>> \o OfLidar(l, Tail(Waiting)))
    BY <1>2, <2>3, Concatenated
  <2> QED BY <2>1, <2>2, <2>3, <2>4, <2>5
<1>4. UNCHANGED StreamOf
  BY <1>3 DEF StreamOf
<1> QED BY <1>1, <1>4

(* A sequence is cut after its first part.                                  *)
LEMMA CutAfter ==
  ASSUME NEW s \in Seq(Packet), NEW t \in Seq(Packet)
  PROVE  /\ SubSeq(s \o t, 1, Len(s)) = s
         /\ SubSeq(s \o t, Len(s) + 1, Len(s \o t)) = t
         /\ s # <<>> => Len(s) \in 1..Len(s \o t)
<1>1. Len(s \o t) = Len(s) + Len(t) /\ Len(s) \in Nat /\ Len(t) \in Nat
  OBVIOUS
<1>2. SubSeq(s \o t, 1, Len(s)) = s
  OBVIOUS
<1>3. SubSeq(s \o t, Len(s) + 1, Len(s \o t)) = t
  <2> DEFINE u == SubSeq(s \o t, Len(s) + 1, Len(s \o t))
  <2>1. u \in Seq(Packet) /\ Len(u) = Len(t) /\ \A i \in 1..Len(t) : u[i] = t[i]
    BY <1>1
  <2> QED BY <2>1
<1>4. s # <<>> => Len(s) > 0
  OBVIOUS
<1> QED BY <1>1, <1>2, <1>3, <1>4

LEMMA StreamPublish ==
  ASSUME PacketsInv, NEW S \in SUBSET Lidar, PublishPointCloud(S), UNCHANGED Waiting,
         NEW a \in S, points_clouds_[a] # <<>>
  PROVE  \E F \in SUBSET Lidar : Stream!Publish(F)
<1> DEFINE F == {l \in S : points_clouds_[l] # <<>>}
<1>1. F \in SUBSET Lidar /\ F # {}
  OBVIOUS
<1>2. /\ frame_' = [l \in F |-> [base_time |-> LidarBaseTime(l), points |-> points_clouds_[l]]]
      /\ points_clouds_' = [l \in Lidar |-> IF l \in S THEN <<>> ELSE points_clouds_[l]]
  BY DEF PublishPointCloud
<1>3. \A l \in S : l \in F \/ points_clouds_[l] = <<>>
  OBVIOUS
<1>4. \A l \in F : l \in S /\ l \in Lidar /\ points_clouds_[l] # <<>>
  OBVIOUS
<1> HIDE DEF F
<1>5. \A l \in F : frame_'[l] = Stream!Piece(points_clouds_[l])
  BY <1>2, <1>4 DEF Stream!Piece, LidarBaseTime
<1>6. \A l \in F : frame_'[l].points = points_clouds_[l]
  BY <1>2
<1>7. \A l \in F : points_clouds_[l] \in Stream!Pieces(l)
  <2> SUFFICES ASSUME NEW l \in F PROVE points_clouds_[l] \in Stream!Pieces(l)
    OBVIOUS
  <2>1. /\ points_clouds_[l] \in Seq(Packet) /\ OfLidar(l, Waiting) \in Seq(Packet)
        /\ StreamOf[l] = points_clouds_[l] \o OfLidar(l, Waiting)
    BY <1>4, UnpublishedIs DEF StreamOf
  <2>2. /\ Len(points_clouds_[l]) \in 1..Len(StreamOf[l])
        /\ points_clouds_[l] = SubSeq(StreamOf[l], 1, Len(points_clouds_[l]))
    BY <1>4, <2>1, CutAfter
  <2> QED BY <2>2, Zenon DEF Stream!Pieces, StreamOf
<1>8. ASSUME NEW l \in Lidar
      PROVE  StreamOf'[l] = IF l \in F
                            THEN SubSeq(StreamOf[l], Len(frame_'[l].points) + 1, Len(StreamOf[l]))
                            ELSE StreamOf[l]
  <2>1. /\ points_clouds_[l] \in Seq(Packet) /\ OfLidar(l, Waiting) \in Seq(Packet)
        /\ StreamOf[l] = points_clouds_[l] \o OfLidar(l, Waiting)
    BY UnpublishedIs DEF StreamOf
  <2>2. StreamOf'[l] = points_clouds_'[l] \o OfLidar(l, Waiting)
    BY Zenon DEF StreamOf, Unpublished, Waiting
  <2>3. CASE l \in F
    <3>1. points_clouds_'[l] = <<>> /\ frame_'[l].points = points_clouds_[l]
      BY <1>2, <1>4, <1>6, <2>3
    <3>2. StreamOf'[l] = OfLidar(l, Waiting)
      BY <2>1, <2>2, <3>1
    <3>3. SubSeq(StreamOf[l], Len(points_clouds_[l]) + 1, Len(StreamOf[l])) = OfLidar(l, Waiting)
      BY <2>1, CutAfter
    <3> QED BY <2>3, <3>1, <3>2, <3>3
  <2>4. CASE l \notin F
    <3>1. points_clouds_'[l] = points_clouds_[l]
      BY <1>2, <1>3, <2>4
    <3> QED BY <2>1, <2>2, <2>4, <3>1
  <2> QED BY <2>3, <2>4
<1>9. StreamOf' = [l \in Lidar |->
         IF l \in F THEN SubSeq(StreamOf[l], Len(frame_'[l].points) + 1, Len(StreamOf[l]))
         ELSE StreamOf[l]]
  <2>1. StreamOf' = [l \in Lidar |-> StreamOf'[l]]
    BY DEF StreamOf
  <2> QED BY <1>8, <2>1
<1>10. DOMAIN frame_' = F
  BY <1>2
<1>11. Stream!Publish(F)
  BY <1>1, <1>5, <1>7, <1>9, <1>10, Zenon DEF Stream!Publish, StreamOf
<1> QED BY <1>1, <1>11

LEMMA StreamStep ==
  ASSUME PacketsInv, PacketsInv', [Next]_vars
  PROVE  Stream!StreamNext \/ UNCHANGED <<StreamOf, frame_>>
<1>1. CASE \/ Tick \/ \E l \in Lidar : OnImuPacket(l)
           \/ TestQuit \/ WaitFor \/ WakeEmpty \/ CheckTimerNoSync
           \/ Uninit \/ UNCHANGED vars
  <2>1. UNCHANGED <<frame_, points_clouds_, raw_packet_queue_, arriving>>
    BY <1>1 DEF Tick, OnImuPacket, TestQuit, WaitFor, WakeEmpty, CheckTimerNoSync, Uninit,
       RemovePointCloudObserver, RequestExit, Join, observer, vars
  <2> QED BY <2>1, StreamKept, Zenon DEF Waiting
<1>2. ASSUME NEW l \in Lidar, OnLivoxLidarPointCloudCallback(l) PROVE Stream!StreamNext
  <2>1. Stream!Arrive(l)
    BY <1>2, StreamCallback
  <2> QED BY <2>1, Zenon DEF Stream!StreamNext
<1>3. CASE CheckTimerSync
  <2> DEFINE l == raw_data.lidar
  <2>1. UNCHANGED Waiting
    BY <1>3 DEF CheckTimerSync, observer, Waiting
  <2>2. raw_data \in Packet /\ Len(points_clouds_[l]) > 0
    BY <1>3 DEF CheckTimerSync, PacketsInv
  <2>3. l \in Lidar /\ points_clouds_[l] # <<>>
    BY <2>2, PacketParts DEF PacketsInv
  <2>4. CASE PublishPointCloud({l})
    <3>1. \E F \in SUBSET Lidar : Stream!Publish(F)
      BY <2>1, <2>3, <2>4, StreamPublish
    <3> QED BY <3>1, Zenon DEF Stream!StreamNext
  <2>5. CASE UNCHANGED <<points_clouds_, frame_>>
    BY <2>1, <2>5, StreamKept
  <2> QED BY <1>3, <2>4, <2>5 DEF CheckTimerSync
<1>4. CASE ReadClock
  <2> DEFINE l == raw_data.lidar
  <2>1. UNCHANGED Waiting
    BY <1>4 DEF ReadClock, observer, Waiting
  <2>2. raw_data \in Packet /\ Len(points_clouds_[l]) > 0
    BY <1>4 DEF ReadClock, PacketsInv
  <2>3. l \in Lidar /\ points_clouds_[l] # <<>>
    BY <2>2, PacketParts DEF PacketsInv
  <2>4. CASE PublishPointCloud(Lidar)
    <3>1. \E F \in SUBSET Lidar : Stream!Publish(F)
      BY <2>1, <2>3, <2>4, StreamPublish
    <3> QED BY <3>1, Zenon DEF Stream!StreamNext
  <2>5. CASE UNCHANGED <<points_clouds_, frame_>>
    BY <2>1, <2>5, StreamKept
  <2> QED BY <1>4, <2>4, <2>5 DEF ReadClock
<1> QED
  BY <1>1, <1>2, <1>3, <1>4, StreamPush, StreamTake DEF Next, Observe, RawDataProcess

(* PubHandler implements the streams it promises, for any lidars, however   *)
(* many packets they send and whichever of them sets the flag: from the     *)
(* observer to points_callback_ nothing of a lidar is lost, repeated or     *)
(* reordered, no frame is empty, and its base time is that of its first     *)
(* point (pub_handler.cpp, RawDataProcess and PublishPointCloud).           *)
THEOREM ImplementsStream == Spec => RefinesStream
<1>1. Init => Stream!StreamInit
  <2> SUFFICES ASSUME Init PROVE Stream!StreamInit
    OBVIOUS
  <2>1. /\ \A l \in Lidar : points_clouds_[l] = <<>>
        /\ raw_packet_queue_ \o arriving = <<>> /\ Len(<<>>) = 0 /\ frame_ = <<>>
    BY DEF Init
  <2>2. \A l \in Lidar : Unpublished(l) = <<>>
    <3> SUFFICES ASSUME NEW l \in Lidar PROVE Unpublished(l) = <<>>
      OBVIOUS
    <3>1. OfLidar(l, <<>>) = <<>>
      BY <2>1, OfEmpty
    <3>2. <<>> \o <<>> = <<>>
      OBVIOUS
    <3> QED BY <2>1, <3>1, <3>2, Zenon DEF Unpublished
  <2> QED BY <2>1, <2>2, Zenon DEF Stream!StreamInit
<1>2. PacketsInv /\ PacketsInv' /\ [Next]_vars
        => [Stream!StreamNext]_<<[l \in Lidar |-> Unpublished(l)], frame_>>
  BY StreamStep, Zenon DEF StreamOf
<1> QED BY PacketsInit, PacketsNext, <1>1, <1>2, PTL DEF Spec, RefinesStream, Stream!StreamSpec
=============================================================================
