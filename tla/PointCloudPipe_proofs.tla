---------------------- MODULE PointCloudPipe_proofs -----------------------
(***************************************************************************)
(* Proofs about PointCloudPipe for every number of lidars, ring size and   *)
(* counter width the assumptions allow.                                    *)
(***************************************************************************)
EXTENDS PointCloudPipe, TLAPS

(* Division with remainder, as the prover knows it. *)
LEMMA DivMod ==
  ASSUME NEW a \in Int, NEW m \in Nat \ {0}
  PROVE  /\ a \div m \in Int
         /\ a % m \in 0..(m - 1)
         /\ a = m * (a \div m) + (a % m)
  BY SMTT(20)

LEMMA MulGe ==
  ASSUME NEW m \in Nat \ {0}, NEW k \in Int, k >= 1
  PROVE  m * k >= m
  BY SMTT(20)

(* Quotient and remainder are unique. *)
LEMMA ModUnique ==
  ASSUME NEW a \in Int, NEW m \in Nat \ {0}, NEW q \in Int,
         NEW r \in 0..(m - 1), a = m * q + r
  PROVE  a % m = r
<1> DEFINE q1 == a \div m
           r1 == a % m
<1>1. q1 \in Int /\ r1 \in 0..(m - 1) /\ a = m * q1 + r1
  BY DivMod
<1> HIDE DEF q1, r1
<1>2. m * (q - q1) = r1 - r /\ m * (q1 - q) = r - r1
  BY <1>1
<1>3. ~ (q - q1 >= 1)
  <2> SUFFICES ASSUME q - q1 >= 1 PROVE FALSE
    OBVIOUS
  <2>1. q - q1 \in Int
    BY <1>1
  <2>2. m * (q - q1) >= m
    BY <2>1, MulGe
  <2> QED BY <2>2, <1>2, <1>1
<1>4. ~ (q1 - q >= 1)
  <2> SUFFICES ASSUME q1 - q >= 1 PROVE FALSE
    OBVIOUS
  <2>1. q1 - q \in Int
    BY <1>1
  <2>2. m * (q1 - q) >= m
    BY <2>1, MulGe
  <2> QED BY <2>2, <1>2, <1>1
<1>5. q = q1
  BY <1>1, <1>3, <1>4
<1> QED BY <1>5, <1>1 DEF r1

(* Two numbers less than m apart have different remainders. *)
LEMMA ModDiffer ==
  ASSUME NEW m \in Nat \ {0}, NEW a \in Nat, NEW b \in Nat, a < b, b - a < m
  PROVE  a % m # b % m
<1> SUFFICES ASSUME a % m = b % m PROVE FALSE
  OBVIOUS
<1> DEFINE qa == a \div m
           qb == b \div m
           r  == a % m
<1>1. qa \in Int /\ qb \in Int /\ r \in Int /\ a = m * qa + r /\ b = m * qb + r
  BY DivMod
<1> HIDE DEF qa, qb, r
<1>2. b - a = m * (qb - qa)
  BY <1>1
<1>3. CASE qb - qa >= 1
  <2>1. m * (qb - qa) >= m
    BY <1>1, <1>3, MulGe
  <2> QED BY <2>1, <1>2
<1>4. CASE qb - qa <= 0
  <2>1. CASE qb = qa
    BY <2>1, <1>1, <1>2
  <2>2. CASE qa - qb >= 1
    <3>1. m * (qa - qb) >= m
      BY <1>1, <2>2, MulGe
    <3>2. m * (qa - qb) = a - b
      BY <1>1
    <3> QED BY <3>1, <3>2
  <2> QED BY <2>1, <2>2, <1>1, <1>4
<1> QED BY <1>1, <1>3, <1>4

(* Subtracting two wrapped counters gives their true distance. *)
LEMMA ModSubtract ==
  ASSUME NEW m \in Nat \ {0}, NEW a \in Nat, NEW b \in Nat, b <= a, a - b < m
  PROVE  ((a % m) - (b % m)) % m = a - b
<1> DEFINE qa == a \div m
           qb == b \div m
           ra == a % m
           rb == b % m
<1>1. /\ qa \in Int /\ qb \in Int /\ ra \in Int /\ rb \in Int
      /\ a = m * qa + ra /\ b = m * qb + rb
  BY DivMod
<1> HIDE DEF qa, qb, ra, rb
<1>2. ra - rb = m * (qb - qa) + (a - b)
  BY <1>1
<1>3. qb - qa \in Int /\ ra - rb \in Int /\ a - b \in 0..(m - 1)
  BY <1>1
<1>4. (ra - rb) % m = a - b
  BY <1>2, <1>3, ModUnique
<1> QED BY <1>4 DEF ra, rb

(* Incrementing a wrapped counter is wrapping the incremented one. *)
LEMMA ModIncrement ==
  ASSUME NEW m \in Nat \ {0}, NEW a \in Nat
  PROVE  ((a % m) + 1) % m = (a + 1) % m
<1> DEFINE q == a \div m
           r == a % m
           r1 == (r + 1) % m
           q1 == (r + 1) \div m
<1>1. q \in Int /\ r \in 0..(m - 1) /\ a = m * q + r
  BY DivMod
<1> HIDE DEF q, r
<1>2. q1 \in Int /\ r1 \in 0..(m - 1) /\ r + 1 = m * q1 + r1
  BY <1>1, DivMod
<1> HIDE DEF q1, r1
<1>3. a + 1 = m * (q + q1) + r1
  BY <1>1, <1>2
<1>4. q + q1 \in Int /\ a + 1 \in Int
  BY <1>1, <1>2
<1>5. (a + 1) % m = r1
  BY <1>2, <1>3, <1>4, ModUnique
<1> QED BY <1>5 DEF r1, r

(* Masking a wrapped counter is masking the true one, because the width of *)
(* the counters is a multiple of the size of the ring.                      *)
LEMMA SlotOfWrapped ==
  ASSUME NEW a \in Nat
  PROVE  Slot(a % CounterMod) = a % QueueSize
<1> DEFINE q == a \div CounterMod
           r == a % CounterMod
           k == r \div QueueSize
           s == r % QueueSize
<1>0. CounterMod \in Nat \ {0} /\ a \in Int
  BY CounterModAssumption, QueueSizeAssumption
<1>1. q \in Int /\ r \in 0..(CounterMod - 1) /\ a = CounterMod * q + r
  BY <1>0, DivMod
<1> HIDE DEF q, r
<1>2. k \in Int /\ s \in 0..(QueueSize - 1) /\ r = QueueSize * k + s
  BY <1>1, DivMod, CounterModAssumption, QueueSizeAssumption
<1> HIDE DEF k, s
<1>3. PICK c \in 1..CounterMod : CounterMod = QueueSize * c
  BY CounterModAssumption
<1>4. c \in Int
  BY CounterModAssumption
<1>5. CounterMod * q = QueueSize * (c * q)
  BY <1>1, <1>3, <1>4, QueueSizeAssumption
<1>6. a = QueueSize * (c * q + k) + s
  BY <1>1, <1>2, <1>4, <1>5, QueueSizeAssumption
<1>7. c * q + k \in Int
  BY <1>1, <1>2, <1>4
<1>8. a % QueueSize = s
  BY <1>0, <1>2, <1>6, <1>7, ModUnique, QueueSizeAssumption
<1> QED BY <1>8 DEF Slot, s, r
-----------------------------------------------------------------------------
(* Type correctness.                                                        *)

LEMMA SlotType == ASSUME NEW i \in Int PROVE Slot(i) \in 0..(QueueSize - 1)
  BY DivMod, QueueSizeAssumption DEF Slot

LEMMA IncType == ASSUME NEW i \in Nat PROVE Inc(i) \in 0..(CounterMod - 1)
<1>1. CounterMod \in Nat \ {0} /\ i + 1 \in Int
  BY CounterModAssumption, QueueSizeAssumption
<1> QED BY <1>1, DivMod DEF Inc

LEMMA AppendFrame ==
  ASSUME NEW h \in [Lidar -> Seq([Field -> Nat])], NEW l \in Lidar,
         NEW e \in [Field -> Nat]
  PROVE  [h EXCEPT ![l] = Append(@, e)] \in [Lidar -> Seq([Field -> Nat])]
<1> DEFINE E == [Field -> Nat]
<1>1. h \in [Lidar -> Seq(E)] /\ e \in E
  OBVIOUS
<1> HIDE DEF E
<1>2. [h EXCEPT ![l] = Append(@, e)] \in [Lidar -> Seq(E)]
  BY <1>1
<1> QED BY <1>2 DEF E

LEMMA TypeInit == Init => TypeOK
<1> SUFFICES ASSUME Init PROVE TypeOK
  OBVIOUS
<1>1. CounterMod \in Nat \ {0} /\ LidarCount \in Nat \ {0}
  BY CounterModAssumption, QueueSizeAssumption, LidarCountAssumption
<1>2. 0 \in 0..(CounterMod - 1) /\ 0 \in Lidar /\ 0 \in 0..LidarCount
  BY <1>1 DEF Lidar
<1>3. NoFrame \in [Field -> Nat]
  BY DEF NoFrame
<1>4. RingTypeOK
  BY <1>2, <1>3 DEF Init, RingTypeOK
<1>5. ControlTypeOK /\ ProducerTypeOK
  BY <1>2 DEF Init, ControlTypeOK, ProducerTypeOK
<1>6. ConsumerTypeOK
  BY <1>2, <1>3 DEF Init, ConsumerTypeOK
<1>7. HistoryTypeOK
  BY DEF Init, HistoryTypeOK
<1> QED BY <1>4, <1>5, <1>6, <1>7 DEF TypeOK

(* The groups of variables an action leaves alone. *)
LEMMA TypeUnchanged ==
  ASSUME TypeOK
  PROVE  /\ UNCHANGED ringVars => RingTypeOK'
         /\ UNCHANGED <<sampling, sem, exitVars, unvisited>> => ControlTypeOK'
         /\ UNCHANGED pVars => ProducerTypeOK'
         /\ UNCHANGED cVars => ConsumerTypeOK'
         /\ UNCHANGED history => HistoryTypeOK'
<1>1. UNCHANGED ringVars => RingTypeOK'
  BY DEF TypeOK, RingTypeOK, ringVars
<1>2. UNCHANGED <<sampling, sem, exitVars, unvisited>> => ControlTypeOK'
  BY DEF TypeOK, ControlTypeOK, exitVars
<1>3. UNCHANGED pVars => ProducerTypeOK'
  BY DEF TypeOK, ProducerTypeOK, pVars
<1>4. UNCHANGED cVars => ConsumerTypeOK'
  BY DEF TypeOK, ConsumerTypeOK, cVars
<1>5. UNCHANGED history => HistoryTypeOK'
  BY DEF TypeOK, HistoryTypeOK, history
<1> QED BY <1>1, <1>2, <1>3, <1>4, <1>5

LEMMA TypeProducer ==
  ASSUME TypeOK,
         Producer \/ \E l \in Lidar : PushLidarData(l)
  PROVE  TypeOK'
<1>1. ASSUME NEW l \in Lidar, PushLidarData(l) PROVE TypeOK'
  <2>1. RingTypeOK'
    BY <1>1 DEF TypeOK, RingTypeOK, PushLidarData
  <2>2. ProducerTypeOK'
    BY <1>1 DEF TypeOK, ProducerTypeOK, HistoryTypeOK, PushLidarData
  <2> QED BY <1>1, <2>1, <2>2, TypeUnchanged DEF TypeOK, PushLidarData
<1>2. CASE PushCheckFull
  <2>1. ProducerTypeOK'
    BY <1>2 DEF TypeOK, ProducerTypeOK, PushCheckFull
  <2>2. HistoryTypeOK'
    <3>1. p_lidar \in Lidar /\ seen \in [Lidar -> Nat]
      BY DEF TypeOK, ProducerTypeOK, HistoryTypeOK
    <3>2. seen' \in [Lidar -> Nat]
      BY <1>2, <3>1 DEF PushCheckFull
    <3>3. UNCHANGED <<accepted, published>>
      BY <1>2 DEF PushCheckFull
    <3> QED BY <3>2, <3>3 DEF TypeOK, HistoryTypeOK
  <2> QED BY <1>2, <2>1, <2>2, TypeUnchanged DEF TypeOK, PushCheckFull
<1>3. ASSUME NEW f \in Field, WriteField(f) PROVE TypeOK'
  <2> DEFINE at == IF "index" \in p_left THEN wr_idx[p_lidar] ELSE wr_idx[p_lidar] - 1
  <2>1. p_lidar \in Lidar /\ at \in Int /\ p_frame \in Nat
    BY CounterModAssumption DEF TypeOK, RingTypeOK, ProducerTypeOK
  <2>2. ring' = [ring EXCEPT ![p_lidar][Slot(at)][f] = p_frame]
    BY <1>3 DEF WriteField
  <2> HIDE DEF at
  <2>3. Slot(at) \in 0..(QueueSize - 1)
    BY <2>1, SlotType
  <2>4. ring' \in [Lidar -> [0..(QueueSize - 1) -> [Field -> Nat]]]
    BY <2>1, <2>2, <2>3 DEF TypeOK, RingTypeOK
  <2>5. RingTypeOK'
    BY <1>3, <2>4 DEF TypeOK, RingTypeOK, WriteField
  <2>6. ProducerTypeOK'
    BY <1>3 DEF TypeOK, ProducerTypeOK, WriteField
  <2> QED BY <1>3, <2>5, <2>6, TypeUnchanged DEF TypeOK, WriteField
<1>4. CASE WriteIndex
  <2>1. p_lidar \in Lidar /\ wr_idx[p_lidar] \in Nat /\ p_frame \in Nat
    BY CounterModAssumption DEF TypeOK, RingTypeOK, ProducerTypeOK
  <2>2. Inc(wr_idx[p_lidar]) \in 0..(CounterMod - 1)
    BY <2>1, IncType
  <2>3. RingTypeOK'
    BY <1>4, <2>1, <2>2 DEF TypeOK, RingTypeOK, WriteIndex
  <2>4. ProducerTypeOK'
    BY <1>4 DEF TypeOK, ProducerTypeOK, WriteIndex
  <2>5. Frame(p_frame) \in [Field -> Nat]
    BY <2>1 DEF Frame
  <2>6. HistoryTypeOK'
    <3>1. accepted' = [accepted EXCEPT ![p_lidar] = Append(@, Frame(p_frame))]
      BY <1>4 DEF WriteIndex
    <3>2. accepted \in [Lidar -> Seq([Field -> Nat])]
      BY DEF TypeOK, HistoryTypeOK
    <3>3. accepted' \in [Lidar -> Seq([Field -> Nat])]
      BY <2>1, <2>5, <3>1, <3>2, AppendFrame
    <3>4. seen' \in [Lidar -> Nat] /\ UNCHANGED published
      BY <1>4, <2>1 DEF TypeOK, HistoryTypeOK, WriteIndex
    <3> QED BY <3>3, <3>4 DEF TypeOK, HistoryTypeOK
  <2> QED BY <1>4, <2>3, <2>4, <2>6, TypeUnchanged DEF TypeOK, WriteIndex
<1>5. CASE PushCheckEmpty
  <2>1. ProducerTypeOK'
    BY <1>5 DEF TypeOK, ProducerTypeOK, PushCheckEmpty
  <2> QED BY <1>5, <2>1, TypeUnchanged DEF TypeOK, PushCheckEmpty
<1>6. CASE PushGetCount
  <2>1. ProducerTypeOK'
    BY <1>6 DEF TypeOK, ProducerTypeOK, PushGetCount
  <2> QED BY <1>6, <2>1, TypeUnchanged DEF TypeOK, PushGetCount
<1>7. CASE Signal
  <2>1. ProducerTypeOK' /\ ControlTypeOK'
    BY <1>7 DEF TypeOK, ProducerTypeOK, ControlTypeOK, Signal, exitVars
  <2> QED BY <1>7, <2>1, TypeUnchanged DEF TypeOK, Signal
<1> QED BY <1>1, <1>2, <1>3, <1>4, <1>5, <1>6, <1>7 DEF Producer

LEMMA PopHistory ==
  ASSUME TypeOK, c_lidar \in Lidar, NEW e \in [Field -> Nat], PopDone(e),
         UNCHANGED <<seen, accepted>>
  PROVE  HistoryTypeOK'
<1>1. published \in [Lidar -> Seq([Field -> Nat])]
  BY DEF TypeOK, HistoryTypeOK
<1>2. [published EXCEPT ![c_lidar] = Append(@, e)] \in [Lidar -> Seq([Field -> Nat])]
  BY <1>1, AppendFrame
<1>3. published' \in [Lidar -> Seq([Field -> Nat])]
  BY <1>1, <1>2 DEF PopDone
<1> QED BY <1>3 DEF TypeOK, HistoryTypeOK

LEMMA TypeConsumer == ASSUME TypeOK, Consumer PROVE TypeOK'
<1>0. LidarCount \in Nat /\ 0 \in 0..LidarCount
  BY LidarCountAssumption
<1>1. CASE DistributePointCloudData
  <2>1. ConsumerTypeOK'
    BY <1>1 DEF TypeOK, ConsumerTypeOK, DistributePointCloudData
  <2> QED BY <1>1, <2>1, TypeUnchanged DEF TypeOK, DistributePointCloudData
<1>2. CASE Wait
  <2>1. ConsumerTypeOK' /\ ControlTypeOK'
    BY <1>2, <1>0 DEF TypeOK, ConsumerTypeOK, ControlTypeOK, Wait, exitVars
  <2> QED BY <1>2, <2>1, TypeUnchanged DEF TypeOK, Wait
<1>3. CASE ScanLidar
  <2>1. ConsumerTypeOK'
    BY <1>3, <1>0 DEF TypeOK, ConsumerTypeOK, ScanLidar, Lidar
  <2>2. ControlTypeOK'
    BY <1>3 DEF TypeOK, ControlTypeOK, ScanLidar, exitVars
  <2> QED BY <1>3, <2>1, <2>2, TypeUnchanged DEF TypeOK, ScanLidar
<1>4. CASE ScanEnd
  <2>1. ConsumerTypeOK'
    BY <1>4 DEF TypeOK, ConsumerTypeOK, ScanEnd
  <2> QED BY <1>4, <2>1, TypeUnchanged DEF TypeOK, ScanEnd
<1>5. CASE PollingLidarPointCloudData
  <2>1. ConsumerTypeOK'
    BY <1>5, <1>0 DEF TypeOK, ConsumerTypeOK, PollingLidarPointCloudData, Lidar
  <2> QED BY <1>5, <2>1, TypeUnchanged DEF TypeOK, PollingLidarPointCloudData
<1>6. CASE PublishLoop
  <2>1. ConsumerTypeOK'
    BY <1>6 DEF TypeOK, ConsumerTypeOK, PublishLoop
  <2> QED BY <1>6, <2>1, TypeUnchanged DEF TypeOK, PublishLoop
<1>7. ASSUME NEW f \in Field, ReadField(f) PROVE TypeOK'
  <2> DEFINE at == IF "index" \in c_left THEN rd_idx[c_lidar] ELSE rd_idx[c_lidar] - 1
  <2>1. c_pc = "pop" /\ c_lidar \in Lidar
    BY <1>7 DEF TypeOK, ConsumerTypeOK, ReadField
  <2>2. at \in Int
    BY <2>1, CounterModAssumption DEF TypeOK, RingTypeOK
  <2>3. c_pkg' = [c_pkg EXCEPT ![f] = ring[c_lidar][Slot(at)][f]]
    BY <1>7 DEF ReadField
  <2> HIDE DEF at
  <2>4. Slot(at) \in 0..(QueueSize - 1)
    BY <2>2, SlotType
  <2>5. ring[c_lidar][Slot(at)][f] \in Nat
    <3>1. ring[c_lidar] \in [0..(QueueSize - 1) -> [Field -> Nat]]
      BY <2>1 DEF TypeOK, RingTypeOK
    <3>2. ring[c_lidar][Slot(at)] \in [Field -> Nat]
      BY <3>1, <2>4
    <3> QED BY <3>2
  <2>6. c_pkg' \in [Field -> Nat]
    BY <2>3, <2>5 DEF TypeOK, ConsumerTypeOK
  <2>7. ConsumerTypeOK'
    BY <1>7, <2>1, <2>6 DEF TypeOK, ConsumerTypeOK, ReadField, PopDone
  <2>8. HistoryTypeOK'
    BY <1>7, <2>1, <2>6, PopHistory DEF ReadField
  <2> QED BY <1>7, <2>7, <2>8, TypeUnchanged DEF TypeOK, ReadField
<1>8. CASE QueuePopUpdate
  <2>1. c_pc = "pop" /\ c_lidar \in Lidar
    BY <1>8 DEF TypeOK, ConsumerTypeOK, QueuePopUpdate
  <2>2. rd_idx[c_lidar] \in Nat
    BY <2>1, CounterModAssumption DEF TypeOK, RingTypeOK
  <2>3. Inc(rd_idx[c_lidar]) \in 0..(CounterMod - 1)
    BY <2>2, IncType
  <2>4. RingTypeOK'
    BY <1>8, <2>1, <2>3 DEF TypeOK, RingTypeOK, QueuePopUpdate
  <2>5. ConsumerTypeOK'
    BY <1>8, <2>1 DEF TypeOK, ConsumerTypeOK, QueuePopUpdate, PopDone
  <2>6. HistoryTypeOK'
    <3>1. c_pkg \in [Field -> Nat]
      BY DEF TypeOK, ConsumerTypeOK
    <3> QED BY <1>8, <2>1, <3>1, PopHistory DEF QueuePopUpdate
  <2> QED BY <1>8, <2>4, <2>5, <2>6, TypeUnchanged DEF TypeOK, QueuePopUpdate
<1>9. CASE CheckFuture
  <2>1. ConsumerTypeOK'
    BY <1>9 DEF TypeOK, ConsumerTypeOK, CheckFuture
  <2> QED BY <1>9, <2>1, TypeUnchanged DEF TypeOK, CheckFuture
<1> QED BY <1>1, <1>2, <1>3, <1>4, <1>5, <1>6, <1>7, <1>8, <1>9 DEF Consumer

LEMMA TypeStep == TypeOK /\ [Next]_vars => TypeOK'
<1> SUFFICES ASSUME TypeOK, [Next]_vars PROVE TypeOK'
  OBVIOUS
<1>1. ASSUME NEW l \in Lidar, StartSampling(l) PROVE TypeOK'
  <2>1. ControlTypeOK'
    BY <1>1 DEF TypeOK, ControlTypeOK, StartSampling, exitVars
  <2> QED BY <1>1, <2>1, TypeUnchanged DEF TypeOK, StartSampling
<1>2. CASE RequestExit \/ SetExitSignal \/ Join
  <2>1. ControlTypeOK'
    BY <1>2 DEF TypeOK, ControlTypeOK, RequestExit, SetExitSignal, Join
  <2> QED BY <1>2, <2>1, TypeUnchanged DEF TypeOK, RequestExit, SetExitSignal, Join
<1>3. CASE UNCHANGED vars
  BY <1>3, TypeUnchanged DEF TypeOK, vars
<1> QED BY <1>1, <1>2, <1>3, TypeProducer, TypeConsumer DEF Next

(* Every variable keeps its type, for every instance of the constants. *)
THEOREM TypeCorrect == Spec => []TypeOK
<1>1. Init => TypeOK
  BY TypeInit
<1>2. TypeOK /\ [Next]_vars => TypeOK'
  BY TypeStep
<1> QED BY <1>1, <1>2, PTL DEF Spec
-----------------------------------------------------------------------------
(* The rings: an inductive invariant that ties the wrapped counters and the *)
(* slots to the history of the frames kept and published.                   *)

Kept(l) == Len(accepted[l])
Out(l)  == Len(published[l])

RingInv(l) ==
  /\ Out(l) <= Kept(l) /\ Kept(l) - Out(l) <= QueueSize
  /\ wr_idx[l] = Kept(l) % CounterMod /\ rd_idx[l] = Out(l) % CounterMod
  /\ \A j \in 1..Kept(l) : j > Out(l) =>
        \A f \in Field : ring[l][(j - 1) % QueueSize][f] = accepted[l][j][f]
  /\ \A j \in 1..Out(l) : published[l][j] = accepted[l][j]

ProducerInv ==
  /\ p_pc \in {"check", "write"} => p_frame = seen[p_lidar] + 1
  /\ p_pc = "write" =>
       /\ Kept(p_lidar) - Out(p_lidar) < QueueSize
       /\ "index" \in p_left
       /\ \A f \in Field \ p_left :
            ring[p_lidar][Kept(p_lidar) % QueueSize][f] = p_frame

ConsumerInv ==
  c_pc = "pop" =>
    /\ Out(c_lidar) < Kept(c_lidar)
    /\ "index" \in c_left
    /\ \A f \in Field \ c_left :
         c_pkg[f] = accepted[c_lidar][Out(c_lidar) + 1][f]

IInv == TypeOK /\ (\A l \in Lidar : RingInv(l)) /\ ProducerInv /\ ConsumerInv

LEMMA CountTypes ==
  ASSUME TypeOK, NEW l \in Lidar
  PROVE  /\ Kept(l) \in Nat /\ Out(l) \in Nat
         /\ accepted[l] \in Seq([Field -> Nat])
         /\ published[l] \in Seq([Field -> Nat])
<1> DEFINE E == [Field -> Nat]
<1>1. accepted[l] \in Seq(E) /\ published[l] \in Seq(E)
  BY DEF TypeOK, HistoryTypeOK
<1> HIDE DEF E
<1>2. Len(accepted[l]) \in Nat /\ Len(published[l]) \in Nat
  BY <1>1
<1> QED BY <1>1, <1>2 DEF E, Kept, Out

LEMMA CountTypesPrime ==
  ASSUME TypeOK', NEW l \in Lidar
  PROVE  Len(accepted'[l]) \in Nat /\ Len(published'[l]) \in Nat
<1> DEFINE E == [Field -> Nat]
<1>1. accepted'[l] \in Seq(E) /\ published'[l] \in Seq(E)
  BY DEF TypeOK, HistoryTypeOK
<1> HIDE DEF E
<1> QED BY <1>1

(* What the code computes from the wrapped counters is the true number of   *)
(* frames in the ring.                                                      *)
LEMMA UsedSize ==
  ASSUME TypeOK, NEW l \in Lidar, RingInv(l)
  PROVE  /\ QueueUsedSize(l) = Kept(l) - Out(l)
         /\ QueueIsEmpty(l) <=> Kept(l) = Out(l)
         /\ Slot(wr_idx[l]) = Kept(l) % QueueSize
         /\ Slot(rd_idx[l]) = Out(l) % QueueSize
<1> DEFINE a == Kept(l)
           b == Out(l)
<1>1. /\ a \in Nat /\ b \in Nat /\ b <= a /\ a - b <= QueueSize
      /\ wr_idx[l] = a % CounterMod /\ rd_idx[l] = b % CounterMod
  BY CountTypes DEF RingInv
<1>2. CounterMod \in Nat \ {0} /\ QueueSize < CounterMod /\ QueueSize \in Nat
  BY CounterModAssumption, QueueSizeAssumption
<1> HIDE DEF a, b
<1>3. a - b < CounterMod
  BY <1>1, <1>2
<1>4. QueueUsedSize(l) = a - b
  <2>1. ((a % CounterMod) - (b % CounterMod)) % CounterMod = a - b
    BY <1>1, <1>2, <1>3, ModSubtract
  <2> QED BY <1>1, <2>1 DEF QueueUsedSize
<1>5. QueueIsEmpty(l) <=> a = b
  <2>1. CASE a = b
    BY <2>1, <1>1 DEF QueueIsEmpty
  <2>2. CASE b < a
    <3>1. b % CounterMod # a % CounterMod
      BY <2>2, <1>1, <1>2, <1>3, ModDiffer
    <3> QED BY <3>1, <2>2, <1>1 DEF QueueIsEmpty
  <2> QED BY <2>1, <2>2, <1>1
<1>6. Slot(wr_idx[l]) = a % QueueSize /\ Slot(rd_idx[l]) = b % QueueSize
  BY <1>1, SlotOfWrapped
<1> QED BY <1>4, <1>5, <1>6 DEF a, b

LEMMA RingUnchanged ==
  ASSUME NEW l \in Lidar, RingInv(l),
         UNCHANGED <<rd_idx, wr_idx, ring, accepted, published>>
  PROVE  RingInv(l)'
  BY DEF RingInv, Kept, Out

LEMMA ProducerUnchanged ==
  ASSUME ProducerInv, TypeOK,
         UNCHANGED <<p_pc, p_lidar, p_frame, p_left, ring, accepted, seen>>,
         p_pc = "write" => Out(p_lidar)' >= Out(p_lidar) /\ Out(p_lidar)' \in Nat
  PROVE  ProducerInv'
<1>1. p_lidar \in Lidar
  BY DEF TypeOK, ProducerTypeOK
<1>2. Kept(p_lidar) \in Nat /\ Out(p_lidar) \in Nat
  BY <1>1, CountTypes
<1>3. Kept(p_lidar)' = Kept(p_lidar)
  BY DEF Kept
<1> QED BY <1>2, <1>3, QueueSizeAssumption DEF ProducerInv

LEMMA ConsumerUnchanged ==
  ASSUME ConsumerInv, UNCHANGED <<cVars, accepted, published>>
  PROVE  ConsumerInv'
  BY DEF ConsumerInv, cVars, Kept, Out

(* Initially all rings are empty. *)
LEMMA InvInit == Init => IInv
<1> SUFFICES ASSUME Init PROVE IInv
  OBVIOUS
<1>1. TypeOK
  BY TypeInit
<1>2. ASSUME NEW l \in Lidar PROVE RingInv(l)
  <2>1. accepted[l] = <<>> /\ published[l] = <<>> /\ wr_idx[l] = 0 /\ rd_idx[l] = 0
    BY DEF Init
  <2>2. Kept(l) = 0 /\ Out(l) = 0
    BY <2>1 DEF Kept, Out
  <2>3. CounterMod \in Nat \ {0} /\ 0 \in 0..(CounterMod - 1) /\ 0 = CounterMod * 0 + 0
    BY CounterModAssumption, QueueSizeAssumption
  <2>4. 0 % CounterMod = 0
    BY <2>3, ModUnique
  <2> QED BY <2>1, <2>2, <2>4, QueueSizeAssumption DEF RingInv
<1>3. ProducerInv /\ ConsumerInv
  BY DEF Init, ProducerInv, ConsumerInv
<1> QED BY <1>1, <1>2, <1>3 DEF IInv

(* The writer fills a slot that no waiting frame occupies.                  *)
LEMMA WriteFieldInv ==
  ASSUME IInv, ProgramOrder, NEW f \in Field, WriteField(f), TypeOK'
  PROVE  IInv'
<1> DEFINE s == Kept(p_lidar) % QueueSize
<1>1. /\ p_lidar \in Lidar /\ p_pc = "write" /\ "index" \in p_left
      /\ RingInv(p_lidar) /\ TypeOK /\ p_frame \in Nat
  BY DEF IInv, TypeOK, ProducerTypeOK, WriteField, ProducerInv
<1>2. Slot(wr_idx[p_lidar]) = s
  BY <1>1, UsedSize
<1>3. ring' = [ring EXCEPT ![p_lidar][s][f] = p_frame]
  BY <1>1, <1>2 DEF WriteField
<1>4. Kept(p_lidar) \in Nat /\ Out(p_lidar) \in Nat /\ s \in 0..(QueueSize - 1)
  BY <1>1, CountTypes, DivMod, QueueSizeAssumption
<1>5. UNCHANGED <<rd_idx, wr_idx, accepted, published>>
  BY DEF WriteField, history
<1> HIDE DEF s
<1>6. ring[p_lidar] \in [0..(QueueSize - 1) -> [Field -> Nat]]
      /\ ring \in [Lidar -> [0..(QueueSize - 1) -> [Field -> Nat]]]
  BY <1>1 DEF TypeOK, RingTypeOK
<1>7. ASSUME NEW l \in Lidar PROVE RingInv(l)'
  <2>1. RingInv(l) /\ Kept(l) \in Nat /\ Out(l) \in Nat
    BY <1>1, CountTypes DEF IInv
  <2>2. Kept(l)' = Kept(l) /\ Out(l)' = Out(l)
    BY <1>5 DEF Kept, Out
  <2>3. ASSUME NEW j \in 1..Kept(l), j > Out(l), NEW g \in Field
        PROVE  ring'[l][(j - 1) % QueueSize][g] = accepted[l][j][g]
    <3>1. ring[l][(j - 1) % QueueSize][g] = accepted[l][j][g]
      BY <2>1, <2>3 DEF RingInv
    <3>2. (j - 1) % QueueSize \in 0..(QueueSize - 1)
      BY DivMod, QueueSizeAssumption
    <3>3. CASE l # p_lidar
      BY <1>1, <1>3, <1>6, <3>1, <3>3
    <3>4. CASE l = p_lidar
      <4>1. Kept(l) - Out(l) < QueueSize
        BY <1>1, <3>4 DEF IInv, ProducerInv
      <4>2. (j - 1) % QueueSize # s
        <5>1. j - 1 \in Nat /\ j - 1 < Kept(l) /\ Kept(l) - (j - 1) < QueueSize
          BY <2>1, <2>3, <4>1, QueueSizeAssumption
        <5> QED BY <5>1, <2>1, <3>4, ModDiffer, QueueSizeAssumption DEF s
      <4> QED BY <1>3, <1>6, <3>1, <3>2, <3>4, <4>2
    <3> QED BY <3>3, <3>4
  <2> QED BY <1>5, <2>1, <2>2, <2>3 DEF RingInv
<1>8. ProducerInv'
  <2>1. p_frame = seen[p_lidar] + 1
    BY <1>1 DEF IInv, ProducerInv
  <2>2. Kept(p_lidar)' = Kept(p_lidar) /\ Out(p_lidar)' = Out(p_lidar)
        /\ p_lidar' = p_lidar /\ p_frame' = p_frame /\ p_left' = p_left \ {f}
        /\ seen' = seen
    BY <1>5 DEF Kept, Out, WriteField, history
  <2>3. "index" \in p_left'
    BY <1>1, <2>2 DEF Field
  <2>4. ASSUME NEW g \in Field \ p_left'
        PROVE  ring'[p_lidar][s][g] = p_frame
    <3>1. CASE g = f
      BY <1>1, <1>3, <1>4, <1>6, <3>1
    <3>2. CASE g # f
      <4>1. g \in Field \ p_left
        BY <2>2, <3>2
      <4>2. ring[p_lidar][s][g] = p_frame
        BY <1>1, <4>1 DEF IInv, ProducerInv, s
      <4> QED BY <1>1, <1>3, <1>4, <1>6, <3>2, <4>2
    <3> QED BY <3>1, <3>2
  <2> QED BY <1>1, <2>1, <2>2, <2>3, <2>4 DEF IInv, ProducerInv, s
<1>9. ConsumerInv'
  BY <1>5, ConsumerUnchanged DEF IInv, WriteField
<1> QED BY <1>7, <1>8, <1>9 DEF IInv

LEMMA AccessEffects ==
  ASSUME ProgramOrder, NEW left \in SUBSET Access, MayAccess("index", left)
  PROVE  left \cap Field = {} /\ left \ {"index"} = {}
  BY DEF MayAccess, Before, Access

(* What wr_idx++ does, once the slot is filled.                              *)
LEMMA WriteIndexEffect ==
  ASSUME IInv, ProgramOrder, WriteIndex
  PROVE  /\ p_lidar \in Lidar /\ Kept(p_lidar) - Out(p_lidar) < QueueSize
         /\ p_frame = seen[p_lidar] + 1 /\ p_pc' = "nonempty"
         /\ accepted' = [accepted EXCEPT ![p_lidar] = Append(@, Frame(p_frame))]
         /\ wr_idx' = [wr_idx EXCEPT ![p_lidar] = (Kept(p_lidar) + 1) % CounterMod]
         /\ \A f \in Field : ring[p_lidar][Kept(p_lidar) % QueueSize][f] = p_frame
<1>1. p_lidar \in Lidar /\ p_pc = "write" /\ p_left \in SUBSET Access /\ TypeOK
  BY DEF IInv, TypeOK, ProducerTypeOK, WriteIndex
<1>2. p_left \cap Field = {} /\ p_left' = {}
  BY <1>1, AccessEffects DEF WriteIndex
<1>3. RingInv(p_lidar) /\ Kept(p_lidar) \in Nat
  BY <1>1, CountTypes DEF IInv
<1>4. Inc(wr_idx[p_lidar]) = (Kept(p_lidar) + 1) % CounterMod
  <2>1. CounterMod \in Nat \ {0}
    BY CounterModAssumption, QueueSizeAssumption
  <2>2. wr_idx[p_lidar] = Kept(p_lidar) % CounterMod
    BY <1>3 DEF RingInv
  <2>3. ((Kept(p_lidar) % CounterMod) + 1) % CounterMod = (Kept(p_lidar) + 1) % CounterMod
    BY <1>3, <2>1, ModIncrement
  <2> QED BY <2>2, <2>3 DEF Inc
<1>5. wr_idx' = [wr_idx EXCEPT ![p_lidar] = (Kept(p_lidar) + 1) % CounterMod]
  BY <1>4 DEF WriteIndex
<1> QED BY <1>1, <1>2, <1>5 DEF IInv, ProducerInv, WriteIndex

LEMMA WriteIndexInv ==
  ASSUME IInv, ProgramOrder, WriteIndex, TypeOK'
  PROVE  IInv'
<1>1. /\ p_lidar \in Lidar /\ Kept(p_lidar) - Out(p_lidar) < QueueSize
      /\ p_pc' = "nonempty" /\ p_frame \in Nat /\ TypeOK
      /\ accepted' = [accepted EXCEPT ![p_lidar] = Append(@, Frame(p_frame))]
      /\ wr_idx' = [wr_idx EXCEPT ![p_lidar] = (Kept(p_lidar) + 1) % CounterMod]
      /\ \A f \in Field : ring[p_lidar][Kept(p_lidar) % QueueSize][f] = p_frame
  BY WriteIndexEffect DEF IInv, TypeOK, ProducerTypeOK
<1>2. UNCHANGED <<rd_idx, ring, published>>
  BY DEF WriteIndex
<1>3. ASSUME NEW l \in Lidar
      PROVE  /\ Kept(l) \in Nat /\ Out(l) \in Nat /\ Out(l)' = Out(l)
             /\ l # p_lidar => accepted'[l] = accepted[l] /\ Kept(l)' = Kept(l)
             /\ l = p_lidar => /\ Kept(l)' = Kept(l) + 1
                              /\ accepted'[l][Kept(l) + 1] = Frame(p_frame)
             /\ \A j \in 1..Kept(l) : accepted'[l][j] = accepted[l][j]
  <2> DEFINE E == [Field -> Nat]
  <2>1. Frame(p_frame) \in E /\ accepted \in [Lidar -> Seq(E)]
    BY <1>1 DEF Frame, TypeOK, HistoryTypeOK
  <2>2. Kept(l) \in Nat /\ Out(l) \in Nat
    BY <1>1, CountTypes
  <2> HIDE DEF E
  <2> QED BY <1>1, <1>2, <2>1, <2>2 DEF Kept, Out
<1>4. ASSUME NEW l \in Lidar PROVE RingInv(l)'
  <2>1. RingInv(l)
    BY DEF IInv
  <2>2. Out(l)' <= Kept(l)' /\ Kept(l)' - Out(l)' <= QueueSize
    BY <1>1, <1>3, <2>1, QueueSizeAssumption DEF RingInv
  <2>3. wr_idx'[l] = Kept(l)' % CounterMod /\ rd_idx'[l] = Out(l)' % CounterMod
    BY <1>1, <1>2, <1>3, <2>1 DEF RingInv, TypeOK, RingTypeOK
  <2>4. ASSUME NEW j \in 1..Kept(l)', j > Out(l)', NEW f \in Field
        PROVE  ring'[l][(j - 1) % QueueSize][f] = accepted'[l][j][f]
    <3>1. CASE j \in 1..Kept(l)
      BY <1>2, <1>3, <2>1, <2>4, <3>1 DEF RingInv
    <3>2. CASE l = p_lidar /\ j = Kept(l) + 1
      <4>1. j - 1 = Kept(l) /\ accepted'[l][j] = Frame(p_frame)
        BY <1>3, <3>2
      <4>2. ring'[l][Kept(l) % QueueSize][f] = p_frame
        BY <1>1, <1>2, <3>2
      <4> QED BY <4>1, <4>2 DEF Frame
    <3> QED BY <1>3, <3>1, <3>2
  <2>5. ASSUME NEW j \in 1..Out(l)' PROVE published'[l][j] = accepted'[l][j]
    <3>1. j \in 1..Out(l) /\ j \in 1..Kept(l)
      BY <1>3, <2>1 DEF RingInv
    <3> QED BY <1>2, <1>3, <2>1, <3>1 DEF RingInv
  <2> QED BY <2>2, <2>3, <2>4, <2>5 DEF RingInv
<1>5. ProducerInv'
  BY <1>1 DEF ProducerInv
<1>6. ConsumerInv'
  <2> SUFFICES ASSUME c_pc = "pop" PROVE ConsumerInv'
    BY DEF ConsumerInv, WriteIndex, cVars
  <2>1. c_lidar \in Lidar /\ Out(c_lidar) < Kept(c_lidar) /\ "index" \in c_left
    BY DEF IInv, TypeOK, ConsumerTypeOK, ConsumerInv
  <2>2. UNCHANGED <<c_pc, c_lidar, c_pkg, c_left>>
    BY DEF WriteIndex, cVars
  <2>3. Out(c_lidar)' = Out(c_lidar)
    BY <1>2, <2>2 DEF Out
  <2>4. Kept(c_lidar)' >= Kept(c_lidar)
    <3>1. CASE c_lidar # p_lidar
      BY <1>3, <2>1, <2>2, <3>1 DEF Kept
    <3>2. CASE c_lidar = p_lidar
      <4>1. PICK l \in Lidar : l = p_lidar
        BY <1>1
      <4>2. Kept(l)' = Kept(l) + 1 /\ Kept(l) \in Nat
        BY <1>3, <4>1
      <4> QED BY <2>2, <3>2, <4>1, <4>2 DEF Kept
    <3> QED BY <3>1, <3>2
  <2>5. Kept(c_lidar) \in Nat /\ Out(c_lidar) \in Nat /\ Kept(c_lidar)' \in Nat
    <3>1. c_lidar' \in Lidar
      BY <2>1, <2>2
    <3> QED BY <1>1, <2>1, <2>2, <3>1, CountTypes, CountTypesPrime DEF Kept
  <2>6. Out(c_lidar) + 1 \in 1..Kept(c_lidar) /\ Out(c_lidar)' < Kept(c_lidar)'
    BY <2>1, <2>3, <2>4, <2>5
  <2>7. accepted'[c_lidar][Out(c_lidar) + 1] = accepted[c_lidar][Out(c_lidar) + 1]
    BY <1>3, <2>1, <2>6
  <2> QED BY <2>1, <2>2, <2>3, <2>6, <2>7 DEF IInv, ConsumerInv
<1> QED BY <1>4, <1>5, <1>6 DEF IInv

(* The reader copies the oldest waiting frame.                               *)
LEMMA ReadFieldInv ==
  ASSUME IInv, ProgramOrder, NEW f \in Field, ReadField(f), TypeOK'
  PROVE  IInv'
<1>1. /\ c_pc = "pop" /\ c_lidar \in Lidar /\ TypeOK /\ RingInv(c_lidar)
      /\ "index" \in c_left /\ Out(c_lidar) < Kept(c_lidar)
      /\ c_pkg \in [Field -> Nat] /\ c_left' = c_left \ {f}
  BY DEF IInv, TypeOK, ConsumerTypeOK, ConsumerInv, ReadField
<1>2. "index" \in c_left'
  BY <1>1 DEF Field
<1>3. UNCHANGED <<ringVars, pVars, c_pc, c_lidar, seen, accepted, published>>
  BY <1>2 DEF ReadField, PopDone
<1>4. Kept(c_lidar) \in Nat /\ Out(c_lidar) \in Nat
  BY <1>1, CountTypes
<1>5. c_pkg'[f] = accepted[c_lidar][Out(c_lidar) + 1][f]
  <2>1. Slot(rd_idx[c_lidar]) = Out(c_lidar) % QueueSize
    BY <1>1, UsedSize
  <2>2. c_pkg'[f] = ring[c_lidar][Slot(rd_idx[c_lidar])][f]
    BY <1>1 DEF ReadField
  <2>3. /\ Out(c_lidar) + 1 \in 1..Kept(c_lidar) /\ Out(c_lidar) + 1 > Out(c_lidar)
        /\ (Out(c_lidar) + 1) - 1 = Out(c_lidar)
    BY <1>1, <1>4
  <2>4. ring[c_lidar][((Out(c_lidar) + 1) - 1) % QueueSize][f]
          = accepted[c_lidar][Out(c_lidar) + 1][f]
    BY <1>1, <2>3 DEF RingInv
  <2> QED BY <2>1, <2>2, <2>3, <2>4
<1>6. ASSUME NEW g \in Field \ c_left'
      PROVE  c_pkg'[g] = accepted[c_lidar][Out(c_lidar) + 1][g]
  <2>1. CASE g = f
    BY <1>5, <2>1
  <2>2. CASE g # f
    <3>1. g \in Field \ c_left
      BY <1>1, <2>2
    <3>2. c_pkg'[g] = c_pkg[g]
      BY <1>1, <2>2, <3>1 DEF ReadField
    <3> QED BY <1>1, <3>1, <3>2 DEF IInv, ConsumerInv
  <2> QED BY <2>1, <2>2
<1>7. ConsumerInv'
  BY <1>1, <1>2, <1>3, <1>6 DEF ConsumerInv, Kept, Out
<1>8. \A l \in Lidar : RingInv(l)'
  BY <1>3, RingUnchanged DEF IInv, ringVars
<1>9. ProducerInv'
  BY <1>3 DEF IInv, ProducerInv, ringVars, pVars, Kept, Out
<1> QED BY <1>7, <1>8, <1>9 DEF IInv

(* What rd_idx++ does, once the frame is copied.                             *)
LEMMA PopEffect ==
  ASSUME IInv, ProgramOrder, QueuePopUpdate
  PROVE  /\ c_lidar \in Lidar /\ Out(c_lidar) < Kept(c_lidar) /\ c_pc' = "publish"
         /\ published' = [published EXCEPT
                            ![c_lidar] = Append(@, accepted[c_lidar][Out(c_lidar) + 1])]
         /\ rd_idx' = [rd_idx EXCEPT ![c_lidar] = (Out(c_lidar) + 1) % CounterMod]
<1>1. /\ c_pc = "pop" /\ c_lidar \in Lidar /\ TypeOK /\ RingInv(c_lidar)
      /\ c_left \in SUBSET Access /\ Out(c_lidar) < Kept(c_lidar)
      /\ c_pkg \in [Field -> Nat]
  BY DEF IInv, TypeOK, ConsumerTypeOK, ConsumerInv, QueuePopUpdate
<1>2. c_left \cap Field = {} /\ c_left' = {}
  BY <1>1, AccessEffects DEF QueuePopUpdate
<1>3. /\ Kept(c_lidar) \in Nat /\ Out(c_lidar) \in Nat
      /\ accepted[c_lidar] \in Seq([Field -> Nat])
  BY <1>1, CountTypes
<1>4. c_pkg = accepted[c_lidar][Out(c_lidar) + 1]
  <2>1. Out(c_lidar) + 1 \in 1..Len(accepted[c_lidar])
    BY <1>1, <1>3 DEF Kept
  <2>2. accepted[c_lidar][Out(c_lidar) + 1] \in [Field -> Nat]
    <3> DEFINE E == [Field -> Nat]
    <3>1. accepted[c_lidar] \in Seq(E)
      BY <1>3
    <3> HIDE DEF E
    <3>2. accepted[c_lidar][Out(c_lidar) + 1] \in E
      BY <2>1, <3>1
    <3> QED BY <3>2 DEF E
  <2>3. \A f \in Field : c_pkg[f] = accepted[c_lidar][Out(c_lidar) + 1][f]
    BY <1>1, <1>2 DEF IInv, ConsumerInv
  <2> QED BY <1>1, <2>2, <2>3
<1>5. Inc(rd_idx[c_lidar]) = (Out(c_lidar) + 1) % CounterMod
  <2>1. CounterMod \in Nat \ {0}
    BY CounterModAssumption, QueueSizeAssumption
  <2>2. rd_idx[c_lidar] = Out(c_lidar) % CounterMod
    BY <1>1 DEF RingInv
  <2>3. ((Out(c_lidar) % CounterMod) + 1) % CounterMod = (Out(c_lidar) + 1) % CounterMod
    BY <1>3, <2>1, ModIncrement
  <2> QED BY <2>2, <2>3 DEF Inc
<1>6. rd_idx' = [rd_idx EXCEPT ![c_lidar] = (Out(c_lidar) + 1) % CounterMod]
  BY <1>5 DEF QueuePopUpdate
<1> QED BY <1>1, <1>2, <1>4, <1>6 DEF QueuePopUpdate, PopDone

LEMMA PopInv ==
  ASSUME IInv, ProgramOrder, QueuePopUpdate, TypeOK'
  PROVE  IInv'
<1>1. PICK c \in Lidar :
      /\ c = c_lidar /\ Out(c) < Kept(c) /\ c_pc' = "publish"
      /\ published' = [published EXCEPT ![c] = Append(@, accepted[c][Out(c) + 1])]
      /\ rd_idx' = [rd_idx EXCEPT ![c] = (Out(c) + 1) % CounterMod]
  BY PopEffect
<1>2. UNCHANGED <<wr_idx, ring, accepted, pVars, seen>> /\ TypeOK
  BY DEF QueuePopUpdate, IInv
<1>3. ASSUME NEW l \in Lidar
      PROVE  /\ Kept(l) \in Nat /\ Out(l) \in Nat /\ Kept(l)' = Kept(l)
             /\ l # c => published'[l] = published[l] /\ Out(l)' = Out(l)
             /\ l = c => /\ Out(l)' = Out(l) + 1
                        /\ published'[l][Out(l) + 1] = accepted[l][Out(l) + 1]
             /\ \A j \in 1..Out(l) : published'[l][j] = published[l][j]
  <2> DEFINE E == [Field -> Nat]
  <2>1. Kept(l) \in Nat /\ Out(l) \in Nat /\ Kept(c) \in Nat /\ Out(c) \in Nat
    BY <1>2, CountTypes
  <2>2. accepted \in [Lidar -> Seq(E)] /\ published \in [Lidar -> Seq(E)]
    BY <1>2 DEF TypeOK, HistoryTypeOK
  <2> HIDE DEF E
  <2>3. accepted[c][Out(c) + 1] \in E
    BY <1>1, <2>1, <2>2 DEF Kept
  <2> QED BY <1>1, <1>2, <2>1, <2>2, <2>3 DEF Kept, Out
<1>4. ASSUME NEW l \in Lidar PROVE RingInv(l)'
  <2>1. RingInv(l)
    BY DEF IInv
  <2>2. Out(l)' <= Kept(l)' /\ Kept(l)' - Out(l)' <= QueueSize
    BY <1>1, <1>3, <2>1, QueueSizeAssumption DEF RingInv
  <2>3. wr_idx'[l] = Kept(l)' % CounterMod /\ rd_idx'[l] = Out(l)' % CounterMod
    BY <1>1, <1>2, <1>3, <2>1 DEF RingInv, TypeOK, RingTypeOK
  <2>4. ASSUME NEW j \in 1..Kept(l)', j > Out(l)', NEW f \in Field
        PROVE  ring'[l][(j - 1) % QueueSize][f] = accepted'[l][j][f]
    <3>1. j \in 1..Kept(l) /\ j > Out(l)
      BY <1>3, <2>4
    <3> QED BY <1>2, <2>1, <3>1 DEF RingInv
  <2>5. ASSUME NEW j \in 1..Out(l)' PROVE published'[l][j] = accepted'[l][j]
    <3>1. CASE j \in 1..Out(l)
      BY <1>2, <1>3, <2>1, <3>1 DEF RingInv
    <3>2. CASE l = c /\ j = Out(l) + 1
      BY <1>2, <1>3, <3>2
    <3> QED BY <1>3, <3>1, <3>2
  <2> QED BY <2>2, <2>3, <2>4, <2>5 DEF RingInv
<1>5. ConsumerInv'
  BY <1>1 DEF ConsumerInv
<1>6. ProducerInv'
  <2>1. PICK p \in Lidar : p = p_lidar
    BY <1>2 DEF TypeOK, ProducerTypeOK
  <2>2. Out(p)' >= Out(p) /\ Out(p)' \in Nat
    BY <1>3
  <2>3. p_lidar' = p_lidar
    BY <1>2 DEF pVars
  <2>4. Out(p_lidar)' >= Out(p_lidar) /\ Out(p_lidar)' \in Nat
    BY <2>1, <2>2, <2>3 DEF Out
  <2> QED BY <1>2, <2>4, ProducerUnchanged DEF IInv, pVars
<1> QED BY <1>4, <1>5, <1>6 DEF IInv

(* The producer may write only after it found room.                          *)
LEMMA PushCheckFullInv ==
  ASSUME IInv, PushCheckFull
  PROVE  /\ (\A l \in Lidar : RingInv(l)') /\ ProducerInv' /\ ConsumerInv'
         /\ QueueIsFull(p_lidar) <=> Kept(p_lidar) - Out(p_lidar) = QueueSize
<1>1. /\ p_lidar \in Lidar /\ TypeOK /\ RingInv(p_lidar) /\ p_pc = "check"
      /\ p_frame = seen[p_lidar] + 1
  BY DEF IInv, TypeOK, ProducerTypeOK, PushCheckFull, ProducerInv
<1>2. /\ Kept(p_lidar) \in Nat /\ Out(p_lidar) \in Nat
      /\ Kept(p_lidar) - Out(p_lidar) <= QueueSize
  BY <1>1, CountTypes DEF RingInv
<1>3. QueueIsFull(p_lidar) <=> Kept(p_lidar) - Out(p_lidar) = QueueSize
  BY <1>1, <1>2, UsedSize, QueueSizeAssumption DEF QueueIsFull
<1>4. UNCHANGED <<ringVars, cVars, accepted, published, p_lidar, p_frame>>
  BY DEF PushCheckFull
<1>5. \A l \in Lidar : RingInv(l)'
  BY <1>4, RingUnchanged DEF IInv, ringVars
<1>6. ProducerInv'
  <2>1. CASE QueueIsFull(p_lidar)
    BY <2>1 DEF PushCheckFull, ProducerInv
  <2>2. CASE ~QueueIsFull(p_lidar)
    <3>1. p_pc' = "write" /\ p_left' = Access /\ seen' = seen
      BY <2>2 DEF PushCheckFull
    <3>2. Kept(p_lidar) - Out(p_lidar) < QueueSize
      BY <1>2, <1>3, <2>2, QueueSizeAssumption
    <3> QED BY <1>1, <1>4, <3>1, <3>2 DEF ProducerInv, Kept, Out, Access
  <2> QED BY <2>1, <2>2
<1>7. ConsumerInv'
  BY <1>4, ConsumerUnchanged DEF IInv
<1> QED BY <1>3, <1>5, <1>6, <1>7

LEMMA PublishLoopInv ==
  ASSUME IInv, PublishLoop
  PROVE  (\A l \in Lidar : RingInv(l)') /\ ProducerInv' /\ ConsumerInv'
<1>1. TypeOK /\ c_lidar \in Lidar /\ RingInv(c_lidar)
  BY DEF IInv, TypeOK, ConsumerTypeOK, PublishLoop
<1>2. UNCHANGED <<ringVars, pVars, history, c_lidar, c_pkg>>
  BY DEF PublishLoop
<1>3. ConsumerInv'
  <2>1. CASE QueueIsEmpty(c_lidar)
    BY <2>1 DEF PublishLoop, ConsumerInv
  <2>2. CASE ~QueueIsEmpty(c_lidar)
    <3>1. Out(c_lidar) < Kept(c_lidar)
      BY <1>1, <2>2, UsedSize, CountTypes DEF RingInv
    <3>2. c_left' = Access
      BY <2>2 DEF PublishLoop
    <3> QED BY <1>2, <3>1, <3>2 DEF ConsumerInv, Access, Kept, Out, history
  <2> QED BY <2>1, <2>2
<1>4. \A l \in Lidar : RingInv(l)'
  BY <1>2, RingUnchanged DEF IInv, ringVars, history
<1>5. ProducerInv'
  BY <1>2 DEF IInv, ProducerInv, ringVars, pVars, history, Kept, Out
<1> QED BY <1>3, <1>4, <1>5

(* Steps that touch neither a ring nor the history of frames.                *)
LEMMA OtherInv ==
  ASSUME IInv, UNCHANGED <<rd_idx, wr_idx, ring, history>>,
         \/ UNCHANGED pVars
         \/ p_pc' \notin {"check", "write"}
         \/ p_pc' = "check" /\ p_frame' = seen[p_lidar'] + 1,
         UNCHANGED cVars \/ c_pc' # "pop"
  PROVE  (\A l \in Lidar : RingInv(l)') /\ ProducerInv' /\ ConsumerInv'
<1>1. \A l \in Lidar : RingInv(l)'
  BY RingUnchanged DEF IInv, history
<1>2. ProducerInv'
  BY DEF IInv, ProducerInv, pVars, history, Kept, Out
<1>3. ConsumerInv'
  BY DEF IInv, ConsumerInv, cVars, history, Kept, Out
<1> QED BY <1>1, <1>2, <1>3

LEMMA InvStep == ProgramOrder /\ IInv /\ [Next]_vars => IInv'
<1> SUFFICES ASSUME ProgramOrder, IInv, [Next]_vars PROVE IInv'
  OBVIOUS
<1>0. TypeOK'
  BY TypeStep DEF IInv
<1>1. ASSUME NEW l \in Lidar, PushLidarData(l) PROVE IInv'
  <2>1. UNCHANGED <<rd_idx, wr_idx, ring, history, cVars>> /\ p_pc' = "check"
        /\ p_frame' = seen[p_lidar'] + 1
    BY <1>1 DEF PushLidarData
  <2> QED BY <1>0, <2>1, OtherInv DEF IInv
<1>2. CASE PushCheckFull
  BY <1>0, <1>2, PushCheckFullInv DEF IInv
<1>3. ASSUME NEW f \in Field, WriteField(f) PROVE IInv'
  BY <1>0, <1>3, WriteFieldInv
<1>4. CASE WriteIndex
  BY <1>0, <1>4, WriteIndexInv
<1>5. CASE PushCheckEmpty \/ PushGetCount \/ Signal
  <2>1. /\ UNCHANGED <<rd_idx, wr_idx, ring, history, cVars>>
        /\ p_pc' \notin {"check", "write"}
    BY <1>5 DEF PushCheckEmpty, PushGetCount, Signal, ringVars
  <2> QED BY <1>0, <2>1, OtherInv DEF IInv
<1>6. CASE \/ DistributePointCloudData \/ Wait \/ ScanLidar \/ ScanEnd
           \/ PollingLidarPointCloudData \/ CheckFuture
  <2>1. UNCHANGED <<rd_idx, wr_idx, ring, history, pVars>> /\ c_pc' # "pop"
    BY <1>6 DEF DistributePointCloudData, Wait, ScanLidar, ScanEnd,
                PollingLidarPointCloudData, CheckFuture, ringVars
  <2> QED BY <1>0, <2>1, OtherInv DEF IInv
<1>7. CASE PublishLoop
  BY <1>0, <1>7, PublishLoopInv DEF IInv
<1>8. ASSUME NEW f \in Field, ReadField(f) PROVE IInv'
  BY <1>0, <1>8, ReadFieldInv
<1>9. CASE QueuePopUpdate
  BY <1>0, <1>9, PopInv
<1>10. CASE \/ \E l \in Lidar : StartSampling(l)
            \/ RequestExit \/ SetExitSignal \/ Join \/ UNCHANGED vars
  <2>1. UNCHANGED <<rd_idx, wr_idx, ring, history, pVars, cVars>>
    BY <1>10 DEF StartSampling, RequestExit, SetExitSignal, Join, vars, ringVars
  <2> QED BY <1>0, <2>1, OtherInv DEF IInv
<1> QED
  BY <1>1, <1>2, <1>3, <1>4, <1>5, <1>6, <1>7, <1>8, <1>9, <1>10
  DEF Next, Producer, Consumer

LEMMA InvSafety == IInv => SlotExclusion /\ FramesIntact
<1> SUFFICES ASSUME IInv PROVE SlotExclusion /\ FramesIntact
  OBVIOUS
<1>1. SlotExclusion
  <2> SUFFICES ASSUME p_pc = "write", c_pc = "pop", p_lidar = c_lidar,
                      Slot(wr_idx[p_lidar]) = Slot(rd_idx[p_lidar])
               PROVE  FALSE
    BY DEF SlotExclusion
  <2>1. /\ p_lidar \in Lidar /\ TypeOK /\ RingInv(p_lidar)
        /\ Out(p_lidar) < Kept(p_lidar) /\ Kept(p_lidar) - Out(p_lidar) < QueueSize
    BY DEF IInv, TypeOK, ProducerTypeOK, ProducerInv, ConsumerInv
  <2>2. Kept(p_lidar) % QueueSize = Out(p_lidar) % QueueSize
    BY <2>1, UsedSize
  <2> QED BY <2>1, <2>2, CountTypes, ModDiffer, QueueSizeAssumption
<1>2. FramesIntact
  BY DEF FramesIntact, IInv, RingInv, Kept, Out
<1> QED BY <1>1, <1>2

(* The lock-free ring is safe: what holds of the rings in every state.       *)
LEMMA RingInvHolds == ProgramOrder /\ Spec => []IInv
<1> SUFFICES ASSUME ProgramOrder PROVE Spec => []IInv
  OBVIOUS
<1>1. Init => IInv
  BY InvInit
<1>2. IInv /\ [Next]_vars => IInv'
  BY InvStep
<1> QED BY <1>1, <1>2, PTL DEF Spec

(* The writer is never in the slot the reader is copying, for every ring     *)
(* size that divides the counters' range.                                    *)
THEOREM SlotsAreExclusive == ProgramOrder /\ Spec => []SlotExclusion
<1> SUFFICES ASSUME ProgramOrder PROVE Spec => []SlotExclusion
  OBVIOUS
<1>1. IInv => SlotExclusion
  BY InvSafety
<1> QED BY <1>1, RingInvHolds, PTL

(* The frames published are, whole and in order, a prefix of the frames      *)
(* kept, for every ring size that divides the counters' range.               *)
THEOREM RingSafety == ProgramOrder /\ Spec => []FramesIntact
<1> SUFFICES ASSUME ProgramOrder PROVE Spec => []FramesIntact
  OBVIOUS
<1>1. IInv => FramesIntact
  BY InvSafety
<1> QED BY <1>1, RingInvHolds, PTL
-----------------------------------------------------------------------------
(* The rings, semaphore and threads implement the bounded FIFO.              *)

LEMMA FifoStep ==
  ProgramOrder /\ IInv /\ [Next]_vars => [Fifo!FifoNext]_(Fifo!fifoVars)
<1> SUFFICES ASSUME ProgramOrder, IInv, [Next]_vars
             PROVE  [Fifo!FifoNext]_(Fifo!fifoVars)
  OBVIOUS
<1>1. CASE PushCheckFull
  <2>1. CASE QueueIsFull(p_lidar)
    <3>1. p_lidar \in Lidar /\ Kept(p_lidar) - Out(p_lidar) = QueueSize
      BY <1>1, <2>1, PushCheckFullInv DEF IInv, TypeOK, ProducerTypeOK
    <3>2. Fifo!Drop(p_lidar)
      BY <1>1, <2>1, <3>1 DEF Fifo!Drop, Fifo!Waiting, Kept, Out, PushCheckFull
    <3> QED BY <3>1, <3>2 DEF Fifo!FifoNext
  <2>2. CASE ~QueueIsFull(p_lidar)
    BY <1>1, <2>2 DEF PushCheckFull, Fifo!fifoVars
  <2> QED BY <2>1, <2>2
<1>2. CASE WriteIndex
  <2>1. /\ p_lidar \in Lidar /\ Kept(p_lidar) - Out(p_lidar) < QueueSize
        /\ p_frame = seen[p_lidar] + 1
        /\ accepted' = [accepted EXCEPT ![p_lidar] = Append(@, Frame(p_frame))]
    BY <1>2, WriteIndexEffect
  <2>2. Frame(p_frame) = Fifo!Frame(seen[p_lidar] + 1)
    BY <2>1 DEF Frame, Fifo!Frame
  <2>3. Fifo!Keep(p_lidar)
    BY <1>2, <2>1, <2>2 DEF Fifo!Keep, Fifo!Waiting, Kept, Out, WriteIndex
  <2> QED BY <2>1, <2>3 DEF Fifo!FifoNext
<1>3. CASE QueuePopUpdate
  <2>1. PICK c \in Lidar :
        /\ c = c_lidar /\ Out(c) < Kept(c)
        /\ published' = [published EXCEPT ![c] = Append(@, accepted[c][Out(c) + 1])]
    BY <1>3, PopEffect
  <2>2. Kept(c) \in Nat /\ Out(c) \in Nat
    BY CountTypes DEF IInv
  <2>3. Fifo!Publish(c)
    <3>1. Fifo!Waiting(c) > 0
      <4>1. Kept(c) - Out(c) > 0
        BY <2>1, <2>2
      <4> QED BY <4>1 DEF Fifo!Waiting, Kept, Out
    <3>2. published' = [published EXCEPT
                          ![c] = Append(@, accepted[c][Len(@) + 1])]
      BY <2>1 DEF Out
    <3>3. UNCHANGED <<seen, accepted>>
      BY <1>3 DEF QueuePopUpdate
    <3> QED BY <3>1, <3>2, <3>3 DEF Fifo!Publish
  <2> QED BY <2>3 DEF Fifo!FifoNext
<1>4. ASSUME NEW f \in Field, ReadField(f) PROVE UNCHANGED history
  <2>1. "index" \in c_left /\ f # "index"
    BY <1>4 DEF IInv, ConsumerInv, ReadField, Field
  <2> QED BY <1>4, <2>1 DEF ReadField, PopDone, history
<1>5. ASSUME NEW l \in Lidar, PushLidarData(l) \/ StartSampling(l)
      PROVE  UNCHANGED history
  BY <1>5 DEF PushLidarData, StartSampling
<1>6. ASSUME NEW f \in Field, WriteField(f) PROVE UNCHANGED history
  BY <1>6 DEF WriteField
<1>7. CASE \/ PushCheckEmpty \/ PushGetCount \/ Signal \/ DistributePointCloudData
           \/ Wait \/ ScanLidar \/ ScanEnd \/ PollingLidarPointCloudData
           \/ PublishLoop \/ CheckFuture \/ RequestExit \/ SetExitSignal \/ Join
           \/ UNCHANGED vars
  <2>1. UNCHANGED history
    BY <1>7 DEF PushCheckEmpty, PushGetCount, Signal, DistributePointCloudData,
       Wait, ScanLidar, ScanEnd, PollingLidarPointCloudData, PublishLoop,
       CheckFuture, RequestExit, SetExitSignal, Join, vars
  <2> QED BY <2>1 DEF history, Fifo!fifoVars
<1>8. UNCHANGED history => UNCHANGED Fifo!fifoVars
  BY DEF history, Fifo!fifoVars
<1> QED
  BY <1>1, <1>2, <1>3, <1>4, <1>5, <1>6, <1>7, <1>8 DEF Next, Producer, Consumer

(* Every behaviour of the ring, its threads and its semaphore is one of the  *)
(* bounded FIFO: a frame is dropped only when QueueSize frames wait, and all *)
(* others are published whole, once and in order.                            *)
THEOREM RingRefinesFifo == ProgramOrder /\ Spec => RefinesFifo
<1> SUFFICES ASSUME ProgramOrder PROVE Spec => RefinesFifo
  OBVIOUS
<1>1. Init => Fifo!FifoInit
  BY DEF Init, Fifo!FifoInit
<1>2. Init => IInv
  BY InvInit
<1>3. IInv /\ [Next]_vars => IInv'
  BY InvStep
<1>4. IInv /\ [Next]_vars => [Fifo!FifoNext]_(Fifo!fifoVars)
  BY FifoStep
<1> QED BY <1>1, <1>2, <1>3, <1>4, PTL DEF Spec, RefinesFifo, Fifo!FifoSpec
-----------------------------------------------------------------------------
(* The semaphore: an inductive invariant that names who will wake, or is, the *)
(* poll thread for every Sampling lidar with frames it has not visited.       *)

AllocatedInv ==
  /\ \A l \in Lidar : allocated[l] \/ QueueIsEmpty(l)
  /\ p_pc \in {"check", "write"} => allocated[p_lidar]
  /\ c_pc \in {"poll", "publish", "pop"} => allocated[c_lidar]

Served(l) ==
  \/ sem > 0
  \/ p_pc \in {"count", "signal"}
  \/ p_pc \in {"write", "nonempty"} /\ p_lidar = l /\ "index" \notin p_left
  \/ c_pc \in {"scan", "poll", "publish", "pop"} /\ c_lidar <= l
  \/ request_exit /\ c_pc # "wait"

WakeInv ==
  /\ TypeOK /\ SemaphoreBinary /\ AllocatedInv
  /\ p_pc = "nonempty" => p_left = {}
  /\ \A l \in Lidar :
       sampling[l] /\ ~QueueIsEmpty(l) /\ l \notin unvisited => Served(l)

LEMMA WakeInit == Init => WakeInv
<1> SUFFICES ASSUME Init PROVE WakeInv
  OBVIOUS
<1>1. \A l \in Lidar : QueueIsEmpty(l)
  BY DEF Init, QueueIsEmpty
<1>2. SemaphoreBinary
  BY DEF Init, SemaphoreBinary
<1>3. AllocatedInv
  BY <1>1 DEF Init, AllocatedInv
<1> QED BY <1>1, <1>2, <1>3, TypeInit DEF Init, WakeInv

LEMMA WakeProducer ==
  ASSUME WakeInv, TypeOK',
         Producer \/ \E l \in Lidar : PushLidarData(l)
  PROVE  WakeInv'
<1> USE DEF WakeInv, SemaphoreBinary
<1>0. /\ p_lidar \in Lidar /\ sem \in Nat /\ sem' \in Nat /\ allocated \in [Lidar -> BOOLEAN]
      /\ wr_idx \in [Lidar -> 0..(CounterMod - 1)]
  BY DEF TypeOK, ProducerTypeOK, ControlTypeOK, RingTypeOK
<1>1. ASSUME NEW l \in Lidar, PushLidarData(l) PROVE WakeInv'
  <2>1. AllocatedInv'
    BY <1>0, <1>1 DEF PushLidarData, AllocatedInv, QueueIsEmpty, cVars
  <2> QED BY <1>0, <1>1, <2>1 DEF PushLidarData, Served, QueueIsEmpty, cVars, exitVars
<1>2. CASE PushCheckFull
  <2>1. AllocatedInv'
    BY <1>2 DEF PushCheckFull, AllocatedInv, QueueIsEmpty, ringVars, cVars
  <2> QED BY <1>0, <1>2, <2>1 DEF PushCheckFull, Served, QueueIsEmpty, ringVars, cVars, exitVars
<1>3. ASSUME NEW f \in Field, WriteField(f) PROVE WakeInv'
  <2>1. AllocatedInv'
    BY <1>3 DEF WriteField, AllocatedInv, QueueIsEmpty, cVars
  <2> QED BY <1>0, <1>3, <2>1 DEF WriteField, Served, QueueIsEmpty, cVars, exitVars
<1>4. CASE WriteIndex
  <2>1. AllocatedInv'
    BY <1>0, <1>4 DEF WriteIndex, AllocatedInv, QueueIsEmpty, cVars
  <2>2. ASSUME NEW l \in Lidar, sampling'[l], ~QueueIsEmpty(l)', l \notin unvisited'
        PROVE  Served(l)'
    <3>1. CASE l = p_lidar
      BY <1>4, <3>1 DEF WriteIndex, Served
    <3>2. CASE l # p_lidar
      <4>1. Served(l)
        BY <1>0, <1>4, <2>2, <3>2 DEF WriteIndex, QueueIsEmpty
      <4> QED BY <1>4, <3>2, <4>1 DEF WriteIndex, Served, cVars, exitVars
    <3> QED BY <3>1, <3>2
  <2> QED BY <1>0, <1>4, <2>1, <2>2 DEF WriteIndex
<1>5. CASE PushCheckEmpty
  <2>1. AllocatedInv'
    BY <1>5 DEF PushCheckEmpty, AllocatedInv, QueueIsEmpty, ringVars, cVars
  <2> QED BY <1>0, <1>5, <2>1 DEF PushCheckEmpty, Served, QueueIsEmpty, ringVars, cVars, exitVars
<1>6. CASE PushGetCount
  <2>1. AllocatedInv'
    BY <1>6 DEF PushGetCount, AllocatedInv, QueueIsEmpty, ringVars, cVars
  <2> QED BY <1>0, <1>6, <2>1 DEF PushGetCount, Served, QueueIsEmpty, ringVars, cVars, exitVars
<1>7. CASE Signal
  <2>1. AllocatedInv'
    BY <1>7 DEF Signal, AllocatedInv, QueueIsEmpty, ringVars, cVars
  <2> QED BY <1>0, <1>7, <2>1 DEF Signal, Served
<1> QED BY <1>1, <1>2, <1>3, <1>4, <1>5, <1>6, <1>7 DEF Producer

LEMMA WakeConsumer ==
  ASSUME WakeInv, TypeOK', Consumer
  PROVE  WakeInv'
<1> USE DEF WakeInv, SemaphoreBinary
<1>0. /\ sem \in Nat /\ c_lidar \in 0..LidarCount /\ LidarCount \in Nat
      /\ Lidar = 0..(LidarCount - 1)
      /\ c_pc \in {"poll", "publish", "pop"} => c_lidar \in Lidar
  BY LidarCountAssumption DEF TypeOK, ControlTypeOK, ConsumerTypeOK, Lidar
<1>1. CASE DistributePointCloudData
  <2>1. AllocatedInv'
    BY <1>1 DEF DistributePointCloudData, AllocatedInv, QueueIsEmpty, ringVars, pVars
  <2> QED BY <1>0, <1>1, <2>1 DEF DistributePointCloudData, Served, QueueIsEmpty,
             ringVars, pVars, exitVars
<1>2. CASE Wait
  <2>1. AllocatedInv'
    BY <1>2 DEF Wait, AllocatedInv, QueueIsEmpty, ringVars, pVars
  <2> QED BY <1>0, <1>2, <2>1 DEF Wait, Served, QueueIsEmpty, ringVars, pVars, exitVars
<1>3. CASE ScanLidar
  <2>1. AllocatedInv'
    BY <1>0, <1>3 DEF ScanLidar, AllocatedInv, QueueIsEmpty, ringVars, pVars
  <2>2. ASSUME NEW l \in Lidar, sampling'[l], ~QueueIsEmpty(l)', l \notin unvisited'
        PROVE  Served(l)'
    <3>1. sampling[l] /\ ~QueueIsEmpty(l) /\ allocated[l]
      BY <1>3, <2>2 DEF ScanLidar, AllocatedInv, QueueIsEmpty, ringVars
    <3>2. CASE l = c_lidar
      BY <1>0, <1>3, <3>1, <3>2 DEF ScanLidar, Served
    <3>3. CASE l # c_lidar
      <4>1. Served(l)
        BY <1>3, <2>2, <3>1, <3>3 DEF ScanLidar
      <4> QED BY <1>0, <1>3, <3>3, <4>1 DEF ScanLidar, Served, pVars, exitVars
    <3> QED BY <3>2, <3>3
  <2> QED BY <1>0, <1>3, <2>1, <2>2 DEF ScanLidar, pVars
<1>4. CASE ScanEnd
  <2>1. AllocatedInv'
    BY <1>4 DEF ScanEnd, AllocatedInv, QueueIsEmpty, ringVars, pVars
  <2> QED BY <1>0, <1>4, <2>1 DEF ScanEnd, Served, QueueIsEmpty, ringVars, pVars, exitVars
<1>5. CASE PollingLidarPointCloudData
  <2>1. AllocatedInv'
    BY <1>5 DEF PollingLidarPointCloudData, AllocatedInv, QueueIsEmpty, ringVars, pVars
  <2> QED BY <1>0, <1>5, <2>1 DEF PollingLidarPointCloudData, Served, QueueIsEmpty,
             ringVars, pVars, exitVars
<1>6. CASE PublishLoop
  <2>1. AllocatedInv'
    BY <1>6 DEF PublishLoop, AllocatedInv, QueueIsEmpty, ringVars, pVars
  <2> QED BY <1>0, <1>6, <2>1 DEF PublishLoop, Served, QueueIsEmpty, ringVars, pVars, exitVars
<1>7. ASSUME NEW f \in Field, ReadField(f) PROVE WakeInv'
  <2>1. AllocatedInv'
    BY <1>7 DEF ReadField, PopDone, AllocatedInv, QueueIsEmpty, ringVars, pVars
  <2> QED BY <1>0, <1>7, <2>1 DEF ReadField, PopDone, Served, QueueIsEmpty,
             ringVars, pVars, exitVars
<1>8. CASE QueuePopUpdate
  <2>1. AllocatedInv'
    BY <1>0, <1>8 DEF QueuePopUpdate, PopDone, AllocatedInv, QueueIsEmpty, pVars
  <2>2. ASSUME NEW l \in Lidar, sampling'[l], ~QueueIsEmpty(l)', l \notin unvisited'
        PROVE  Served(l)'
    <3>1. CASE l = c_lidar
      BY <1>0, <1>8, <3>1 DEF QueuePopUpdate, PopDone, Served
    <3>2. CASE l # c_lidar
      <4>1. Served(l)
        BY <1>8, <2>2, <3>2 DEF QueuePopUpdate, QueueIsEmpty
      <4> QED BY <1>8, <4>1 DEF QueuePopUpdate, PopDone, Served, pVars, exitVars
    <3> QED BY <3>1, <3>2
  <2> QED BY <1>0, <1>8, <2>1, <2>2 DEF QueuePopUpdate, pVars
<1>9. CASE CheckFuture
  <2>1. AllocatedInv'
    BY <1>9 DEF CheckFuture, AllocatedInv, QueueIsEmpty, ringVars, pVars
  <2> QED BY <1>0, <1>9, <2>1 DEF CheckFuture, Served, QueueIsEmpty, ringVars, pVars, exitVars
<1> QED BY <1>1, <1>2, <1>3, <1>4, <1>5, <1>6, <1>7, <1>8, <1>9 DEF Consumer

LEMMA WakeStep == WakeInv /\ [Next]_vars => WakeInv'
<1> SUFFICES ASSUME WakeInv, [Next]_vars PROVE WakeInv'
  OBVIOUS
<1> USE DEF WakeInv, SemaphoreBinary, AllocatedInv, Served, QueueIsEmpty
<1>0. TypeOK'
  BY TypeStep
<1>1. ASSUME NEW l \in Lidar, StartSampling(l) PROVE WakeInv'
  BY <1>0, <1>1 DEF StartSampling, ringVars, pVars, cVars, exitVars, TypeOK, ControlTypeOK
<1>2. CASE RequestExit \/ SetExitSignal \/ Join
  BY <1>0, <1>2 DEF RequestExit, SetExitSignal, Join, ringVars, pVars, cVars
<1>3. CASE UNCHANGED vars
  BY <1>0, <1>3 DEF vars, ringVars, pVars, cVars, exitVars
<1> QED BY <1>0, <1>1, <1>2, <1>3, WakeProducer, WakeConsumer DEF Next

(* The wake-up protocol, with any memory order: the semaphore stays binary    *)
(* and the poll thread never sleeps over a frame of a lidar it was free to    *)
(* publish.                                                                   *)
THEOREM WakeUp == Spec => [](SemaphoreBinary /\ NoLostWakeup)
<1>1. Init => WakeInv
  BY WakeInit
<1>2. WakeInv /\ [Next]_vars => WakeInv'
  BY WakeStep
<1>3. WakeInv => SemaphoreBinary /\ NoLostWakeup
  BY DEF WakeInv, NoLostWakeup, Served
<1> QED BY <1>1, <1>2, <1>3, PTL DEF Spec
=============================================================================
