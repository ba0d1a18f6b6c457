-------------------------- MODULE PointCloudPipe --------------------------
(***************************************************************************)
(* The path of a point cloud frame through the ROS driver: the raw data    *)
(* thread of PubHandler pushes frames into one lock-free ring per lidar    *)
(* (Lds::PushLidarData, ldq.cpp) and signals a semaphore; the point cloud  *)
(* poll thread of DriverNode waits on the semaphore, visits the lidars and *)
(* drains the rings of those that are Sampling (lddc.cpp); the main thread *)
(* ends the poll thread (~DriverNode).  A step is one access to a variable *)
(* another thread may touch.                                               *)
(***************************************************************************)
EXTENDS Integers, Sequences

CONSTANTS
  LidarCount,     \* lidar_count_: the slots 0..LidarCount-1 of lidars_
  QueueSize,      \* queue->size, a power of two
  CounterMod,     \* rd_idx and wr_idx count modulo this (2^32 in the code)
  MaxFrames,      \* bound of the model: frames each lidar delivers
  Format,         \* transfer_format_
  ProgramOrder    \* do the accesses to a slot take effect in program order?

ASSUME LidarCountAssumption == LidarCount \in Nat \ {0}
ASSUME QueueSizeAssumption == QueueSize \in Nat \ {0}
ASSUME CounterModAssumption ==
  /\ CounterMod \in Nat
  /\ QueueSize < CounterMod
  /\ \E c \in 1..CounterMod : CounterMod = QueueSize * c
ASSUME MaxFramesAssumption == MaxFrames \in [0..(LidarCount - 1) -> Nat]
ASSUME ProgramOrderAssumption == ProgramOrder \in BOOLEAN

Lidar == 0..(LidarCount - 1)

VARIABLES
  rd_idx, wr_idx,   \* the two counters of each ring
  ring,             \* storage_packet: the slots of each ring
  allocated,        \* storage_packet # nullptr
  sampling,         \* connect_state = kConnectStateSampling
  sem,              \* count_ of pcd_semaphore_
  request_exit, exit_signal,
  p_pc, p_lidar, p_frame, p_left,   \* the raw data thread in PushLidarData
  c_pc, c_lidar, c_pkg, c_left,     \* the poll thread
  main_pc,                          \* the thread in ~DriverNode
  seen, accepted, published,        \* history: frames disposed of, kept, out
  unvisited                         \* history: Sampling, not visited since

ringVars == <<rd_idx, wr_idx, ring, allocated>>
pVars    == <<p_pc, p_lidar, p_frame, p_left>>
cVars    == <<c_pc, c_lidar, c_pkg, c_left>>
exitVars == <<request_exit, exit_signal, main_pc>>
history  == <<seen, accepted, published>>
vars     == <<ringVars, sampling, sem, exitVars, pVars, cVars, history, unvisited>>

Field   == {"time", "points"}             \* the two parts of a StoragePacket
Access  == Field \cup {"index"}           \* ... and the counter of the ring
NoFrame == [f \in Field |-> 0]
Frame(n) == [f \in Field |-> n]

Inc(i)  == (i + 1) % CounterMod           \* uint32_t ++
Slot(i) == i % QueueSize                  \* idx & mask
QueueUsedSize(l) == (wr_idx[l] - rd_idx[l]) % CounterMod

(* Mutants: the test of the mask off by one, either way. *)
QueueIsFull_Late(l)  == QueueUsedSize(l) > QueueSize
QueueIsFull_Early(l) == QueueUsedSize(l) > QueueSize - 2

QueueIsFull(l)   == QueueUsedSize(l) > QueueSize - 1
QueueIsEmpty(l)  == rd_idx[l] = wr_idx[l]

(* Mutant: the counter moves before the slot is filled or copied. *)
Before_IndexFirst ==
  [time |-> {"index"}, points |-> {"index", "time"}, index |-> {}]

(* The next access of a thread that has those of left to make: base_time,  *)
(* then points, then the counter, unless the machine may reorder them.     *)
Before == [time |-> {}, points |-> {"time"}, index |-> Field]
MayAccess(x, left) == x \in left /\ (ProgramOrder => Before[x] \cap left = {})

Init ==
  /\ rd_idx = [l \in Lidar |-> 0] /\ wr_idx = [l \in Lidar |-> 0]
  /\ ring = [l \in Lidar |-> [s \in 0..(QueueSize - 1) |-> NoFrame]]
  /\ allocated = [l \in Lidar |-> FALSE]
  /\ sampling = [l \in Lidar |-> FALSE]
  /\ sem = 0
  /\ request_exit = FALSE /\ exit_signal = FALSE /\ main_pc = "run"
  /\ p_pc = "idle" /\ p_lidar = 0 /\ p_frame = 0 /\ p_left = {}
  /\ c_pc = "top" /\ c_lidar = 0 /\ c_pkg = NoFrame /\ c_left = {}
  /\ seen = [l \in Lidar |-> 0]
  /\ accepted = [l \in Lidar |-> <<>>] /\ published = [l \in Lidar |-> <<>>]
  /\ unvisited = {}
-----------------------------------------------------------------------------
(* The raw data thread.                                                     *)

(* StoragePointData hands the next frame of lidar l to PushLidarData, which *)
(* allocates the ring the first time.                                       *)
PushLidarData(l) ==
  /\ p_pc = "idle" /\ seen[l] < MaxFrames[l]
  /\ p_pc' = "check" /\ p_lidar' = l /\ p_frame' = seen[l] + 1
  /\ allocated' = [allocated EXCEPT ![l] = TRUE]
  /\ UNCHANGED <<rd_idx, wr_idx, ring, sampling, sem, exitVars, p_left, cVars,
                 history, unvisited>>

PushCheckFull ==
  /\ p_pc = "check"
  /\ IF QueueIsFull(p_lidar)
     THEN /\ p_pc' = "count" /\ UNCHANGED p_left
          /\ seen' = [seen EXCEPT ![p_lidar] = @ + 1]
     ELSE p_pc' = "write" /\ p_left' = Access /\ UNCHANGED seen
  /\ UNCHANGED <<ringVars, sampling, sem, exitVars, p_lidar, p_frame, cVars,
                 accepted, published, unvisited>>

(* QueuePushAny: one field of the slot at wr_idx.                           *)
WriteField(f) ==
  /\ p_pc = "write" /\ MayAccess(f, p_left)
  /\ p_left' = p_left \ {f}
  /\ p_pc' = IF p_left' = {} THEN "nonempty" ELSE p_pc
  /\ LET at == IF "index" \in p_left THEN wr_idx[p_lidar] ELSE wr_idx[p_lidar] - 1
     IN  ring' = [ring EXCEPT ![p_lidar][Slot(at)][f] = p_frame]
  /\ UNCHANGED <<rd_idx, wr_idx, allocated, sampling, sem, exitVars, p_lidar,
                 p_frame, cVars, history, unvisited>>

(* QueuePushAny: wr_idx++ makes the frame visible to the poll thread.       *)
WriteIndex ==
  /\ p_pc = "write" /\ MayAccess("index", p_left)
  /\ p_left' = p_left \ {"index"}
  /\ p_pc' = IF p_left' = {} THEN "nonempty" ELSE p_pc
  /\ wr_idx' = [wr_idx EXCEPT ![p_lidar] = Inc(@)]
  /\ seen' = [seen EXCEPT ![p_lidar] = @ + 1]
  /\ accepted' = [accepted EXCEPT ![p_lidar] = Append(@, Frame(p_frame))]
  /\ UNCHANGED <<rd_idx, ring, allocated, sampling, sem, exitVars, p_lidar,
                 p_frame, cVars, published, unvisited>>

(* Mutant: only a full ring is worth a signal. *)
PushCheckEmpty_UnlessFull ==
  /\ p_pc = "nonempty"
  /\ p_pc' = IF QueueIsFull(p_lidar) THEN "count" ELSE "idle"
  /\ UNCHANGED <<ringVars, sampling, sem, exitVars, p_lidar, p_frame, p_left,
                 cVars, history, unvisited>>

PushCheckEmpty ==
  /\ p_pc = "nonempty"
  /\ p_pc' = IF QueueIsEmpty(p_lidar) THEN "idle" ELSE "count"
  /\ UNCHANGED <<ringVars, sampling, sem, exitVars, p_lidar, p_frame, p_left,
                 cVars, history, unvisited>>

(* GetCount() reads count_ without the mutex of the semaphore.              *)
PushGetCount ==
  /\ p_pc = "count"
  /\ p_pc' = IF sem <= 0 THEN "signal" ELSE "idle"
  /\ UNCHANGED <<ringVars, sampling, sem, exitVars, p_lidar, p_frame, p_left,
                 cVars, history, unvisited>>

Signal ==
  /\ p_pc = "signal"
  /\ sem' = sem + 1 /\ p_pc' = "idle"
  /\ UNCHANGED <<ringVars, sampling, exitVars, p_lidar, p_frame, p_left, cVars,
                 history, unvisited>>

Producer == \/ PushCheckFull \/ WriteIndex \/ PushCheckEmpty
            \/ PushGetCount \/ Signal
            \/ \E f \in Field : WriteField(f)
-----------------------------------------------------------------------------
(* The poll thread.                                                         *)

(* DistributePointCloudData returns at once when the exit was requested.    *)
DistributePointCloudData ==
  /\ c_pc = "top"
  /\ c_pc' = IF request_exit THEN "future" ELSE "wait"
  /\ UNCHANGED <<ringVars, sampling, sem, exitVars, pVars, c_lidar, c_pkg,
                 c_left, history, unvisited>>

(* Mutant: the loop over the lidars starts at 1. *)
Wait_FromOne ==
  /\ c_pc = "wait" /\ sem > 0
  /\ sem' = sem - 1
  /\ c_pc' = "scan" /\ c_lidar' = 1
  /\ UNCHANGED <<ringVars, sampling, exitVars, pVars, c_pkg, c_left, history,
                 unvisited>>

Wait ==
  /\ c_pc = "wait" /\ sem > 0
  /\ sem' = sem - 1
  /\ c_pc' = "scan" /\ c_lidar' = 0
  /\ UNCHANGED <<ringVars, sampling, exitVars, pVars, c_pkg, c_left, history,
                 unvisited>>

(* The body of the for loop: skip a lidar that is not Sampling or that has  *)
(* no ring yet, poll the others.                                            *)
ScanLidar ==
  /\ c_pc = "scan" /\ c_lidar < LidarCount
  /\ unvisited' = unvisited \ {c_lidar}
  /\ IF sampling[c_lidar] /\ allocated[c_lidar]
     THEN c_pc' = "poll" /\ UNCHANGED c_lidar
     ELSE c_lidar' = c_lidar + 1 /\ UNCHANGED c_pc
  /\ UNCHANGED <<ringVars, sampling, sem, exitVars, pVars, c_pkg, c_left, history>>

ScanEnd ==
  /\ c_pc = "scan" /\ c_lidar = LidarCount
  /\ c_pc' = "future"
  /\ UNCHANGED <<ringVars, sampling, sem, exitVars, pVars, c_lidar, c_pkg,
                 c_left, history, unvisited>>

(* The test of the loop of PollingLidarPointCloudData and the dispatch on   *)
(* transfer_format_.  PublishPclMsg returns without a pop in a ROS2 build,  *)
(* and a format that is none of the three is not dispatched at all.         *)
PollingLidarPointCloudData ==
  /\ c_pc = "poll"
  /\ IF request_exit \/ QueueIsEmpty(c_lidar)
     THEN c_pc' = "scan" /\ c_lidar' = c_lidar + 1
     ELSE /\ c_pc' = IF Format \in {"PointCloud2", "LivoxCustom"} THEN "publish" ELSE "poll"
          /\ UNCHANGED c_lidar
  /\ UNCHANGED <<ringVars, sampling, sem, exitVars, pVars, c_pkg, c_left,
                 history, unvisited>>

(* The test of the loop of PublishPointcloud2 and PublishCustomPointcloud,  *)
(* which drains the ring whether or not the exit was requested.             *)
PublishLoop ==
  /\ c_pc = "publish"
  /\ IF QueueIsEmpty(c_lidar)
     THEN c_pc' = "poll" /\ UNCHANGED c_left
     ELSE c_pc' = "pop" /\ c_left' = Access
  /\ UNCHANGED <<ringVars, sampling, sem, exitVars, pVars, c_lidar, c_pkg,
                 history, unvisited>>

(* QueuePop and the publication of what it returned.                        *)
PopDone(pkg) ==
  IF c_left' = {}
  THEN /\ c_pc' = "publish"
       /\ published' = [published EXCEPT ![c_lidar] = Append(@, pkg)]
  ELSE UNCHANGED <<c_pc, published>>

ReadField(f) ==
  /\ c_pc = "pop" /\ MayAccess(f, c_left)
  /\ c_left' = c_left \ {f}
  /\ LET at == IF "index" \in c_left THEN rd_idx[c_lidar] ELSE rd_idx[c_lidar] - 1
     IN  c_pkg' = [c_pkg EXCEPT ![f] = ring[c_lidar][Slot(at)][f]]
  /\ PopDone(c_pkg')
  /\ UNCHANGED <<ringVars, sampling, sem, exitVars, pVars, c_lidar, seen,
                 accepted, unvisited>>

QueuePopUpdate ==
  /\ c_pc = "pop" /\ MayAccess("index", c_left)
  /\ c_left' = c_left \ {"index"}
  /\ rd_idx' = [rd_idx EXCEPT ![c_lidar] = Inc(@)]
  /\ PopDone(c_pkg)
  /\ UNCHANGED <<wr_idx, ring, allocated, sampling, sem, exitVars, pVars,
                 c_lidar, c_pkg, seen, accepted, unvisited>>

(* Mutant: the loop of the thread goes on whatever the future says. *)
CheckFuture_Ignored ==
  /\ c_pc = "future"
  /\ c_pc' = "top"
  /\ UNCHANGED <<ringVars, sampling, sem, exitVars, pVars, c_lidar, c_pkg,
                 c_left, history, unvisited>>

(* PointCloudDataPollThread: leave when the exit signal was set.            *)
CheckFuture ==
  /\ c_pc = "future"
  /\ c_pc' = IF exit_signal THEN "done" ELSE "top"
  /\ UNCHANGED <<ringVars, sampling, sem, exitVars, pVars, c_lidar, c_pkg,
                 c_left, history, unvisited>>

Consumer == \/ DistributePointCloudData \/ Wait \/ ScanLidar \/ ScanEnd
            \/ PollingLidarPointCloudData \/ PublishLoop \/ QueuePopUpdate
            \/ CheckFuture
            \/ \E f \in Field : ReadField(f)
-----------------------------------------------------------------------------
(* The command thread: the last pending configuration bit of l is cleared.  *)
StartSampling(l) ==
  /\ ~sampling[l]
  /\ sampling' = [sampling EXCEPT ![l] = TRUE]
  /\ unvisited' = unvisited \cup {l}
  /\ UNCHANGED <<ringVars, sem, exitVars, pVars, cVars, history>>

(* ~DriverNode: RequestExit, set_value, join.                               *)
RequestExit ==
  /\ main_pc = "run"
  /\ request_exit' = TRUE /\ main_pc' = "signal"
  /\ UNCHANGED <<ringVars, sampling, sem, exit_signal, pVars, cVars, history,
                 unvisited>>

SetExitSignal ==
  /\ main_pc = "signal"
  /\ exit_signal' = TRUE /\ main_pc' = "join"
  /\ UNCHANGED <<ringVars, sampling, sem, request_exit, pVars, cVars, history,
                 unvisited>>

Join ==
  /\ main_pc = "join" /\ c_pc = "done"
  /\ main_pc' = "joined"
  /\ UNCHANGED <<ringVars, sampling, sem, request_exit, exit_signal, pVars,
                 cVars, history, unvisited>>

Next == \/ \E l \in Lidar : PushLidarData(l) \/ StartSampling(l)
        \/ Producer \/ Consumer
        \/ RequestExit \/ SetExitSignal \/ Join

Spec == Init /\ [][Next]_vars

(* A thread that can run runs.  Nothing forces a frame to arrive, a lidar   *)
(* to be configured or the node to be destroyed.                            *)
Fairness == /\ WF_vars(Producer) /\ WF_vars(Consumer)
            /\ WF_vars(SetExitSignal \/ Join)

FairSpec == Spec /\ Fairness
-----------------------------------------------------------------------------
RingTypeOK ==
  /\ rd_idx \in [Lidar -> 0..(CounterMod - 1)]
  /\ wr_idx \in [Lidar -> 0..(CounterMod - 1)]
  /\ ring \in [Lidar -> [0..(QueueSize - 1) -> [Field -> Nat]]]
  /\ allocated \in [Lidar -> BOOLEAN]

ControlTypeOK ==
  /\ sampling \in [Lidar -> BOOLEAN] /\ unvisited \in SUBSET Lidar
  /\ sem \in Nat
  /\ request_exit \in BOOLEAN /\ exit_signal \in BOOLEAN
  /\ main_pc \in {"run", "signal", "join", "joined"}

ProducerTypeOK ==
  /\ p_pc \in {"idle", "check", "write", "nonempty", "count", "signal"}
  /\ p_lidar \in Lidar /\ p_frame \in Nat /\ p_left \in SUBSET Access

ConsumerTypeOK ==
  /\ c_pc \in {"top", "wait", "scan", "poll", "publish", "pop", "future", "done"}
  /\ c_lidar \in 0..LidarCount
  /\ c_pc \in {"poll", "publish", "pop"} => c_lidar \in Lidar
  /\ c_pkg \in [Field -> Nat] /\ c_left \in SUBSET Access

HistoryTypeOK ==
  /\ seen \in [Lidar -> Nat]
  /\ accepted \in [Lidar -> Seq([Field -> Nat])]
  /\ published \in [Lidar -> Seq([Field -> Nat])]

(* Every variable has its type; the poll thread polls only existing lidars. *)
TypeOK == /\ RingTypeOK /\ ControlTypeOK /\ ProducerTypeOK
          /\ ConsumerTypeOK /\ HistoryTypeOK

(* The raw data thread never writes the slot the poll thread is reading,    *)
(* although neither takes a lock (QueueIsFull keeps wr_idx from lapping     *)
(* rd_idx, also across the wrap of the counters).                           *)
SlotExclusion ==
  ~ /\ p_pc = "write" /\ p_left \cap Field # {}
    /\ c_pc = "pop" /\ c_left \cap Field # {}
    /\ p_lidar = c_lidar
    /\ Slot(wr_idx[p_lidar]) = Slot(rd_idx[c_lidar])

(* Every frame handed to ROS has the base time and the points of one frame  *)
(* that PushLidarData kept, and frames leave in the order they were kept,   *)
(* none twice and none left out.                                            *)
FramesIntact ==
  \A l \in Lidar :
    /\ Len(published[l]) <= Len(accepted[l])
    /\ \A j \in 1..Len(published[l]) : published[l][j] = accepted[l][j]

(* With a single producer the unlocked test of GetCount before Signal keeps *)
(* the semaphore binary, so the poll thread never makes a second sweep for  *)
(* a wake-up it has already served.                                         *)
SemaphoreBinary == sem + (IF p_pc = "signal" THEN 1 ELSE 0) <= 1

(* No lost wake-up: when the poll thread is blocked on the semaphore and    *)
(* the raw data thread is between two frames, a Sampling lidar has frames   *)
(* waiting only if it became Sampling after the last visit of the poll      *)
(* thread (such frames stay until the next frame of any lidar arrives).     *)
NoLostWakeup ==
  (c_pc = "wait" /\ sem = 0 /\ p_pc = "idle") =>
    \A l \in Lidar : sampling[l] /\ ~QueueIsEmpty(l) => l \in unvisited

(* The driver's rings, semaphore and threads implement the bounded FIFO.    *)
Fifo == INSTANCE FrameFifo WITH Capacity <- QueueSize
RefinesFifo == Fifo!FifoSpec

(* A frame pushed for a Sampling lidar reaches ROS unless the driver is     *)
(* told to exit: the two unlocked tests of PushLidarData lose no wake-up.   *)
FramesDelivered ==
  \A l \in Lidar : \A k \in 1..MaxFrames[l] :
    (sampling[l] /\ p_pc = "nonempty" /\ p_lidar = l /\ Len(accepted[l]) = k)
      ~> (Len(published[l]) >= k \/ request_exit)

(* Whatever the transfer format, destroying the node ends the poll thread   *)
(* or finds it blocked on the semaphore, which the destructor does not      *)
(* signal: only a later frame releases it.                                  *)
Parked == c_pc = "wait" /\ sem = 0
ExitEndsOrParks == exit_signal ~> (main_pc = "joined" \/ Parked)

(* A frame that signals the semaphore after the exit signal was set always  *)
(* lets the destructor return.                                              *)
SignalEndsExit == (exit_signal /\ p_pc = "signal") ~> main_pc = "joined"

(* What the exception in ExitEndsOrParks leaves out: the destructor may     *)
(* wait for a parked thread for ever.                                       *)
ExitEnds == exit_signal ~> main_pc = "joined"
=============================================================================
