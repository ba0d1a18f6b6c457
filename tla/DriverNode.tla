----------------------------- MODULE DriverNode -----------------------------
(***************************************************************************)
(* The driver around the SDK: a DriverNode parses its configuration file,  *)
(* starts the SDK, gives every lidar of the file a place in lidars_        *)
(* (cache_index.cpp, lds_lidar.cpp), registers its callbacks, and runs two *)
(* poll threads that take what the callbacks stored and publish it         *)
(* (lddc.cpp) until it is destroyed.  A process may load one node after    *)
(* another; the data source (LdsLidar) and the SDK are singletons.  The    *)
(* ring of the point clouds is modelled by PointCloudPipe, the answers to  *)
(* the settings by LidarConfig; here a frame and an IMU sample travel the  *)
(* same way, a step being one access to what another thread may touch.     *)
(***************************************************************************)
EXTENDS Integers, Sequences, FiniteSetsExt, SequencesExt

CONSTANTS
  Handles,        \* the lidars of the network
  SlotCount,      \* kMaxSourceLidar
  Files,          \* the lidar_configs a file may hold: sequences of entries
  Nodes,          \* parameters of a node: multi_topic and xfer_format
  MaxNodes,       \* bound of the model: nodes loaded one after another
  MaxHeard,       \* bound of the model: frames and samples, of all lidars
  MaxChanges,     \* bound of the model: info changes of each lidar
  UintModulus     \* uint32_t counts modulo this (2^32 in the code)

Kind == {"pcl", "imu"}            \* point cloud frames and IMU samples
(* Any other value of xfer_format is like PclPxyzi: nothing is popped.      *)
Parameters == [multi_topic : BOOLEAN, xfer_format : {"PointCloud2", "Custom", "PclPxyzi"}]
Slot == 0..(SlotCount - 1)
Setting == {"pcl_data_type", "pattern_mode", "blind_spot_set", "dual_emit_en"}

ASSUME HandlesAssumption == Handles \subseteq Nat \ {0}
ASSUME SlotCountAssumption == SlotCount \in Nat \ {0}
(* An entry of a file has some of the members; GetInt returns an int.       *)
ASSUME FilesAssumption ==
  \A f \in Files :
    /\ Len(f) \in Nat /\ DOMAIN f = 1..Len(f)
    /\ \A i \in DOMAIN f :
         /\ DOMAIN f[i] \subseteq Setting \cup {"ip", "x"}
         /\ \A name \in DOMAIN f[i] : f[i][name] \in Int
         /\ "ip" \in DOMAIN f[i] => f[i].ip \in Handles
ASSUME NodesAssumption == Nodes \subseteq Parameters
ASSUME UintModulusAssumption == UintModulus \in Nat /\ UintModulus >= 256

NotSet   == -1    \* a setting the file does not name; nothing sent
NoIndex  == -1    \* a handle without a place
NoHandle == 0     \* the handle of a place nobody has filled in
Shared   == -1    \* the one topic of all lidars
NoTopic  == -2    \* no publisher yet
NotHere  == [handle |-> NoHandle, n |-> 0]

VARIABLES
  file, node,                 \* the configuration file, the node's parameters
  main_pc, fill,              \* the thread that makes and destroys nodes
  nodes,                      \* nodes made so far
  is_initialized, sdk,        \* LdsLidar initialised, SDK running
  info_callback, observing, imu_callback, raw_thread,   \* what is registered
  map_index, index_cache, inserting,                    \* CacheIndex
  lidars,                     \* lidars_: handle, setting, x, set_bits, sampling
  extrinsics,                 \* lidar_extrinsics_ of PubHandler
  queue, sem, p, c,           \* per kind: queues, semaphore, producer, poll thread
  pubs,                       \* topics of private_pub_ and private_imu_pub_
  request_exit, exit_signal,
  heard, changes,             \* bounds of the model
  sent,                       \* history: the last value sent for each setting
  stored, published, prompt   \* history: stored, out, stored while Sampling

fileVars   == <<file, node, nodes>>
mainVars   == <<main_pc, fill>>
initVars   == <<is_initialized, sdk, info_callback, observing, imu_callback,
                raw_thread>>
indexVars  == <<map_index, index_cache, inserting>>
deviceVars == <<lidars, extrinsics, sent, changes>>
storeVars  == <<p, heard, stored, prompt>>
pollVars   == <<c, pubs, published>>
exitVars   == <<request_exit, exit_signal>>
vars == <<fileVars, mainVars, initVars, indexVars, deviceVars, queue, sem,
          storeVars, pollVars, exitVars>>

-----------------------------------------------------------------------------
(* The configuration file.  An entry has the members the file names.        *)

HasMember(entry, name) == name \in DOMAIN entry

(* static_cast<int8_t>: every setting, also the blind spot, an int32_t.     *)
Int8(v) == ((v + 128) % 256) - 128

(* Mutant: a setting that is missing reads as 0. *)
UserSettings_Zero(entry) ==
  [k \in Setting |-> IF HasMember(entry, k) THEN Int8(entry[k]) ELSE 0]

UserSettings(entry) ==
  [k \in Setting |-> IF HasMember(entry, k) THEN Int8(entry[k]) ELSE NotSet]

ParseExtrinsics(entry) == IF HasMember(entry, "x") THEN entry.x ELSE 0

(* The entries with an address, by their place in the file.                 *)
ParseUserConfigs ==
  [i \in {j \in DOMAIN file : HasMember(file[j], "ip")} |->
     [handle  |-> file[i].ip,
      setting |-> UserSettings(file[i]),
      x       |-> ParseExtrinsics(file[i])]]

(* The low data type counts in centimetres, truncated toward 0.             *)
ExtParam(config) ==
  IF config.setting["pcl_data_type"] # 2 THEN config.x
  ELSE IF config.x < 0 THEN -((-config.x) \div 10) ELSE config.x \div 10

-----------------------------------------------------------------------------
(* CacheIndex.                                                              *)

Free == Slot \ index_cache

(* Mutant: the place is not marked as taken. *)
Taken_Not(i) == index_cache
Taken(i) == index_cache \cup {i}

GetFreeIndex(h) ==
  IF map_index[h] # NoIndex \/ Free = {} THEN UNCHANGED <<map_index, index_cache>>
  ELSE /\ map_index' = [map_index EXCEPT ![h] = Min(Free)]
       /\ index_cache' = Taken(Min(Free))

(* GetIndex searches the map without the lock: while another thread inserts *)
(* (and the tree is being balanced) it may miss.                            *)
Lookups(h) == {map_index[h]} \cup (IF inserting # NoHandle THEN {NoIndex} ELSE {})

Unused == [handle |-> NoHandle, setting |-> [k \in Setting |-> 0], x |-> 0,
           set_bits |-> {}, sampling |-> FALSE]

Init ==
  /\ file \in Files /\ nodes = 0
  /\ node = [multi_topic |-> FALSE, xfer_format |-> "PointCloud2"]
  /\ main_pc = "none" /\ fill = 0
  /\ is_initialized = FALSE /\ sdk = FALSE /\ info_callback = FALSE
  /\ observing = FALSE /\ imu_callback = "none" /\ raw_thread = FALSE
  /\ map_index = [h \in Handles |-> NoIndex] /\ index_cache = {}
  /\ inserting = NoHandle
  /\ lidars = [i \in Slot |-> Unused]
  /\ extrinsics = [h \in Handles |-> 0]
  /\ sent = [h \in Handles |-> [k \in Setting |-> NotSet]]
  /\ changes = [h \in Handles |-> 0]
  /\ queue = [k \in Kind |-> [i \in Slot |-> <<>>]] /\ sem = [k \in Kind |-> 0]
  /\ p = [k \in Kind |-> [pc |-> "idle", at |-> 0]]
  /\ c = [k \in Kind |-> [pc |-> "none", at |-> 0, hand |-> NotHere]]
  /\ pubs = [k \in Kind |-> [i \in Slot |-> NoTopic]]
  /\ request_exit = FALSE /\ exit_signal = FALSE
  /\ heard = [k \in Kind |-> [h \in Handles |-> 0]]
  /\ stored = [k \in Kind |-> [h \in Handles |-> {}]]
  /\ published = [k \in Kind |-> <<>>] /\ prompt = {}
-----------------------------------------------------------------------------
(* The thread that makes and destroys the node.                             *)

(* The node is made: its parameters are read, and InitLdsLidar refuses to   *)
(* start what runs already, or what was ever started.                       *)
MakeNode ==
  /\ main_pc \in {"none", "gone"} /\ nodes < MaxNodes
  /\ nodes' = nodes + 1 /\ node' \in Nodes
  /\ main_pc' = IF is_initialized THEN "threads" ELSE "sdk"
  /\ exit_signal' = FALSE
  /\ pubs' = [k \in Kind |-> [i \in Slot |-> NoTopic]]
  /\ UNCHANGED <<file, fill, initVars, indexVars, deviceVars, queue, sem,
                 storeVars, c, published, request_exit>>

(* ParseSummaryConfig or LivoxLidarSdkInit fails: the node lives without a  *)
(* data source.                                                             *)
InitFails ==
  /\ main_pc = "sdk" /\ main_pc' = "threads"
  /\ UNCHANGED <<fileVars, fill, initVars, indexVars, deviceVars, queue, sem,
                 storeVars, pollVars, exitVars>>

LivoxLidarSdkInit ==
  /\ main_pc = "sdk" /\ sdk' = TRUE
  /\ main_pc' = "fill" /\ fill' = 1
  /\ UNCHANGED <<fileVars, is_initialized, info_callback, observing,
                 imu_callback, raw_thread, indexVars, deviceVars, queue, sem,
                 storeVars, pollVars, exitVars>>

(* InitLivoxLidar: the next configuration gets a place and is written there; *)
(* one that finds none is passed over.                                      *)
FillDevice ==
  /\ main_pc = "fill" /\ fill <= Len(file)
  /\ \/ /\ fill \in DOMAIN ParseUserConfigs
        /\ LET config == ParseUserConfigs[fill]
               h == config.handle
           IN  /\ GetFreeIndex(h)
               /\ IF map_index'[h] = NoIndex THEN UNCHANGED <<lidars, extrinsics>>
                  ELSE /\ lidars' = [lidars EXCEPT ![map_index'[h]].handle = h,
                                                   ![map_index'[h]].setting = config.setting,
                                                   ![map_index'[h]].x = config.x]
                       /\ extrinsics' = [extrinsics EXCEPT ![h] = ExtParam(config)]
     \/ /\ fill \notin DOMAIN ParseUserConfigs
        /\ UNCHANGED <<map_index, index_cache, lidars, extrinsics>>
  /\ fill' = fill + 1
  /\ UNCHANGED <<fileVars, main_pc, initVars, inserting, sent, changes, queue,
                 sem, storeVars, pollVars, exitVars>>

SetLivoxLidarInfoChangeCallback ==
  /\ main_pc = "fill" /\ fill > Len(file)
  /\ info_callback' = TRUE /\ main_pc' = "observe"
  /\ UNCHANGED <<fileVars, fill, is_initialized, sdk, observing, imu_callback,
                 raw_thread, indexVars, deviceVars, queue, sem, storeVars,
                 pollVars, exitVars>>

SetPointCloudsCallback ==
  /\ main_pc = "observe" /\ observing' = TRUE /\ main_pc' = "imu"
  /\ UNCHANGED <<fileVars, fill, is_initialized, sdk, info_callback,
                 imu_callback, raw_thread, indexVars, deviceVars, queue, sem,
                 storeVars, pollVars, exitVars>>

(* imu_callback_ = cb: a std::function is not assigned in one step, and the *)
(* observer that calls it is there already.                                 *)
SetImuDataCallback ==
  /\ main_pc = "imu"
  /\ imu_callback' = IF imu_callback = "none" THEN "assigning" ELSE "set"
  /\ main_pc' = IF imu_callback = "none" THEN "imu" ELSE "config"
  /\ UNCHANGED <<fileVars, fill, is_initialized, sdk, info_callback, observing,
                 raw_thread, indexVars, deviceVars, queue, sem, storeVars,
                 pollVars, exitVars>>

SetPointCloudConfig ==
  /\ main_pc = "config"
  /\ raw_thread' = TRUE /\ is_initialized' = TRUE /\ main_pc' = "threads"
  /\ UNCHANGED <<fileVars, fill, sdk, info_callback, observing, imu_callback,
                 indexVars, deviceVars, queue, sem, storeVars, pollVars, exitVars>>

StartPollThreads ==
  /\ main_pc = "threads" /\ main_pc' = "run"
  /\ c' = [k \in Kind |-> [c[k] EXCEPT !.pc = "top"]]
  /\ UNCHANGED <<fileVars, fill, initVars, indexVars, deviceVars, queue, sem,
                 storeVars, pubs, published, exitVars>>

RequestExit ==
  /\ main_pc = "run" /\ main_pc' = "signal" /\ request_exit' = TRUE
  /\ UNCHANGED <<fileVars, fill, initVars, indexVars, deviceVars, queue, sem,
                 storeVars, pollVars, exit_signal>>

SetExitSignal ==
  /\ main_pc = "signal" /\ main_pc' = "join_pcl" /\ exit_signal' = TRUE
  /\ UNCHANGED <<fileVars, fill, initVars, indexVars, deviceVars, queue, sem,
                 storeVars, pollVars, request_exit>>

JoinPointCloud ==
  /\ main_pc = "join_pcl" /\ c["pcl"].pc = "ended" /\ main_pc' = "join_imu"
  /\ UNCHANGED <<fileVars, fill, initVars, indexVars, deviceVars, queue, sem,
                 storeVars, pollVars, exitVars>>

JoinImu ==
  /\ main_pc = "join_imu" /\ c["imu"].pc = "ended" /\ main_pc' = "uninit"
  /\ UNCHANGED <<fileVars, fill, initVars, indexVars, deviceVars, queue, sem,
                 storeVars, pollVars, exitVars>>

(* ~Lddc: DeInitLdsLidar uninitialises the SDK, which joins the loops that  *)
(* call back, and leaves is_initialized_ and request_exit_ as they are.     *)
DeInitLdsLidar ==
  /\ main_pc = "uninit" /\ main_pc' = "gone"
  /\ IF is_initialized
     THEN /\ p["imu"].pc = "idle" /\ inserting = NoHandle
          /\ sdk' = FALSE /\ observing' = FALSE
     ELSE UNCHANGED <<sdk, observing>>
  /\ UNCHANGED <<fileVars, fill, is_initialized, info_callback, imu_callback,
                 raw_thread, indexVars, deviceVars, queue, sem, storeVars,
                 pollVars, exitVars>>
-----------------------------------------------------------------------------
(* The loop of the commands.                                                *)

(* What goes out for a setting: a bool, an unsigned byte, or an uint32_t.   *)
Sent(k, v) ==
  CASE k = "dual_emit_en"   -> IF v = 0 THEN 0 ELSE 1
    [] k = "blind_spot_set" -> v % UintModulus
    [] OTHER                -> v % 256

(* LidarInfoChangeCallback for a lidar that has a place: what is configured *)
(* there is sent; if that is nothing the lidar is Sampling.                 *)
LidarInfoChange(h) ==
  /\ info_callback /\ sdk /\ inserting = NoHandle /\ changes[h] < MaxChanges
  /\ map_index[h] # NoIndex
  /\ changes' = [changes EXCEPT ![h] = @ + 1]
  /\ LET i == map_index[h]
         setting == lidars[i].setting
         bits == {k \in Setting : setting[k] # NotSet}
     IN  /\ lidars' = [lidars EXCEPT ![i].set_bits = @ \cup bits,
                       ![i].sampling = @ \/ lidars[i].set_bits \cup bits = {}]
         /\ sent' = [sent EXCEPT ![h] = [k \in Setting |->
                       IF k \in bits THEN Sent(k, setting[k]) ELSE @[k]]]
  /\ UNCHANGED <<fileVars, mainVars, initVars, indexVars, extrinsics, queue, sem,
                 storeVars, pollVars, exitVars>>

(* ... for one the file does not name: it is given a place, but neither its *)
(* handle nor a configuration is written there.                             *)
BeginInsert(h) ==
  /\ info_callback /\ sdk /\ inserting = NoHandle /\ changes[h] < MaxChanges
  /\ map_index[h] = NoIndex
  /\ changes' = [changes EXCEPT ![h] = @ + 1]
  /\ inserting' = IF Free = {} THEN NoHandle ELSE h
  /\ UNCHANGED <<fileVars, mainVars, initVars, map_index, index_cache, lidars,
                 extrinsics, sent, queue, sem, storeVars, pollVars, exitVars>>

EndInsert ==
  /\ inserting # NoHandle
  /\ GetFreeIndex(inserting) /\ inserting' = NoHandle
  /\ UNCHANGED <<fileVars, mainVars, initVars, deviceVars, queue, sem, storeVars,
                 pollVars, exitVars>>

(* A setting of h is acknowledged (LidarConfig has the whole exchange).     *)
SettingAnswered(h, k) ==
  /\ sdk /\ map_index[h] # NoIndex
  /\ k \in lidars[map_index[h]].set_bits
  /\ LET i == map_index[h]
     IN  lidars' = [lidars EXCEPT ![i].set_bits = @ \ {k},
                    ![i].sampling = @ \/ lidars[i].set_bits = {k}]
  /\ UNCHANGED <<fileVars, mainVars, initVars, indexVars, extrinsics, sent,
                 changes, queue, sem, storeVars, pollVars, exitVars>>
-----------------------------------------------------------------------------
(* The producers: PubHandler's thread for frames, the loop of the data for  *)
(* IMU samples.                                                             *)

(* May a producer of this kind be called, and may the call be lost?  The    *)
(* thread of the frames survives the node and the SDK.                      *)
Delivers(k) ==
  IF k = "pcl" THEN raw_thread
  ELSE sdk /\ observing /\ imu_callback # "none"
MayMiss(k) == k = "imu" /\ imu_callback = "assigning"

Total(count) ==
  LET ofKind(k) == SumFunction(count[k]) IN ofKind("pcl") + ofKind("imu")

(* StoragePointData, StorageImuData: the next frame or sample of lidar h is *)
(* pushed to the place of h, or dropped when it is found to have none.      *)
Store(k, h) ==
  /\ Delivers(k) /\ p[k].pc = "idle" /\ Total(heard) < MaxHeard
  /\ heard' = [heard EXCEPT ![k][h] = @ + 1]
  /\ \E i \in Lookups(h) \cup (IF MayMiss(k) THEN {NoIndex} ELSE {}) :
       IF i = NoIndex THEN UNCHANGED <<queue, p, stored, prompt>>
       ELSE LET sample == [handle |-> h, n |-> heard'[k][h]]
            IN  /\ queue' = [queue EXCEPT ![k][i] = Append(@, sample)]
                /\ p' = [p EXCEPT ![k] = [pc |-> "nonempty", at |-> i]]
                /\ stored' = [stored EXCEPT ![k][h] = @ \cup {sample.n}]
                /\ prompt' = prompt \cup
                     (IF lidars[i].sampling THEN {<<k, sample>>} ELSE {})
  /\ UNCHANGED <<fileVars, mainVars, initVars, indexVars, deviceVars, sem,
                 pollVars, exitVars>>

TestEmpty(k) ==
  /\ p[k].pc = "nonempty"
  /\ p' = [p EXCEPT ![k].pc = IF queue[k][p[k].at] = <<>> THEN "idle" ELSE "count"]
  /\ UNCHANGED <<fileVars, mainVars, initVars, indexVars, deviceVars, queue, sem,
                 heard, stored, prompt, pollVars, exitVars>>

(* Mutant: a semaphore that has counted once is never signalled again. *)
GetCount_First(k) ==
  /\ p[k].pc = "count"
  /\ p' = [p EXCEPT ![k].pc =
             IF sem[k] <= 0 /\ published[k] = <<>> THEN "signal" ELSE "idle"]
  /\ UNCHANGED <<fileVars, mainVars, initVars, indexVars, deviceVars, queue, sem,
                 heard, stored, prompt, pollVars, exitVars>>

GetCount(k) ==
  /\ p[k].pc = "count"
  /\ p' = [p EXCEPT ![k].pc = IF sem[k] <= 0 THEN "signal" ELSE "idle"]
  /\ UNCHANGED <<fileVars, mainVars, initVars, indexVars, deviceVars, queue, sem,
                 heard, stored, prompt, pollVars, exitVars>>

Signal(k) ==
  /\ p[k].pc = "signal"
  /\ sem' = [sem EXCEPT ![k] = @ + 1] /\ p' = [p EXCEPT ![k].pc = "idle"]
  /\ UNCHANGED <<fileVars, mainVars, initVars, indexVars, deviceVars, queue,
                 heard, stored, prompt, pollVars, exitVars>>
-----------------------------------------------------------------------------
(* The poll threads.                                                        *)

pollRest == <<fileVars, mainVars, initVars, indexVars, deviceVars, storeVars,
              exitVars>>

(* DistributePointCloudData, DistributeImuData.                             *)
Distribute(k) ==
  /\ c[k].pc = "top"
  /\ c' = [c EXCEPT ![k].pc = IF request_exit THEN "future" ELSE "wait"]
  /\ UNCHANGED <<pollRest, queue, sem, pubs, published>>

Wait(k) ==
  /\ c[k].pc = "wait" /\ sem[k] > 0
  /\ sem' = [sem EXCEPT ![k] = @ - 1]
  /\ c' = [c EXCEPT ![k].pc = "scan", ![k].at = 0]
  /\ UNCHANGED <<pollRest, queue, pubs, published>>

ScanLidar(k) ==
  /\ c[k].pc = "scan"
  /\ c' = IF c[k].at \notin Slot THEN [c EXCEPT ![k].pc = "future"]
          ELSE IF lidars[c[k].at].sampling THEN [c EXCEPT ![k].pc = "poll"]
          ELSE [c EXCEPT ![k].at = @ + 1]
  /\ UNCHANGED <<pollRest, queue, sem, pubs, published>>

(* Mutant: the exit is not looked at while there is something to publish. *)
MayPoll_Always(k) == queue[k][c[k].at] # <<>>

(* The condition of PollingLidarPointCloudData and PollingLidarImuData.     *)
MayPoll(k) == ~request_exit /\ queue[k][c[k].at] # <<>>

(* A transfer format whose publisher returns before it pops.                *)
NeverPops(k) == k = "pcl" /\ node.xfer_format = "PclPxyzi"

Poll(k) ==
  /\ c[k].pc = "poll"
  /\ c' = IF ~MayPoll(k) THEN [c EXCEPT ![k].pc = "scan", ![k].at = @ + 1]
          ELSE IF NeverPops(k) THEN c
          ELSE [c EXCEPT ![k].pc = "pop"]
  /\ UNCHANGED <<pollRest, queue, sem, pubs, published>>

(* The loops of PublishPointcloud2 and PublishCustomPointcloud, and the one *)
(* Pop of PublishImuData.                                                   *)
PopSample(k) ==
  /\ c[k].pc = "pop"
  /\ LET q == queue[k][c[k].at]
     IN  IF q = <<>> THEN c' = [c EXCEPT ![k].pc = "poll"] /\ UNCHANGED queue
         ELSE /\ c' = [c EXCEPT ![k].pc = "publish", ![k].hand = Head(q)]
              /\ queue' = [queue EXCEPT ![k][c[k].at] = Tail(q)]
  /\ UNCHANGED <<pollRest, sem, pubs, published>>

(* GetCurrentPublisher, GetCurrentImuPublisher: the topic of a place is     *)
(* named after its handle the first time, and kept.                         *)
TopicOf(k, i) ==
  IF ~node.multi_topic THEN Shared
  ELSE IF pubs[k][i] # NoTopic THEN pubs[k][i] ELSE lidars[i].handle

(* Only the custom format has a lidar_id, a uint8: of the handle, which is   *)
(* the address with its first number in the low octet, it keeps that number. *)
LidarId(k, i) ==
  IF k = "pcl" /\ node.xfer_format = "Custom" THEN lidars[i].handle % 256 ELSE NoHandle

Publish(k) ==
  /\ c[k].pc = "publish"
  /\ LET i == c[k].at
     IN  /\ published' = [published EXCEPT ![k] = Append(@,
              [topic |-> TopicOf(k, i), lidar_id |-> LidarId(k, i), of |-> c[k].hand,
               by |-> node])]
         /\ pubs' = IF node.multi_topic THEN [pubs EXCEPT ![k][i] = TopicOf(k, i)]
                    ELSE pubs
  /\ c' = [c EXCEPT ![k].pc = IF k = "imu" THEN "poll" ELSE "pop",
                    ![k].hand = NotHere]
  /\ UNCHANGED <<pollRest, queue, sem>>

(* PointCloudDataPollThread, ImuDataPollThread.                             *)
CheckFuture(k) ==
  /\ c[k].pc = "future"
  /\ c' = [c EXCEPT ![k].pc = IF exit_signal THEN "ended" ELSE "top"]
  /\ UNCHANGED <<pollRest, queue, sem, pubs, published>>
-----------------------------------------------------------------------------
Startup == \/ LivoxLidarSdkInit \/ FillDevice \/ SetLivoxLidarInfoChangeCallback
           \/ SetPointCloudsCallback \/ SetImuDataCallback \/ SetPointCloudConfig
           \/ StartPollThreads
Shutdown == \/ SetExitSignal \/ JoinPointCloud \/ JoinImu \/ DeInitLdsLidar
PollThread(k) == \/ Distribute(k) \/ Wait(k) \/ ScanLidar(k) \/ Poll(k)
                 \/ PopSample(k) \/ Publish(k) \/ CheckFuture(k)
Producer(k) == TestEmpty(k) \/ GetCount(k) \/ Signal(k)

Next ==
  \/ MakeNode \/ InitFails \/ Startup \/ RequestExit \/ Shutdown
  \/ \E h \in Handles : LidarInfoChange(h) \/ BeginInsert(h)
  \/ \E h \in Handles, k \in Setting : SettingAnswered(h, k)
  \/ EndInsert
  \/ \E k \in Kind : \/ \E h \in Handles : Store(k, h)
                     \/ Producer(k) \/ PollThread(k)

Spec == Init /\ [][Next]_vars

(* Each thread that has something to do does it; packets, answers and the   *)
(* decision to make or destroy a node come or do not come.                  *)
FairSpec ==
  /\ Spec
  /\ WF_vars(Startup \/ Shutdown) /\ WF_vars(EndInsert)
  /\ \A k \in Kind : WF_vars(Producer(k)) /\ WF_vars(PollThread(k))
-----------------------------------------------------------------------------
Sample == [handle : Handles \cup {NoHandle}, n : Nat]
TypeOK ==
  /\ map_index \in [Handles -> Slot \cup {NoIndex}] /\ index_cache \subseteq Slot
  /\ inserting \in Handles \cup {NoHandle}
  /\ \A k \in Kind :
       /\ \A i \in Slot : queue[k][i] \in Seq(Sample)
       /\ sem[k] \in Nat /\ p[k].at \in Slot /\ c[k].at \in 0..SlotCount
       /\ c[k].hand \in Sample
       /\ pubs[k] \in [Slot -> Handles \cup {NoHandle, NoTopic}]

(* The lidars the file names that were given a place, and their last entry. *)
Named == {h \in Handles : map_index[h] # NoIndex /\ lidars[map_index[h]].handle = h}
EntryOf(h) ==
  LET at == {i \in DOMAIN file : HasMember(file[i], "ip") /\ file[i].ip = h}
  IN  file[Max(at)]

(* With one topic per lidar, the topic of a lidar the file names carries    *)
(* the frames and samples of that lidar, all of them, once, in the order    *)
(* they were stored, and of no other lidar; with one topic for all, those   *)
(* of a lidar stay whole and in order.  A custom message has the first      *)
(* number of the address of its lidar as its id, and no other.  Places are  *)
(* given by two threads, looked up without a lock by two others, and a      *)
(* publisher keeps the name it was made with.                               *)
TopicCarriesItsLidar ==
  \A k \in Kind, h \in Named : \A i \in DOMAIN published[k] :
    LET m == published[k][i]
    IN  /\ m.topic = h => m.of.handle = h
        /\ m.of.handle = h =>
             /\ m.topic = IF m.by.multi_topic THEN h ELSE Shared
             /\ k = "pcl" /\ m.by.xfer_format = "Custom" => m.lidar_id = h % 256
             /\ m.of.n \in stored[k][h]
             /\ \A n \in stored[k][h] : n < m.of.n =>
                  \E j \in 1..(i-1) : published[k][j].of = [handle |-> h, n |-> n]
             /\ \A j \in 1..(i-1) :
                  published[k][j].of.handle = h => published[k][j].of.n < m.of.n

(* livox_ros/README.md:181: lidar_id is the "Lidar device id number".       *)
(* Custom messages of two lidars differ in it.                              *)
IdTellsLidars ==
  LET custom == {m \in Range(published["pcl"]) : m.by.xfer_format = "Custom"}
  IN  \A m, n \in custom : m.lidar_id = n.lidar_id => m.of.handle = n.of.handle

(* The values of a setting that arrive as they are written.                 *)
Fits(k) == IF k = "dual_emit_en" THEN {0, 1} ELSE 0..127

(* A setting of the file that fits a byte is sent as it stands there, and   *)
(* one the file does not name is not sent.                                  *)
SentAsConfigured ==
  \A h \in Named : \A k \in Setting :
    IF HasMember(EntryOf(h), k)
    THEN EntryOf(h)[k] \in Fits(k) => sent[h][k] \in {NotSet, EntryOf(h)[k]}
    ELSE sent[h][k] = NotSet

(* README: blind_spot_set has a "Range from 50 cm to 200 cm".  What is sent *)
(* is what the file says.                                                   *)
BlindSpotAsConfigured ==
  \A h \in Named :
    HasMember(EntryOf(h), "blind_spot_set") /\ changes[h] > 0
      => sent[h]["blind_spot_set"] = EntryOf(h)["blind_spot_set"]

(* What is stored while its lidar is Sampling is published, unless the node *)
(* is told to exit: the semaphore is signalled only when it counts 0, but   *)
(* no wake-up is lost.                                                      *)
AllOut == \A s \in prompt :
  NeverPops(s[1]) \/ \E i \in DOMAIN published[s[1]] : published[s[1]][i].of = s[2]
Promptly == []<>(request_exit \/ AllOut)

(* The destructor returns, unless a poll thread waits for ever on a         *)
(* semaphore nobody signals: RequestExit does not.                          *)
Parked == \E k \in Kind : c[k].pc = "wait" /\ sem[k] = 0
ExitEndsOrParks ==
  main_pc = "signal" ~> (main_pc = "gone" \/ []Parked)
=============================================================================
