--------------------------- MODULE Driver_proofs ---------------------------
(***************************************************************************)
(* Proofs about the driver, for any lidars, files, nodes and bounds.       *)
(* About DriverNode: a topic carries the frames and samples of its lidar,  *)
(* and the settings go out as the file has them.  About LidarConfig (whose *)
(* names have the prefix config): a lidar is Sampling only when every      *)
(* setting was answered.                                                   *)
(***************************************************************************)
EXTENDS DriverNode, LidarConfig, WellFoundedInduction, TLAPS

USE HandlesAssumption, SlotCountAssumption

(* A set of naturals that is not empty has a least element, and Min is it.  *)
LEMMA LeastNat ==
  ASSUME NEW S \in SUBSET Nat, S # {}
  PROVE  Min(S) \in S /\ \A y \in S : Min(S) <= y
<1> DEFINE R == OpToRel(<, Nat)
<1>1. IsWellFoundedOn(R, Nat)
  BY NatLessThanWellFounded
<1>2. \A x, y \in Nat : x < y => <<x, y>> \in R
  BY DEF OpToRel
<1> HIDE DEF R
<1>3. PICK x \in S : \A y \in S : ~(<<y, x>> \in R)
  BY <1>1, WFMin
<1>4. ASSUME NEW y \in S PROVE x <= y
  <2>1. x \in Nat /\ y \in Nat /\ ~(y < x)
    BY <1>2, <1>3
  <2> QED BY <2>1
<1> QED BY <1>4 DEF Min
-----------------------------------------------------------------------------
(* The variables and their types.                                           *)
DriverTypes ==
  /\ file \in Files /\ node \in Parameters
  /\ fill \in Nat
  /\ main_pc \in {"none", "sdk", "fill", "observe", "imu", "config", "threads",
                  "run", "signal", "join_pcl", "join_imu", "uninit", "gone"}
  /\ info_callback \in BOOLEAN /\ observing \in BOOLEAN
  /\ raw_thread \in BOOLEAN /\ is_initialized \in BOOLEAN

IndexTypes ==
  /\ map_index \in [Handles -> Slot \cup {NoIndex}] /\ index_cache \subseteq Slot
  /\ inserting \in Handles \cup {NoHandle}

Device == [handle : Handles \cup {NoHandle}, setting : [Setting -> Int], x : Int,
           set_bits : SUBSET Setting, sampling : BOOLEAN]

DeviceTypes ==
  /\ lidars \in [Slot -> Device]
  /\ sent \in [Handles -> [Setting -> Int]]

DriverSample == [handle : Handles, n : Nat]
Message == [topic : Handles \cup {NoHandle, Shared}, lidar_id : 0..255,
            of : DriverSample, by : Parameters]
PollState == [pc : {"none", "top", "wait", "scan", "poll", "pop", "publish",
                    "future", "ended"},
              at : Nat, hand : DriverSample \cup {NotHere}]

DataTypes ==
  /\ queue \in [Kind -> [Slot -> Seq(DriverSample)]]
  /\ c \in [Kind -> PollState]
  /\ pubs \in [Kind -> [Slot -> Handles \cup {NoHandle, NoTopic}]]
  /\ heard \in [Kind -> [Handles -> Nat]]
  /\ stored \in [Kind -> [Handles -> SUBSET Nat]]
  /\ published \in [Kind -> Seq(Message)]

(* The data source is set up once, in order: the places of the file first,  *)
(* then the callback that gives places to others, then the producers.       *)
PhaseInv ==
  /\ (raw_thread \/ observing \/ is_initialized \/ main_pc \in {"observe", "imu", "config"})
       => info_callback
  /\ info_callback => is_initialized \/ main_pc \in {"observe", "imu", "config"}
  /\ main_pc \in {"sdk", "fill"} => ~is_initialized
  /\ main_pc = "fill" => fill > 0
  /\ info_callback => fill > Len(file)
  /\ inserting # NoHandle => info_callback
  /\ ~info_callback /\ main_pc # "fill" => \A h \in Handles : map_index[h] = NoIndex

(* The poll threads run only while their node does.                         *)
ThreadInv ==
  /\ main_pc \notin {"run", "signal", "join_pcl", "join_imu"} =>
       \A k \in Kind : c[k].pc \in {"none", "ended"}
  /\ main_pc = "join_imu" => c["pcl"].pc = "ended"

(* Nothing is sent or stored before the callbacks are registered.           *)
SilentInv == ~info_callback =>
  /\ \A h \in Handles, k \in Setting : sent[h][k] = NotSet
  /\ \A k \in Kind, h \in Handles : stored[k][h] = {}

(* No two lidars have one place, and a place carries the handle of the      *)
(* lidar it was given to or of nobody.                                      *)
IndexInv ==
  /\ \A g, h \in Handles : map_index[g] = map_index[h] /\ map_index[h] # NoIndex => g = h
  /\ \A h \in Handles : map_index[h] # NoIndex => map_index[h] \in index_cache
  /\ \A i \in Slot : lidars[i].handle # NoHandle => map_index[lidars[i].handle] = i

(* Entry j is the last one of lidar h among those looked at.                *)
Entry(h, j) == HasMember(file[j], "ip") /\ file[j].ip = h
LastEntry(h, j) ==
  /\ j < fill /\ Entry(h, j)
  /\ \A i \in DOMAIN file : i < fill /\ Entry(h, i) => i <= j

(* A place has the settings of the last entry of its lidar, and what was    *)
(* sent to the lidar are these.                                             *)
SettingInv ==
  /\ \A h \in Named : \E j \in DOMAIN file :
       LastEntry(h, j) /\ lidars[map_index[h]].setting = UserSettings(file[j])
  /\ \A h \in Named : \A k \in Setting :
       LET v == lidars[map_index[h]].setting[k]
       IN  sent[h][k] = NotSet \/ (v # NotSet /\ sent[h][k] = Sent(k, v))

SetupInv == /\ DriverTypes /\ IndexTypes /\ DeviceTypes /\ DataTypes
            /\ PhaseInv /\ ThreadInv /\ SilentInv /\ IndexInv /\ SettingInv
-----------------------------------------------------------------------------
(* Who writes what.                                                         *)
LEMMA WhoWrites ==
  ASSUME [Next]_vars
  PROVE  /\ file' = file
         /\ \/ FillDevice \/ EndInsert \/ UNCHANGED <<map_index, index_cache>>
         /\ \/ FillDevice \/ UNCHANGED lidars
            \/ \E h \in Handles : LidarInfoChange(h)
            \/ \E h \in Handles, k \in Setting : SettingAnswered(h, k)
         /\ (\E h \in Handles : LidarInfoChange(h)) \/ UNCHANGED sent
         /\ LivoxLidarSdkInit \/ FillDevice \/ UNCHANGED fill
         /\ SetLivoxLidarInfoChangeCallback \/ UNCHANGED info_callback
         /\ (\E h \in Handles : BeginInsert(h)) \/ EndInsert \/ UNCHANGED inserting
<1>1. CASE UNCHANGED vars
  BY <1>1 DEF vars, fileVars, mainVars, initVars, indexVars, deviceVars
<1>2. CASE MakeNode \/ InitFails \/ Startup \/ RequestExit \/ Shutdown
  BY <1>2 DEF MakeNode, InitFails, Startup, RequestExit, Shutdown, LivoxLidarSdkInit,
     FillDevice, SetLivoxLidarInfoChangeCallback, SetPointCloudsCallback,
     SetImuDataCallback, SetPointCloudConfig, StartPollThreads, SetExitSignal,
     JoinPointCloud, JoinImu, DeInitLdsLidar, fileVars, mainVars, initVars, indexVars,
     deviceVars
<1>3. ASSUME NEW h \in Handles, LidarInfoChange(h) \/ BeginInsert(h)
      PROVE  /\ UNCHANGED <<file, map_index, index_cache, fill, info_callback>>
             /\ LidarInfoChange(h) \/ UNCHANGED <<lidars, sent>>
             /\ BeginInsert(h) \/ UNCHANGED inserting
  BY <1>3 DEF LidarInfoChange, BeginInsert, fileVars, mainVars, initVars, indexVars,
     deviceVars
<1>4. ASSUME NEW h \in Handles, NEW k \in Setting, SettingAnswered(h, k)
      PROVE  UNCHANGED <<file, map_index, index_cache, sent, fill, info_callback, inserting>>
  BY <1>4 DEF SettingAnswered, fileVars, mainVars, initVars, indexVars
<1>5. CASE EndInsert
  BY <1>5 DEF EndInsert, fileVars, mainVars, initVars, deviceVars
<1>6. ASSUME NEW k \in Kind, NEW h \in Handles, Store(k, h)
      PROVE  UNCHANGED <<fileVars, mainVars, initVars, indexVars, deviceVars>>
  BY <1>6 DEF Store
<1>7. ASSUME NEW k \in Kind, Producer(k) \/ PollThread(k)
      PROVE  UNCHANGED <<fileVars, mainVars, initVars, indexVars, deviceVars>>
  BY <1>7 DEF Producer, PollThread, TestEmpty, GetCount, Signal, Distribute, Wait,
     ScanLidar, Poll, PopSample, Publish, CheckFuture, pollRest
<1>8. CASE UNCHANGED <<fileVars, mainVars, initVars, indexVars, deviceVars>>
  BY <1>8 DEF fileVars, mainVars, initVars, indexVars, deviceVars
<1>9. CASE \E h \in Handles : LidarInfoChange(h) \/ BeginInsert(h)
  BY <1>3, <1>9, Zenon
<1>10. CASE \E h \in Handles, k \in Setting : SettingAnswered(h, k)
  BY <1>4, <1>10, Zenon
<1> QED BY <1>1, <1>2, <1>5, <1>6, <1>7, <1>8, <1>9, <1>10, Zenon DEF Next

(* ... and of the data.                                                     *)
LEMMA WhoStores ==
  ASSUME [Next]_vars
  PROVE  \/ \E k \in Kind, h \in Handles : Store(k, h)
         \/ UNCHANGED <<heard, stored>>
<1>1. CASE UNCHANGED vars
  BY <1>1 DEF vars, storeVars
<1>2. CASE MakeNode \/ InitFails \/ Startup \/ RequestExit \/ Shutdown \/ EndInsert
  BY <1>2 DEF MakeNode, InitFails, Startup, RequestExit, Shutdown, LivoxLidarSdkInit,
     FillDevice, SetLivoxLidarInfoChangeCallback, SetPointCloudsCallback,
     SetImuDataCallback, SetPointCloudConfig, StartPollThreads, SetExitSignal,
     JoinPointCloud, JoinImu, DeInitLdsLidar, EndInsert, storeVars
<1>3. ASSUME NEW h \in Handles, \/ LidarInfoChange(h) \/ BeginInsert(h)
                                \/ \E k \in Setting : SettingAnswered(h, k)
      PROVE  UNCHANGED <<heard, stored>>
  BY <1>3 DEF LidarInfoChange, BeginInsert, SettingAnswered, storeVars
<1>4. ASSUME NEW k \in Kind, Producer(k) \/ PollThread(k)
      PROVE  UNCHANGED <<heard, stored>>
  BY <1>4 DEF Producer, PollThread, TestEmpty, GetCount, Signal, Distribute, Wait,
     ScanLidar, Poll, PopSample, Publish, CheckFuture, pollRest, storeVars
<1> QED BY <1>1, <1>2, <1>3, <1>4, Zenon DEF Next
-----------------------------------------------------------------------------
(* Places are given to one lidar each and never taken back.                 *)
LEMMA FreeIndexIs ==
  ASSUME IndexTypes, NEW h \in Handles, GetFreeIndex(h)
  PROVE  /\ map_index' \in [Handles -> Slot \cup {NoIndex}] /\ index_cache' \subseteq Slot
         /\ \A g \in Handles : g # h \/ map_index[g] # NoIndex => map_index'[g] = map_index[g]
         /\ index_cache \subseteq index_cache'
         /\ map_index[h] = NoIndex /\ map_index'[h] # NoIndex =>
              map_index'[h] \in Free /\ map_index'[h] \in index_cache'
<1>1. CASE map_index[h] # NoIndex \/ Free = {}
  BY <1>1 DEF GetFreeIndex, IndexTypes
<1>2. CASE map_index[h] = NoIndex /\ Free # {}
  <2>1. Free \in SUBSET Nat /\ Free \subseteq Slot
    BY DEF Free, Slot
  <2>2. Min(Free) \in Free
    BY <1>2, <2>1, LeastNat
  <2>3. /\ map_index' = [map_index EXCEPT ![h] = Min(Free)]
        /\ index_cache' = index_cache \cup {Min(Free)}
    BY <1>2 DEF GetFreeIndex, Taken
  <2> QED BY <1>2, <2>1, <2>2, <2>3 DEF IndexTypes
<1> QED BY <1>1, <1>2

(* What is written to a place after it was filled in.                       *)
LEMMA DeviceKept ==
  ASSUME IndexTypes, DeviceTypes, NEW h \in Handles,
         LidarInfoChange(h) \/ \E k \in Setting : SettingAnswered(h, k)
  PROVE  /\ lidars' \in [Slot -> Device]
         /\ \A i \in Slot : /\ lidars'[i].handle = lidars[i].handle
                            /\ lidars'[i].setting = lidars[i].setting
<1>1. map_index[h] \in Slot
  BY DEF IndexTypes, LidarInfoChange, SettingAnswered
<1>2. ASSUME NEW B \in SUBSET Setting, NEW V \in BOOLEAN, NEW i \in Slot,
             lidars' = [lidars EXCEPT ![i].set_bits = B, ![i].sampling = V]
      PROVE  /\ lidars' \in [Slot -> Device]
             /\ \A j \in Slot : /\ lidars'[j].handle = lidars[j].handle
                                /\ lidars'[j].setting = lidars[j].setting
  BY <1>2 DEF DeviceTypes, Device
<1> DEFINE i == map_index[h]
<1>3. lidars[i].set_bits \in SUBSET Setting /\ lidars[i].sampling \in BOOLEAN
  BY <1>1 DEF DeviceTypes, Device
<1>4. CASE LidarInfoChange(h)
  <2> DEFINE bits == {k \in Setting : lidars[i].setting[k] # NotSet}
             B == lidars[i].set_bits \cup bits
             V == lidars[i].sampling \/ lidars[i].set_bits \cup bits = {}
  <2>1. lidars' = [lidars EXCEPT ![i].set_bits = B, ![i].sampling = V]
    BY <1>1, <1>4 DEF LidarInfoChange, DeviceTypes, Device
  <2>2. B \in SUBSET Setting
    BY <1>3
  <2>3. V \in BOOLEAN
    BY Zenon
  <2> HIDE DEF bits, B, V, i
  <2> QED BY <1>1, <1>2, <2>1, <2>2, <2>3 DEF i
<1>5. ASSUME NEW k \in Setting, SettingAnswered(h, k)
      PROVE  /\ lidars' \in [Slot -> Device]
             /\ \A j \in Slot : /\ lidars'[j].handle = lidars[j].handle
                                /\ lidars'[j].setting = lidars[j].setting
  <2> DEFINE B == lidars[i].set_bits \ {k}
             V == lidars[i].sampling \/ lidars[i].set_bits = {k}
  <2>1. lidars' = [lidars EXCEPT ![i].set_bits = B, ![i].sampling = V]
    BY <1>1, <1>5 DEF SettingAnswered, DeviceTypes, Device
  <2>2. B \in SUBSET Setting
    BY <1>3
  <2>3. V \in BOOLEAN
    BY Zenon
  <2> HIDE DEF B, V, i
  <2> QED BY <1>1, <1>2, <2>1, <2>2, <2>3 DEF i
<1> QED BY <1>4, <1>5

(* The settings of an entry are numbers.                                    *)
LEMMA UserSettingsType ==
  ASSUME DriverTypes, NEW j \in DOMAIN file
  PROVE  /\ UserSettings(file[j]) \in [Setting -> Int]
         /\ ParseExtrinsics(file[j]) \in Int
         /\ HasMember(file[j], "ip") => file[j].ip \in Handles
BY FilesAssumption DEF DriverTypes, UserSettings, HasMember, Int8, NotSet, ParseExtrinsics

(* A place is filled in.                                                    *)
Filled(i, h, s, x) ==
  lidars' = [lidars EXCEPT ![i].handle = h, ![i].setting = s, ![i].x = x]
LEMMA DeviceFilled ==
  ASSUME DeviceTypes, NEW i \in Slot, NEW h \in Handles, NEW s \in [Setting -> Int],
         NEW x \in Int, Filled(i, h, s, x)
  PROVE  /\ lidars' \in [Slot -> Device]
         /\ \A j \in Slot : j # i => lidars'[j] = lidars[j]
         /\ lidars'[i].handle = h /\ lidars'[i].setting = s
<1>1. lidars[i] \in Device
  BY DEF DeviceTypes
<1> DEFINE d == [lidars[i] EXCEPT !.handle = h, !.setting = s, !.x = x]
<1>2. d \in Device /\ d.handle = h /\ d.setting = s
  BY <1>1 DEF Device
<1>3. lidars' = [lidars EXCEPT ![i] = d]
  BY <1>1 DEF DeviceTypes, Device, Filled
<1>4. lidars \in [Slot -> Device]
  BY DEF DeviceTypes
<1> HIDE DEF d
<1>5. lidars' \in [Slot -> Device] /\ lidars'[i] = d
  BY <1>2, <1>3, <1>4
<1>6. \A j \in Slot : j # i => lidars'[j] = lidars[j]
  BY <1>3, <1>4
<1> QED BY <1>2, <1>5, <1>6, Zenon

(* One entry of the file is looked at.                                      *)
LEMMA FillStep ==
  ASSUME DriverTypes, IndexTypes, DeviceTypes, PhaseInv, FillDevice
  PROVE  /\ main_pc = "fill" /\ fill \in DOMAIN file /\ fill' = fill + 1
         /\ UNCHANGED <<file, main_pc, info_callback, sent, inserting>>
         /\ IF ~HasMember(file[fill], "ip")
            THEN UNCHANGED <<map_index, index_cache, lidars>>
            ELSE LET h == file[fill].ip
                 IN  /\ h \in Handles /\ GetFreeIndex(h)
                     /\ lidars' \in [Slot -> Device]
                     /\ \A i \in Slot : i # map_index'[h] => lidars'[i] = lidars[i]
                     /\ map_index'[h] # NoIndex =>
                          /\ lidars'[map_index'[h]].handle = h
                          /\ lidars'[map_index'[h]].setting = UserSettings(file[fill])
<1>1. /\ main_pc = "fill" /\ fill' = fill + 1
      /\ UNCHANGED <<file, main_pc, info_callback, sent, inserting>>
  BY DEF FillDevice, fileVars, initVars
<1>2. fill \in DOMAIN file
  <2>1. fill \in Nat /\ 0 < fill /\ fill <= Len(file)
    BY DEF DriverTypes, PhaseInv, FillDevice
  <2>2. DOMAIN file = 1..Len(file) /\ Len(file) \in Nat
    BY FilesAssumption DEF DriverTypes
  <2> QED BY <2>1, <2>2
<1>3. CASE ~HasMember(file[fill], "ip")
  BY <1>1, <1>2, <1>3 DEF FillDevice, ParseUserConfigs
<1>4. CASE HasMember(file[fill], "ip")
  <2> DEFINE h == file[fill].ip
             i == map_index'[h]
             config == ParseUserConfigs[fill]
  <2>1. /\ fill \in DOMAIN ParseUserConfigs
        /\ config = [handle  |-> h, setting |-> UserSettings(file[fill]),
                     x |-> ParseExtrinsics(file[fill])]
    BY <1>2, <1>4 DEF ParseUserConfigs
  <2>2. /\ h \in Handles /\ UserSettings(file[fill]) \in [Setting -> Int]
        /\ ParseExtrinsics(file[fill]) \in Int
    BY <1>2, <1>4, UserSettingsType
  <2> DEFINE setting == UserSettings(file[fill])
             x == ParseExtrinsics(file[fill])
  <2>3. /\ GetFreeIndex(h)
        /\ \/ i = NoIndex /\ lidars' = lidars
           \/ i # NoIndex /\ Filled(i, h, setting, x)
    <3>1. LET g == config.handle
              place == map_index'[g]
          IN  /\ GetFreeIndex(g)
              /\ \/ place = NoIndex /\ lidars' = lidars
                 \/ place # NoIndex /\ Filled(place, g, config.setting, config.x)
      <4>1. fill \in DOMAIN ParseUserConfigs
        BY <2>1
      <4> QED BY <4>1, Zenon DEF FillDevice, Filled
    <3>2. config.handle = h /\ config.setting = setting /\ config.x = x
      BY <2>1
    <3> HIDE DEF config, setting, x, h
    <3> QED BY <3>1, <3>2
  <2>4. map_index' \in [Handles -> Slot \cup {NoIndex}]
    BY <2>2, <2>3, FreeIndexIs
  <2>5. i \in Slot \cup {NoIndex}
    BY <2>2, <2>4
  <2>6. /\ lidars' \in [Slot -> Device]
        /\ \A j \in Slot : j # i => lidars'[j] = lidars[j]
        /\ i # NoIndex => lidars'[i].handle = h /\ lidars'[i].setting = setting
    <3> HIDE DEF h, i, config, setting, x
    <3>1. CASE i = NoIndex /\ lidars' = lidars
      BY <3>1 DEF DeviceTypes
    <3>2. CASE i # NoIndex /\ Filled(i, h, setting, x)
      <4>1. i \in Slot /\ h \in Handles /\ setting \in [Setting -> Int] /\ x \in Int
        BY <2>2, <2>5, <3>2 DEF h, setting, x
      <4> HIDE DEF i
      <4> QED BY <3>2, <4>1, DeviceFilled
    <3> QED BY <2>3, <3>1, <3>2, Zenon
  <2> QED BY <1>1, <1>2, <1>4, <2>2, <2>3, <2>6, Zenon
<1> QED BY <1>3, <1>4

(* What is sent for a setting is a number, and a value that fits is sent as *)
(* it is.                                                                   *)
LEMMA SentIs ==
  ASSUME NEW k \in Setting, NEW v \in Int
  PROVE  Sent(k, v) \in Int /\ (v \in Fits(k) => Sent(k, v) = v)
<1> USE UintModulusAssumption
<1>1. CASE k = "dual_emit_en"
  BY <1>1 DEF Sent, Fits
<1>2. CASE k = "blind_spot_set"
  <2>1. v % UintModulus \in Int /\ (v \in 0..127 => v % UintModulus = v)
    OBVIOUS
  <2> QED BY <1>2, <2>1 DEF Sent, Fits
<1>3. CASE k # "dual_emit_en" /\ k # "blind_spot_set"
  BY <1>3 DEF Sent, Fits
<1> QED BY <1>1, <1>2, <1>3

(* The lidar's settings, when it is announced.                              *)
LEMMA InfoChangeSends ==
  ASSUME IndexTypes, DeviceTypes, NEW h \in Handles, LidarInfoChange(h)
  PROVE  /\ info_callback /\ map_index[h] \in Slot
         /\ sent' \in [Handles -> [Setting -> Int]]
         /\ \A g \in Handles : g # h => sent'[g] = sent[g]
         /\ \A k \in Setting :
              LET v == lidars[map_index[h]].setting[k]
              IN  sent'[h][k] = IF v # NotSet THEN Sent(k, v) ELSE sent[h][k]
<1>1. info_callback /\ map_index[h] \in Slot
  BY DEF IndexTypes, LidarInfoChange
<1> DEFINE setting == lidars[map_index[h]].setting
           now == [k \in Setting |-> IF k \in {j \in Setting : setting[j] # NotSet}
                                     THEN Sent(k, setting[k]) ELSE sent[h][k]]
<1>2. setting \in [Setting -> Int]
  BY <1>1 DEF DeviceTypes, Device
<1>3. sent' = [sent EXCEPT ![h] = now]
  BY DEF LidarInfoChange, DeviceTypes
<1>4. now \in [Setting -> Int]
  <2>1. sent[h] \in [Setting -> Int]
    BY DEF DeviceTypes
  <2> HIDE DEF setting
  <2> QED BY <1>2, <2>1, SentIs
<1>5. \A k \in Setting : now[k] = IF setting[k] # NotSet THEN Sent(k, setting[k])
                                                       ELSE sent[h][k]
  OBVIOUS
<1>6. sent \in [Handles -> [Setting -> Int]]
  BY DEF DeviceTypes
<1> HIDE DEF now, setting
<1>7. /\ sent' \in [Handles -> [Setting -> Int]] /\ sent'[h] = now
      /\ \A g \in Handles : g # h => sent'[g] = sent[g]
  BY <1>3, <1>4, <1>6
<1> QED BY <1>1, <1>5, <1>7 DEF setting

(* Places are kept, and so is what was written there once the callback for  *)
(* the other lidars is registered.                                          *)
LEMMA PlacesKept ==
  ASSUME SetupInv, [Next]_vars
  PROVE  /\ IndexTypes' /\ DeviceTypes'
         /\ \A h \in Handles : map_index[h] # NoIndex => map_index'[h] = map_index[h]
         /\ info_callback =>
              /\ info_callback'
              /\ \A i \in Slot : /\ lidars'[i].handle = lidars[i].handle
                                 /\ lidars'[i].setting = lidars[i].setting
<1> USE DEF SetupInv
<1>1. IndexTypes' /\ \A h \in Handles : map_index[h] # NoIndex => map_index'[h] = map_index[h]
  <2>1. CASE FillDevice
    <3>1. CASE ~HasMember(file[fill], "ip")
      BY <2>1, <3>1, FillStep DEF IndexTypes
    <3>2. CASE HasMember(file[fill], "ip")
      BY <2>1, <3>2, FillStep, FreeIndexIs DEF IndexTypes
    <3> QED BY <3>1, <3>2
  <2>2. CASE EndInsert
    BY <2>2, FreeIndexIs DEF EndInsert, IndexTypes
  <2>3. CASE UNCHANGED <<map_index, index_cache>>
    BY <2>3, WhoWrites DEF BeginInsert, EndInsert, IndexTypes
  <2> QED BY <2>1, <2>2, <2>3, WhoWrites
<1>2. DeviceTypes'
  <2>1. lidars' \in [Slot -> Device]
    <3>1. CASE FillDevice
      BY <3>1, FillStep DEF DeviceTypes
    <3> QED BY <3>1, WhoWrites, DeviceKept DEF DeviceTypes
  <2>2. sent' \in [Handles -> [Setting -> Int]]
    BY WhoWrites, InfoChangeSends DEF DeviceTypes
  <2> QED BY <2>1, <2>2 DEF DeviceTypes
<1>3. ASSUME info_callback PROVE info_callback'
  BY <1>3, WhoWrites DEF SetLivoxLidarInfoChangeCallback
<1>4. ASSUME info_callback, NEW i \in Slot
      PROVE  lidars'[i].handle = lidars[i].handle /\ lidars'[i].setting = lidars[i].setting
  <2>1. ~FillDevice
    BY <1>4 DEF PhaseInv, FillDevice
  <2> QED BY <2>1, WhoWrites, DeviceKept
<1> QED BY <1>1, <1>2, <1>3, <1>4

LEMMA PhaseStep ==
  ASSUME SetupInv, [Next]_vars
  PROVE  PhaseInv' /\ DriverTypes'
<1> USE DEF SetupInv
<1>1. file' = file /\ Len(file) \in Nat
  BY WhoWrites, FilesAssumption DEF DriverTypes
<1> DEFINE rest == <<main_pc, fill, is_initialized, info_callback, observing, raw_thread>>
<1>2. CASE UNCHANGED <<rest, node, map_index, inserting>>
  BY <1>1, <1>2 DEF PhaseInv, DriverTypes
<1>3. CASE MakeNode \/ InitFails \/ RequestExit \/ Shutdown
  <2> USE DEF fileVars, mainVars, initVars, indexVars, PhaseInv, DriverTypes
  <2>1. CASE MakeNode
    BY <1>1, <2>1, NodesAssumption DEF MakeNode
  <2>2. CASE InitFails
    BY <1>1, <2>2 DEF InitFails
  <2>3. CASE RequestExit
    BY <1>1, <2>3 DEF RequestExit
  <2>4. CASE SetExitSignal
    BY <1>1, <2>4 DEF SetExitSignal
  <2>5. CASE JoinPointCloud
    BY <1>1, <2>5 DEF JoinPointCloud
  <2>6. CASE JoinImu
    BY <1>1, <2>6 DEF JoinImu
  <2>7. CASE DeInitLdsLidar
    BY <1>1, <2>7 DEF DeInitLdsLidar
  <2> QED BY <1>3, <2>1, <2>2, <2>3, <2>4, <2>5, <2>6, <2>7, Zenon DEF Shutdown
<1>4. CASE FillDevice
  <2>1. /\ main_pc = "fill" /\ fill' = fill + 1 /\ fill <= Len(file)
        /\ UNCHANGED <<node, main_pc, is_initialized, info_callback, observing, raw_thread,
                       inserting>>
    BY <1>4 DEF FillDevice, fileVars, initVars
  <2> QED BY <1>1, <2>1 DEF PhaseInv, DriverTypes
<1>5. CASE \/ LivoxLidarSdkInit \/ SetLivoxLidarInfoChangeCallback
           \/ SetPointCloudsCallback \/ SetImuDataCallback \/ SetPointCloudConfig
           \/ StartPollThreads
  <2> USE DEF fileVars, mainVars, initVars, indexVars, PhaseInv, DriverTypes
  <2>1. CASE LivoxLidarSdkInit
    BY <1>1, <2>1 DEF LivoxLidarSdkInit
  <2>2. CASE SetLivoxLidarInfoChangeCallback
    BY <1>1, <2>2 DEF SetLivoxLidarInfoChangeCallback
  <2>3. CASE SetPointCloudsCallback
    BY <1>1, <2>3 DEF SetPointCloudsCallback
  <2>4. CASE SetImuDataCallback
    BY <1>1, <2>4 DEF SetImuDataCallback
  <2>5. CASE SetPointCloudConfig
    BY <1>1, <2>5 DEF SetPointCloudConfig
  <2>6. CASE StartPollThreads
    BY <1>1, <2>6 DEF StartPollThreads
  <2> QED BY <1>5, <2>1, <2>2, <2>3, <2>4, <2>5, <2>6, Zenon
<1>6. ASSUME NEW h \in Handles, LidarInfoChange(h) \/ BeginInsert(h)
      PROVE  PhaseInv' /\ DriverTypes'
  <2>1. UNCHANGED <<rest, node, map_index>> /\ info_callback
    BY <1>6 DEF LidarInfoChange, BeginInsert, fileVars, mainVars, initVars, indexVars
  <2> QED BY <1>1, <2>1 DEF PhaseInv, DriverTypes
<1>7. ASSUME NEW h \in Handles, NEW k \in Setting, SettingAnswered(h, k)
      PROVE  UNCHANGED <<rest, node, map_index, inserting>>
  BY <1>7 DEF SettingAnswered, fileVars, mainVars, initVars, indexVars
<1>8. CASE EndInsert
  <2>1. UNCHANGED <<rest, node>> /\ info_callback /\ inserting' = NoHandle
    BY <1>8 DEF EndInsert, fileVars, mainVars, initVars, PhaseInv
  <2> QED BY <1>1, <2>1 DEF PhaseInv, DriverTypes
<1>9. ASSUME NEW k \in Kind,
             Producer(k) \/ PollThread(k) \/ \E h \in Handles : Store(k, h)
      PROVE  UNCHANGED <<rest, node, map_index, inserting>>
  BY <1>9 DEF Producer, PollThread, TestEmpty, GetCount, Signal, Distribute, Wait,
     ScanLidar, Poll, PopSample, Publish, CheckFuture, pollRest, Store, fileVars, mainVars,
     initVars, indexVars
<1>10. CASE UNCHANGED vars
  BY <1>2, <1>10 DEF vars, fileVars, mainVars, initVars, indexVars
<1> HIDE DEF rest
<1> QED BY <1>2, <1>3, <1>4, <1>5, <1>6, <1>7, <1>8, <1>9, <1>10, Zenon DEF Next, Startup

(* A node's threads end before it is gone.                                  *)
LEMMA ThreadStep ==
  ASSUME SetupInv, [Next]_vars
  PROVE  ThreadInv'
<1> USE DEF SetupInv
<1>1. CASE UNCHANGED <<main_pc, c>>
  BY <1>1 DEF ThreadInv
<1>2. ASSUME NEW k \in Kind, PollThread(k) PROVE ThreadInv'
  <2>1. main_pc' = main_pc /\ c[k].pc \notin {"none", "ended"}
    BY <1>2 DEF PollThread, Distribute, Wait, ScanLidar, Poll, PopSample, Publish,
       CheckFuture, pollRest, mainVars
  <2>2. \A j \in Kind : j # k => c'[j] = c[j]
    BY <1>2 DEF PollThread, Distribute, Wait, ScanLidar, Poll, PopSample, Publish,
       CheckFuture, DataTypes
  <2> QED BY <2>1, <2>2 DEF ThreadInv, Kind
<1>3. CASE StartPollThreads \/ JoinPointCloud \/ JoinImu
  BY <1>3 DEF StartPollThreads, JoinPointCloud, JoinImu, pollVars, ThreadInv, Kind
<1>4. CASE \/ MakeNode \/ InitFails \/ RequestExit \/ SetExitSignal \/ DeInitLdsLidar
           \/ LivoxLidarSdkInit \/ FillDevice \/ SetLivoxLidarInfoChangeCallback
           \/ SetPointCloudsCallback \/ SetImuDataCallback \/ SetPointCloudConfig
  BY <1>4 DEF MakeNode, InitFails, RequestExit, SetExitSignal, DeInitLdsLidar,
     LivoxLidarSdkInit, FillDevice, SetLivoxLidarInfoChangeCallback,
     SetPointCloudsCallback, SetImuDataCallback, SetPointCloudConfig, mainVars, pollVars,
     ThreadInv
<1>5. ASSUME NEW h \in Handles, \/ LidarInfoChange(h) \/ BeginInsert(h)
                                \/ \E k \in Setting : SettingAnswered(h, k)
      PROVE  UNCHANGED <<main_pc, c>>
  BY <1>5 DEF LidarInfoChange, BeginInsert, SettingAnswered, mainVars, pollVars
<1>6. ASSUME NEW k \in Kind, Producer(k) \/ \E h \in Handles : Store(k, h)
      PROVE UNCHANGED <<main_pc, c>>
  BY <1>6 DEF Producer, TestEmpty, GetCount, Signal, Store, mainVars, pollVars
<1>7. CASE EndInsert \/ UNCHANGED vars
  BY <1>1, <1>7 DEF EndInsert, vars, mainVars, pollVars
<1>8. CASE Startup \/ Shutdown \/ MakeNode \/ InitFails \/ RequestExit
  BY <1>3, <1>4, <1>8, Zenon DEF Startup, Shutdown
<1>9. CASE \E h \in Handles : LidarInfoChange(h) \/ BeginInsert(h)
  BY <1>1, <1>5, <1>9, Zenon
<1>10. CASE \E h \in Handles, k \in Setting : SettingAnswered(h, k)
  BY <1>1, <1>5, <1>10, Zenon
<1>11. CASE \E k \in Kind : (\E h \in Handles : Store(k, h)) \/ Producer(k) \/ PollThread(k)
  BY <1>1, <1>2, <1>6, <1>11, Zenon
<1> QED BY <1>7, <1>8, <1>9, <1>10, <1>11, Zenon DEF Next

(* Only registered callbacks send and store.                                *)
LEMMA SilentStep ==
  ASSUME SetupInv, [Next]_vars
  PROVE  SilentInv'
<1> USE DEF SetupInv
<1> SUFFICES ASSUME ~info_callback' PROVE SilentInv'
  BY DEF SilentInv
<1>1. ~info_callback
  BY PlacesKept
<1>2. sent' = sent
  BY <1>1, WhoWrites, InfoChangeSends
<1>3. stored' = stored
  <2>1. ASSUME NEW k \in Kind, NEW h \in Handles, Store(k, h)
        PROVE  FALSE
    BY <1>1, <2>1 DEF Store, Delivers, PhaseInv
  <2> QED BY <2>1, WhoStores
<1> QED BY <1>1, <1>2, <1>3 DEF SilentInv

(* A lidar has one place, and no lidar that is given one later gets it.     *)
LEMMA IndexStep ==
  ASSUME SetupInv, [Next]_vars
  PROVE  IndexInv'
<1> USE DEF SetupInv
<1>0. IndexTypes' /\ DeviceTypes' /\ map_index \in [Handles -> Slot \cup {NoIndex}]
  BY PlacesKept DEF IndexTypes
<1>1. ASSUME NEW h \in Handles, GetFreeIndex(h),
             \A i \in Slot : \/ lidars'[i].handle = lidars[i].handle
                             \/ map_index'[h] = i /\ lidars'[i].handle = h
      PROVE  IndexInv'
  <2>1. /\ map_index' \in [Handles -> Slot \cup {NoIndex}] /\ index_cache \subseteq index_cache'
        /\ \A g \in Handles : g # h \/ map_index[g] # NoIndex => map_index'[g] = map_index[g]
        /\ map_index[h] = NoIndex /\ map_index'[h] # NoIndex =>
             map_index'[h] \in Free /\ map_index'[h] \in index_cache'
    BY <1>1, FreeIndexIs
  <2>2. \A g \in Handles : map_index'[g] # NoIndex => map_index'[g] \in index_cache'
    BY <2>1 DEF IndexInv
  <2>3. ASSUME NEW f \in Handles, NEW g \in Handles, map_index'[f] = map_index'[g],
               map_index'[g] # NoIndex
        PROVE  f = g
    BY <2>1, <2>3 DEF IndexInv, Free
  <2>4. ASSUME NEW i \in Slot, lidars'[i].handle # NoHandle
        PROVE  map_index'[lidars'[i].handle] = i
    <3>1. lidars[i].handle \in Handles \cup {NoHandle}
      BY DEF DeviceTypes, Device
    <3>2. CASE lidars'[i].handle = lidars[i].handle
      <4>1. lidars[i].handle \in Handles /\ map_index[lidars[i].handle] = i /\ i # NoIndex
        BY <2>4, <3>1, <3>2 DEF IndexInv, Slot, NoIndex
      <4> QED BY <2>1, <3>2, <4>1
    <3> QED BY <1>1, <3>2
  <2> QED BY <2>2, <2>3, <2>4 DEF IndexInv
<1>2. CASE FillDevice
  <2>1. CASE ~HasMember(file[fill], "ip")
    BY <1>2, <2>1, FillStep DEF IndexInv
  <2>2. CASE HasMember(file[fill], "ip")
    <3> DEFINE h == file[fill].ip
    <3>1. /\ h \in Handles /\ GetFreeIndex(h)
          /\ \A i \in Slot : i # map_index'[h] => lidars'[i] = lidars[i]
          /\ map_index'[h] # NoIndex => lidars'[map_index'[h]].handle = h
      BY <1>2, <2>2, FillStep
    <3>2. \A i \in Slot : i # NoIndex
      BY DEF Slot, NoIndex
    <3> HIDE DEF h
    <3>3. \A i \in Slot : \/ lidars'[i].handle = lidars[i].handle
                          \/ map_index'[h] = i /\ lidars'[i].handle = h
      BY <3>1, <3>2
    <3> QED BY <1>1, <3>1, <3>3, Zenon
  <2> QED BY <2>1, <2>2
<1>3. CASE ~FillDevice
  <2>1. \A i \in Slot : lidars'[i].handle = lidars[i].handle
    BY <1>3, WhoWrites, DeviceKept
  <2>2. CASE EndInsert
    <3>1. inserting \in Handles /\ GetFreeIndex(inserting)
      BY <2>2 DEF EndInsert, IndexTypes
    <3> QED BY <1>1, <2>1, <3>1, Zenon
  <2>3. CASE UNCHANGED <<map_index, index_cache>>
    BY <2>1, <2>3 DEF IndexInv
  <2> QED BY <1>3, <2>2, <2>3, WhoWrites
<1> QED BY <1>2, <1>3

(* A lidar of the file that has its place had it before, unless an entry    *)
(* was just looked at.                                                      *)
LEMMA NamedKept ==
  ASSUME SetupInv, [Next]_vars, ~FillDevice, NEW h \in Named'
  PROVE  /\ h \in Named /\ map_index[h] \in Slot /\ map_index'[h] = map_index[h]
         /\ lidars'[map_index[h]].setting = lidars[map_index[h]].setting
<1> USE DEF SetupInv
<1>1. \A i \in Slot : /\ lidars'[i].handle = lidars[i].handle
                      /\ lidars'[i].setting = lidars[i].setting
  BY WhoWrites, DeviceKept
<1>2. h \in Handles /\ map_index'[h] \in Slot /\ lidars'[map_index'[h]].handle = h
  BY PlacesKept DEF Named, IndexTypes
<1>3. map_index[h] = map_index'[h]
  BY <1>1, <1>2 DEF IndexInv, NoHandle
<1> QED BY <1>1, <1>2, <1>3 DEF Named, Slot, NoIndex

LEMMA SettingStep ==
  ASSUME SetupInv, [Next]_vars
  PROVE  SettingInv'
<1> USE DEF SetupInv
<1>0. file' = file
  BY WhoWrites
<1>1. CASE FillDevice
  <2>1. /\ main_pc = "fill" /\ fill \in DOMAIN file /\ fill \in Nat /\ fill' = fill + 1
        /\ sent' = sent
    BY <1>1, FillStep DEF DriverTypes
  <2>2. \A h \in Handles, k \in Setting : sent'[h][k] = NotSet
    BY <2>1 DEF PhaseInv, SilentInv
  <2>3. DOMAIN file \subseteq Int
    BY FilesAssumption DEF DriverTypes
  <2>5. \A g, i : Entry(g, i)' <=> Entry(g, i)
    BY <1>0 DEF Entry, HasMember
  <2>4. ASSUME NEW h, NEW j \in DOMAIN file, ~Entry(h, fill), LastEntry(h, j)
        PROVE  LastEntry(h, j)'
    <3>1. j < fill' /\ Entry(h, j)'
      BY <2>1, <2>3, <2>4, <2>5 DEF LastEntry
    <3>2. ASSUME NEW i \in DOMAIN file, i < fill', Entry(h, i)' PROVE i <= j
      <4>1. Entry(h, i) /\ i # fill /\ i \in Int
        BY <2>3, <2>4, <2>5, <3>2
      <4>2. i < fill
        BY <2>1, <3>2, <4>1
      <4> QED BY <2>4, <4>1, <4>2 DEF LastEntry
    <3> QED BY <1>0, <3>1, <3>2 DEF LastEntry
  <2>7. ASSUME NEW h \in Named'
        PROVE  \E j \in DOMAIN file' :
                 LastEntry(h, j)' /\ lidars'[map_index'[h]].setting = UserSettings(file'[j])
    <3>1. CASE ~HasMember(file[fill], "ip")
      <4>1. UNCHANGED <<map_index, lidars>> /\ ~Entry(h, fill)
        BY <1>1, <3>1, FillStep DEF Entry
      <4>2. h \in Named
        BY <4>1 DEF Named
      <4> QED BY <1>0, <2>4, <4>1, <4>2 DEF SettingInv
    <3>2. CASE HasMember(file[fill], "ip")
      <4> DEFINE g == file[fill].ip
      <4>1. /\ g \in Handles /\ GetFreeIndex(g)
            /\ \A i \in Slot : i # map_index'[g] => lidars'[i] = lidars[i]
            /\ map_index'[g] # NoIndex =>
                 lidars'[map_index'[g]].setting = UserSettings(file[fill])
        BY <1>1, <3>2, FillStep
      <4>2. /\ h \in Handles /\ map_index'[h] \in Slot /\ map_index'[h] # NoIndex
            /\ lidars'[map_index'[h]].handle = h
        BY PlacesKept DEF Named, IndexTypes
      <4>3. CASE h = g
        <5>0. PICK f \in DOMAIN file : f = fill
          BY <2>1
        <5>1. Entry(h, f)' /\ f < fill'
          <6>1. Entry(h, f)
            BY <3>2, <4>3, <5>0 DEF Entry
          <6>2. f < fill'
            BY <2>1, <5>0
          <6> QED BY <2>5, <6>1, <6>2, Zenon
        <5>2. \A i \in DOMAIN file : i < fill' => i <= f
          BY <2>1, <2>3, <5>0
        <5>3. LastEntry(h, f)'
          BY <1>0, <5>1, <5>2 DEF LastEntry
        <5>4. lidars'[map_index'[h]].setting = UserSettings(file'[f])
          BY <1>0, <4>1, <4>2, <4>3, <5>0
        <5> QED BY <1>0, <5>3, <5>4
      <4>4. CASE h # g
        <5>1. map_index'[h] # map_index'[g] /\ map_index[h] = map_index'[h]
          BY <4>1, <4>2, <4>4, IndexStep, FreeIndexIs DEF IndexInv
        <5>2. lidars'[map_index'[h]] = lidars[map_index[h]]
          BY <4>1, <4>2, <5>1
        <5>3. h \in Named /\ ~Entry(h, fill)
          BY <4>2, <4>4, <5>1, <5>2 DEF Named, Entry
        <5> HIDE DEF g
        <5> QED BY <1>0, <2>4, <5>2, <5>3 DEF SettingInv
      <4> QED BY <4>3, <4>4
    <3> QED BY <3>1, <3>2
  <2>6. \A h \in Named' : h \in Handles
    BY DEF Named
  <2> QED BY <2>2, <2>6, <2>7 DEF SettingInv
<1>2. CASE ~FillDevice
  <2> SUFFICES ASSUME NEW h \in Named'
               PROVE  /\ \E j \in DOMAIN file' :
                           /\ LastEntry(h, j)'
                           /\ lidars'[map_index'[h]].setting = UserSettings(file'[j])
                      /\ \A k \in Setting :
                           LET v == lidars'[map_index'[h]].setting[k]
                           IN  sent'[h][k] = NotSet \/ (v # NotSet /\ sent'[h][k] = Sent(k, v))
    BY DEF SettingInv
  <2>1. /\ h \in Named /\ h \in Handles /\ map_index[h] \in Slot /\ map_index'[h] = map_index[h]
        /\ lidars'[map_index'[h]].setting = lidars[map_index[h]].setting
    BY <1>2, NamedKept DEF Named
  <2>2. fill' = fill
    <3>1. map_index[h] # NoIndex
      BY <2>1 DEF Slot, NoIndex
    <3> QED BY <1>2, <2>1, <3>1, WhoWrites DEF PhaseInv, LivoxLidarSdkInit
  <2>3. \E j \in DOMAIN file' :
          LastEntry(h, j)' /\ lidars'[map_index'[h]].setting = UserSettings(file'[j])
    BY <1>0, <2>1, <2>2 DEF SettingInv, LastEntry, Entry, HasMember
  <2>4. ASSUME NEW k \in Setting
        PROVE  LET v == lidars'[map_index'[h]].setting[k]
               IN  sent'[h][k] = NotSet \/ (v # NotSet /\ sent'[h][k] = Sent(k, v))
    <3> DEFINE v == lidars[map_index[h]].setting[k]
    <3>1. sent[h][k] = NotSet \/ (v # NotSet /\ sent[h][k] = Sent(k, v))
      BY <2>1 DEF SettingInv
    <3>2. sent'[h][k] \in {sent[h][k], IF v # NotSet THEN Sent(k, v) ELSE sent[h][k]}
      BY <2>1, WhoWrites, InfoChangeSends
    <3>3. lidars'[map_index'[h]].setting[k] = v
      BY <2>1
    <3> HIDE DEF v
    <3> QED BY <3>1, <3>2, <3>3
  <2> QED BY <2>3, <2>4
<1> QED BY <1>1, <1>2
-----------------------------------------------------------------------------
(* The frames and samples.  A publisher is named after the handle of its    *)
(* place.                                                                   *)
PubsInv ==
  \A k \in Kind, i \in Slot :
    pubs[k][i] # NoTopic => info_callback /\ pubs[k][i] = lidars[i].handle

(* Only what was heard of a lidar with a place is stored.                   *)
StoredInv ==
  \A k \in Kind, h \in Handles :
    /\ \A n \in stored[k][h] : n <= heard[k][h]
    /\ stored[k][h] # {} => map_index[h] # NoIndex

(* A queue holds what was stored of the lidar of its place, in order.       *)
InOrder(q) == \A j \in 1..Len(q) : \A l \in 1..(j-1) : q[l].n < q[j].n
QueueInv ==
  \A k \in Kind, i \in Slot :
    /\ InOrder(queue[k][i])
    /\ \A j \in 1..Len(queue[k][i]) :
         LET s == queue[k][i][j]
         IN  map_index[s.handle] = i /\ s.n \in stored[k][s.handle]

(* All of queue q comes after sample s.                                     *)
Ahead(q, s) == \A j \in 1..Len(q) : s.n < q[j].n

(* What is being published comes before what is queued.                     *)
HandInv ==
  \A k \in Kind :
    /\ c[k].pc \in {"poll", "pop", "publish"} => c[k].at \in Slot
    /\ c[k].pc = "publish" =>
         LET s == c[k].hand
         IN  /\ s \in DriverSample /\ map_index[s.handle] = c[k].at
             /\ s.n \in stored[k][s.handle] /\ Ahead(queue[k][c[k].at], s)

(* Message m of kind k is published as the handle of its place says.        *)
RightTopic(k, m, handle) ==
  /\ m.topic = IF m.by.multi_topic THEN handle ELSE Shared
  /\ k = "pcl" /\ m.by.xfer_format = "Custom" => m.lidar_id = handle % 256

(* The messages before the i-th hold all that was stored of the lidar of s  *)
(* before s, and nothing that was stored after it.                          *)
Earlier(out, numbers, i, s) ==
  /\ \A j \in 1..(i-1) : out[j].of.handle = s.handle => out[j].of.n < s.n
  /\ \A n \in numbers : n < s.n =>
       \E j \in 1..(i-1) : out[j].of = [handle |-> s.handle, n |-> n]

OutInv ==
  \A k \in Kind : \A i \in 1..Len(published[k]) :
    LET m == published[k][i]
        s == m.of
        at == map_index[s.handle]
    IN  /\ s.n \in stored[k][s.handle] /\ RightTopic(k, m, lidars[at].handle)
        /\ Earlier(published[k], stored[k][s.handle], i, s) /\ Ahead(queue[k][at], s)
        /\ c[k].pc = "publish" /\ c[k].hand.handle = s.handle => s.n < c[k].hand.n

(* What is stored is published, being published or queued.                  *)
Released(out, s) == \E i \in 1..Len(out) : out[i].of = s
Queued(q, s) == \E j \in 1..Len(q) : q[j] = s
KeptInv ==
  \A k \in Kind, h \in Handles : \A n \in stored[k][h] :
    LET s == [handle |-> h, n |-> n]
    IN  \/ Released(published[k], s) \/ Queued(queue[k][map_index[h]], s)
        \/ c[k].pc = "publish" /\ c[k].hand = s

DriverInv == /\ SetupInv /\ PubsInv /\ StoredInv /\ QueueInv /\ HandInv /\ OutInv
             /\ KeptInv

(* The steps that neither store nor take nor publish.                       *)
Idles ==
  /\ UNCHANGED <<queue, heard, stored, published>>
  /\ c' \in [Kind -> PollState]
  /\ \A k \in Kind : \/ c'[k] = c[k]
                     \/ /\ c[k].pc # "publish" /\ c'[k].pc # "publish"
                        /\ c'[k].pc \in {"poll", "pop"} => c'[k].at \in Slot
  /\ pubs' \in {pubs, [k \in Kind |-> [i \in Slot |-> NoTopic]]}

LEMMA PollStep ==
  ASSUME DataTypes, HandInv, NEW k \in Kind,
         \/ Distribute(k) \/ Wait(k) \/ ScanLidar(k) \/ Poll(k) \/ CheckFuture(k)
         \/ PopSample(k) /\ queue[k][c[k].at] = << >>
  PROVE  Idles
<1>1. UNCHANGED <<queue, heard, stored, published, pubs>>
  BY DEF Distribute, Wait, ScanLidar, Poll, CheckFuture, PopSample, pollRest, storeVars
<1>2. c[k] \in PollState /\ c[k].at \in Nat /\ c \in [Kind -> PollState]
  BY DEF DataTypes, PollState
<1> DEFINE Moved == /\ c' \in [Kind -> PollState] /\ \A j \in Kind : j # k => c'[j] = c[j]
                    /\ c[k].pc # "publish" /\ c'[k].pc # "publish"
                    /\ c'[k].pc \in {"poll", "pop"} => c'[k].at \in Slot
<1>3. Moved
  <2>1. CASE Distribute(k) \/ CheckFuture(k)
    <3>1. PICK pc_ \in {"wait", "future", "ended", "top"} : c' = [c EXCEPT ![k].pc = pc_]
      BY <2>1 DEF Distribute, CheckFuture
    <3>2. c[k].pc # "publish"
      BY <2>1 DEF Distribute, CheckFuture
    <3> QED BY <1>2, <3>1, <3>2 DEF PollState
  <2>5. CASE Wait(k)
    BY <1>2, <2>5 DEF Wait, PollState
  <2>2. CASE ScanLidar(k)
    BY <1>2, <2>2 DEF ScanLidar, PollState
  <2>3. CASE Poll(k)
    BY <1>2, <2>3 DEF Poll, PollState, HandInv
  <2>4. CASE PopSample(k) /\ queue[k][c[k].at] = << >>
    BY <1>2, <2>4 DEF PopSample, PollState, HandInv
  <2> QED BY <2>1, <2>2, <2>3, <2>4, <2>5
<1> QED BY <1>1, <1>3 DEF Idles

(* Every other step that touches the data stores, takes or publishes.       *)
LEMMA DataSteps ==
  ASSUME SetupInv, HandInv, [Next]_vars
  PROVE  \/ Idles
         \/ \E k \in Kind, h \in Handles : Store(k, h)
         \/ \E k \in Kind : \/ PopSample(k) /\ queue[k][c[k].at] # << >>
                            \/ Publish(k)
<1> USE DEF SetupInv
<1>1. ASSUME UNCHANGED <<queue, heard, stored, published, c>>,
             pubs' \in {pubs, [k \in Kind |-> [i \in Slot |-> NoTopic]]}
      PROVE  Idles
  BY <1>1 DEF Idles, DataTypes
<1>2. CASE UNCHANGED vars
  BY <1>1, <1>2 DEF vars, storeVars, pollVars
<1>3. CASE \/ MakeNode \/ InitFails \/ RequestExit \/ Shutdown \/ EndInsert
           \/ LivoxLidarSdkInit \/ FillDevice \/ SetLivoxLidarInfoChangeCallback
           \/ SetPointCloudsCallback \/ SetImuDataCallback \/ SetPointCloudConfig
  BY <1>1, <1>3 DEF MakeNode, InitFails, RequestExit, Shutdown, LivoxLidarSdkInit,
     FillDevice, SetLivoxLidarInfoChangeCallback, SetPointCloudsCallback,
     SetImuDataCallback, SetPointCloudConfig, SetExitSignal,
     JoinPointCloud, JoinImu, DeInitLdsLidar, EndInsert, storeVars, pollVars
<1>4. CASE StartPollThreads
  <2>1. UNCHANGED <<queue, heard, stored, published, pubs>>
    BY <1>4 DEF StartPollThreads, storeVars
  <2>2. /\ c' \in [Kind -> PollState]
        /\ \A k \in Kind : c[k].pc # "publish" /\ c'[k].pc = "top"
    BY <1>4 DEF StartPollThreads, ThreadInv, DataTypes, PollState
  <2> QED BY <2>1, <2>2 DEF Idles
<1>5. ASSUME NEW h \in Handles, \/ LidarInfoChange(h) \/ BeginInsert(h)
                                \/ \E k \in Setting : SettingAnswered(h, k)
      PROVE  Idles
  BY <1>1, <1>5 DEF LidarInfoChange, BeginInsert, SettingAnswered, storeVars, pollVars
<1>6. ASSUME NEW k \in Kind, Producer(k)
      PROVE  Idles
  BY <1>1, <1>6 DEF Producer, TestEmpty, GetCount, Signal, pollVars
<1>7. ASSUME NEW k \in Kind, PollThread(k), ~Publish(k),
             ~(PopSample(k) /\ queue[k][c[k].at] # << >>)
      PROVE  Idles
  BY <1>7, PollStep DEF PollThread
<1> QED BY <1>2, <1>3, <1>4, <1>5, <1>6, <1>7, Zenon DEF Next, Startup

(* A lidar of which something is stored keeps its place and its topic.      *)
LEMMA Steady ==
  ASSUME DriverInv, [Next]_vars, NEW k \in Kind, NEW h \in Handles, stored[k][h] # {}
  PROVE  /\ info_callback /\ map_index[h] \in Slot /\ map_index'[h] = map_index[h]
         /\ \A i \in Slot : lidars'[i].handle = lidars[i].handle
<1>1. map_index[h] # NoIndex /\ info_callback
  BY DEF DriverInv, SetupInv, SilentInv, StoredInv
<1>2. map_index[h] \in Slot
  BY <1>1 DEF DriverInv, SetupInv, IndexTypes
<1> QED BY <1>1, <1>2, PlacesKept DEF DriverInv

(* The types of what is stored, taken and published.                        *)
LEMMA DataParts ==
  ASSUME DataTypes, NEW k \in Kind
  PROVE  /\ published[k] \in Seq(Message)
         /\ \A i \in 1..Len(published[k]) :
              published[k][i] \in Message /\ published[k][i].of \in DriverSample
         /\ \A i \in Slot : queue[k][i] \in Seq(DriverSample)
         /\ \A h \in Handles : stored[k][h] \subseteq Nat /\ heard[k][h] \in Nat
         /\ \A s \in DriverSample : s.handle \in Handles /\ s.n \in Nat
         /\ c[k] \in PollState
<1>1. /\ published[k] \in Seq(Message) /\ queue[k] \in [Slot -> Seq(DriverSample)]
      /\ stored[k] \in [Handles -> SUBSET Nat] /\ heard[k] \in [Handles -> Nat]
      /\ c[k] \in PollState
  BY DEF DataTypes
<1>2. \A m \in Message : m.of \in DriverSample
  BY DEF Message
<1>3. \A i \in 1..Len(published[k]) : published[k][i] \in Message
  BY <1>1
<1>4. \A s \in DriverSample : s.handle \in Handles /\ s.n \in Nat
  BY DEF DriverSample
<1> QED BY <1>1, <1>2, <1>3, <1>4

LEMMA IdlesStep ==
  ASSUME DriverInv, [Next]_vars, Idles
  PROVE  /\ DataTypes' /\ PubsInv' /\ StoredInv' /\ QueueInv' /\ HandInv' /\ OutInv'
         /\ KeptInv'
<1> USE DEF DriverInv
<1>1. DataTypes /\ UNCHANGED <<queue, heard, stored, published>>
  BY DEF SetupInv, Idles
<1>2. DataTypes'
  BY <1>1 DEF Idles, DataTypes
<1>3. PubsInv'
  BY PlacesKept DEF PubsInv, Idles
<1>4. \A k \in Kind, h \in Handles : stored[k][h] # {} =>
        /\ map_index[h] # NoIndex /\ map_index[h] \in Slot /\ map_index'[h] = map_index[h]
        /\ lidars'[map_index'[h]].handle = lidars[map_index[h]].handle
  BY Steady DEF StoredInv
<1>5. StoredInv'
  BY <1>1, <1>4 DEF StoredInv
<1>6. QueueInv'
  <2> SUFFICES ASSUME NEW k \in Kind, NEW i \in Slot, NEW j \in 1..Len(queue[k][i])
               PROVE  LET s == queue[k][i][j]
                      IN  map_index'[s.handle] = i /\ s.n \in stored[k][s.handle]
    BY <1>1 DEF QueueInv
  <2>1. queue[k][i][j].handle \in Handles
    BY <1>1, DataParts
  <2>2. map_index[queue[k][i][j].handle] = i /\ queue[k][i][j].n \in stored[k][queue[k][i][j].handle]
    BY DEF QueueInv
  <2> QED BY <1>4, <2>1, <2>2
<1>7. \A k \in Kind : c[k].pc = "publish" \/ c'[k].pc = "publish" => c'[k] = c[k]
  BY DEF Idles
<1>8. HandInv'
  <2> SUFFICES ASSUME NEW k \in Kind
               PROVE  /\ c'[k].pc \in {"poll", "pop", "publish"} => c'[k].at \in Slot
                      /\ c'[k].pc = "publish" =>
                           LET s == c'[k].hand
                           IN  /\ s \in DriverSample /\ map_index'[s.handle] = c'[k].at
                               /\ s.n \in stored[k][s.handle] /\ Ahead(queue[k][c'[k].at], s)
    BY <1>1 DEF HandInv
  <2>1. c'[k].pc \in {"poll", "pop", "publish"} => c'[k].at \in Slot
    BY DEF HandInv, Idles
  <2>2. CASE c'[k].pc = "publish"
    <3>1. c[k].pc = "publish" /\ c'[k] = c[k]
      BY <1>7, <2>2
    <3>2. /\ c[k].hand \in DriverSample /\ map_index[c[k].hand.handle] = c[k].at
          /\ c[k].hand.n \in stored[k][c[k].hand.handle]
          /\ Ahead(queue[k][c[k].at], c[k].hand)
      BY <3>1 DEF HandInv
    <3>3. c[k].hand.handle \in Handles
      BY <3>2 DEF DriverSample
    <3>4. map_index'[c[k].hand.handle] = c[k].at
      BY <1>4, <3>2, <3>3
    <3> QED BY <2>1, <3>1, <3>2, <3>4
  <2> QED BY <2>1, <2>2
<1>9. OutInv'
  <2> SUFFICES ASSUME NEW k \in Kind, NEW i \in 1..Len(published[k])
               PROVE  LET m == published[k][i]
                          s == m.of
                          at == map_index'[s.handle]
                      IN  /\ s.n \in stored[k][s.handle] /\ RightTopic(k, m, lidars'[at].handle)
                          /\ Earlier(published[k], stored[k][s.handle], i, s)
                          /\ Ahead(queue[k][at], s)
                          /\ c'[k].pc = "publish" /\ c'[k].hand.handle = s.handle
                               => s.n < c'[k].hand.n
    BY <1>1 DEF OutInv
  <2>1. published[k][i].of.handle \in Handles
    BY <1>1, DataParts
  <2>2. /\ map_index'[published[k][i].of.handle] = map_index[published[k][i].of.handle]
        /\ lidars'[map_index'[published[k][i].of.handle]].handle =
             lidars[map_index[published[k][i].of.handle]].handle
    BY <1>4, <2>1 DEF OutInv
  <2> QED BY <1>7, <2>2 DEF OutInv
<1>10. KeptInv'
  <2> SUFFICES ASSUME NEW k \in Kind, NEW h \in Handles, NEW n \in stored'[k][h]
               PROVE  LET s == [handle |-> h, n |-> n]
                      IN  \/ Released(published'[k], s) \/ Queued(queue'[k][map_index'[h]], s)
                          \/ c'[k].pc = "publish" /\ c'[k].hand = s
    BY DEF KeptInv
  <2>1. map_index'[h] = map_index[h] /\ n \in stored[k][h]
    BY <1>1, <1>4
  <2> DEFINE s == [handle |-> h, n |-> n]
  <2>2. \/ Released(published[k], s) \/ Queued(queue[k][map_index[h]], s)
        \/ c[k].pc = "publish" /\ c[k].hand = s
    BY <2>1 DEF KeptInv
  <2> HIDE DEF s
  <2> QED BY <1>1, <1>7, <2>1, <2>2 DEF s
<1> QED BY <1>2, <1>3, <1>5, <1>6, <1>8, <1>9, <1>10

(* What a queue says when a sample is put behind it, ...                    *)
LEMMA Appended ==
  ASSUME NEW q \in Seq(DriverSample), NEW e \in DriverSample
  PROVE  /\ \A s : Queued(q, s) \/ s = e => Queued(Append(q, e), s)
         /\ \A s : Ahead(q, s) /\ s.n < e.n => Ahead(Append(q, e), s)
         /\ InOrder(q) /\ (\A j \in 1..Len(q) : q[j].n < e.n) => InOrder(Append(q, e))
         /\ \A j \in 1..Len(Append(q, e)) :
              (j \in 1..Len(q) /\ Append(q, e)[j] = q[j]) \/ Append(q, e)[j] = e
<1>1. /\ Len(q) \in Nat /\ Len(Append(q, e)) = Len(q) + 1
      /\ \A j \in 1..Len(q) : Append(q, e)[j] = q[j]
      /\ Append(q, e)[Len(q) + 1] = e
  OBVIOUS
<1>2. \A j \in 1..(Len(q) + 1) : j \in 1..Len(q) \/ j = Len(q) + 1
  BY <1>1
<1> DEFINE a == Append(q, e)
<1> HIDE DEF a
<1>3. ASSUME NEW s, Queued(q, s) \/ s = e PROVE Queued(a, s)
  <2>1. CASE Queued(q, s)
    BY <1>1, <2>1 DEF Queued, a
  <2>2. CASE s = e
    <3>1. Len(q) + 1 \in 1..Len(a) /\ a[Len(q) + 1] = s
      BY <1>1, <2>2 DEF a
    <3> QED BY <3>1 DEF Queued
  <2> QED BY <1>3, <2>1, <2>2
<1>4. \A s : Ahead(q, s) /\ s.n < e.n => Ahead(a, s)
  BY <1>1, <1>2 DEF Ahead, a
<1>5. InOrder(q) /\ (\A j \in 1..Len(q) : q[j].n < e.n) => InOrder(a)
  BY <1>1, <1>2 DEF InOrder, a
<1>6. \A j \in 1..Len(a) : (j \in 1..Len(q) /\ a[j] = q[j]) \/ a[j] = e
  BY <1>1, <1>2 DEF a
<1> QED BY <1>3, <1>4, <1>5, <1>6 DEF a

(* ... when its first is taken, ...                                         *)
LEMMA FirstTaken ==
  ASSUME NEW q \in Seq(DriverSample), q # << >>
  PROVE  /\ Head(q) = q[1] /\ Head(q) \in DriverSample /\ 1 \in 1..Len(q)
         /\ Tail(q) \in Seq(DriverSample)
         /\ \A j \in 1..Len(Tail(q)) : j + 1 \in 1..Len(q) /\ Tail(q)[j] = q[j + 1]
         /\ \A s : Queued(q, s) => s = Head(q) \/ Queued(Tail(q), s)
         /\ \A s : Ahead(q, s) => Ahead(Tail(q), s)
         /\ InOrder(q) => InOrder(Tail(q)) /\ Ahead(Tail(q), Head(q))
<1>1. /\ Head(q) = q[1] /\ Head(q) \in DriverSample /\ Tail(q) \in Seq(DriverSample)
      /\ Len(q) \in Nat /\ Len(q) > 0 /\ Len(Tail(q)) = Len(q) - 1
      /\ \A j \in 1..(Len(q) - 1) : Tail(q)[j] = q[j + 1]
  OBVIOUS
<1> DEFINE t == Tail(q)
<1> HIDE DEF t
<1>2. \A j \in 1..Len(t) : j \in Nat /\ j + 1 \in 1..Len(q) /\ t[j] = q[j + 1]
  BY <1>1 DEF t
<1>3. ASSUME NEW s, Queued(q, s), s # Head(q) PROVE Queued(t, s)
  <2>1. PICK j \in 1..Len(q) : q[j] = s
    BY <1>3 DEF Queued
  <2>2. j # 1 /\ j - 1 \in 1..Len(t) /\ (j - 1) + 1 = j
    BY <1>1, <1>3, <2>1 DEF t
  <2> QED BY <1>2, <2>1, <2>2 DEF Queued
<1>4. \A s : Ahead(q, s) => Ahead(t, s)
  BY <1>2 DEF Ahead
<1>5. ASSUME InOrder(q) PROVE InOrder(t) /\ Ahead(t, Head(q))
  <2>1. ASSUME NEW j \in 1..Len(t), NEW l \in 1..(j-1) PROVE t[l].n < t[j].n
    <3>1. l \in 1..Len(t) /\ l + 1 \in 1..((j + 1) - 1)
      BY <1>2
    <3> QED BY <1>2, <1>5, <3>1 DEF InOrder
  <2>2. ASSUME NEW j \in 1..Len(t) PROVE Head(q).n < t[j].n
    <3>1. 1 \in 1..((j + 1) - 1)
      BY <1>2
    <3> QED BY <1>1, <1>2, <1>5, <3>1 DEF InOrder
  <2> QED BY <2>1, <2>2 DEF InOrder, Ahead
<1> QED BY <1>1, <1>2, <1>3, <1>4, <1>5 DEF t

(* ... and what is published, when a message is added.                      *)
LEMMA Added ==
  ASSUME NEW out \in Seq(Message), NEW m \in Message
  PROVE  /\ \A s : Released(out, s) \/ s = m.of => Released(Append(out, m), s)
         /\ Len(Append(out, m)) = Len(out) + 1 /\ Append(out, m)[Len(out) + 1] = m
         /\ \A i \in 1..(Len(out) + 1) : i \in 1..Len(out) \/ i = Len(out) + 1
         /\ \A i \in 1..Len(out) : Append(out, m)[i] = out[i]
         /\ \A i \in 1..(Len(out) + 1) : \A numbers, s :
              Earlier(out, numbers, i, s) => Earlier(Append(out, m), numbers, i, s)
<1> DEFINE a == Append(out, m)
<1>1. /\ Len(out) \in Nat /\ Len(a) = Len(out) + 1 /\ a[Len(out) + 1] = m
      /\ \A i \in 1..Len(out) : a[i] = out[i]
  OBVIOUS
<1>2. \A i \in 1..(Len(out) + 1) : i \in 1..Len(out) \/ i = Len(out) + 1
  BY <1>1
<1> HIDE DEF a
<1>3. ASSUME NEW s, Released(out, s) \/ s = m.of PROVE Released(a, s)
  <2>1. CASE Released(out, s)
    BY <1>1, <2>1 DEF Released
  <2>2. CASE s = m.of
    <3>1. Len(out) + 1 \in 1..Len(a) /\ a[Len(out) + 1].of = s
      BY <1>1, <2>2
    <3> QED BY <3>1 DEF Released
  <2> QED BY <1>3, <2>1, <2>2
<1>4. ASSUME NEW i \in 1..(Len(out) + 1), NEW numbers, NEW s, Earlier(out, numbers, i, s)
      PROVE  Earlier(a, numbers, i, s)
  <2>1. \A j \in 1..(i-1) : j \in 1..Len(out)
    BY <1>1
  <2>2. \A j \in 1..(i-1) : a[j] = out[j]
    BY <1>1, <2>1
  <2> QED BY <1>4, <2>2 DEF Earlier
<1> QED BY <1>1, <1>2, <1>3, <1>4 DEF a

(* A sample found to have no place is dropped; one that is stored goes      *)
(* behind the others of its lidar.                                          *)
LEMMA StoreStep ==
  ASSUME DriverInv, NEW k \in Kind, NEW h \in Handles, Store(k, h)
  PROVE  /\ DataTypes' /\ PubsInv' /\ StoredInv' /\ QueueInv' /\ HandInv' /\ OutInv'
         /\ KeptInv'
<1> USE DEF DriverInv
<1>1. /\ UNCHANGED <<map_index, lidars, info_callback, c, pubs, published>>
      /\ heard' = [heard EXCEPT ![k][h] = heard[k][h] + 1]
      /\ DataTypes
  BY DEF Store, SetupInv, indexVars, deviceVars, initVars, pollVars
<1>2. PICK i \in Lookups(h) \cup (IF MayMiss(k) THEN {NoIndex} ELSE {}) :
        LET sample == [handle |-> h, n |-> heard'[k][h]]
        IN  IF i = NoIndex THEN UNCHANGED <<queue, stored>>
            ELSE /\ queue' = [queue EXCEPT ![k][i] = Append(@, sample)]
                 /\ stored' = [stored EXCEPT ![k][h] = @ \cup {sample.n}]
  BY DEF Store
<1> DEFINE n == heard[k][h] + 1
           new == [handle |-> h, n |-> n]
<1>3. /\ heard[k][h] \in Nat /\ n \in Nat /\ heard'[k][h] = n /\ new \in DriverSample
      /\ heard' \in [Kind -> [Handles -> Nat]]
      /\ \A j \in Kind, g \in Handles : heard[j][g] <= heard'[j][g]
  BY <1>1 DEF DataTypes, DriverSample
<1>4. CASE i = NoIndex
  <2>1. UNCHANGED <<queue, stored>>
    BY <1>2, <1>4
  <2>2. StoredInv'
    BY <1>1, <1>3, <2>1, DataParts DEF StoredInv
  <2> QED
    BY <1>1, <1>3, <2>1, <2>2
    DEF DataTypes, PubsInv, QueueInv, HandInv, OutInv, KeptInv
<1>5. CASE i # NoIndex
  <2>1. /\ i = map_index[h] /\ i \in Slot
        /\ queue' = [queue EXCEPT ![k][i] = Append(@, new)]
        /\ stored' = [stored EXCEPT ![k][h] = @ \cup {n}]
    BY <1>2, <1>3, <1>5 DEF Lookups, SetupInv, IndexTypes
  <2> DEFINE q == queue[k][i]
  <2>2. q \in Seq(DriverSample) /\ queue[k] \in [Slot -> Seq(DriverSample)]
    BY <1>1, <2>1 DEF DataTypes
  <2>3. /\ queue' \in [Kind -> [Slot -> Seq(DriverSample)]] /\ queue'[k][i] = Append(q, new)
        /\ \A j \in Kind, l \in Slot : j # k \/ l # i => queue'[j][l] = queue[j][l]
    <3> HIDE DEF new
    <3> QED BY <1>1, <1>3, <2>1, <2>2 DEF DataTypes
  <2>4. /\ stored' \in [Kind -> [Handles -> SUBSET Nat]]
        /\ stored'[k][h] = stored[k][h] \cup {n}
        /\ \A j \in Kind, g \in Handles : j # k \/ g # h => stored'[j][g] = stored[j][g]
        /\ \A j \in Kind, g \in Handles : stored[j][g] \subseteq stored'[j][g]
    <3> HIDE DEF n
    <3> QED BY <1>1, <1>3, <2>1 DEF DataTypes
  <2>5. \A m \in stored[k][h] : m < n
    BY <1>1, <1>3, DataParts DEF StoredInv
  <2>6. \A g \in Handles : map_index[g] = i => g = h
    BY <2>1 DEF SetupInv, IndexInv, Slot, NoIndex
  <2>7. DataTypes' /\ PubsInv'
    BY <1>1, <1>3, <2>3, <2>4 DEF DataTypes, PubsInv
  <2>8. StoredInv'
    <3> SUFFICES ASSUME NEW j \in Kind, NEW g \in Handles
                 PROVE  /\ \A m \in stored'[j][g] : m <= heard'[j][g]
                        /\ stored'[j][g] # {} => map_index[g] # NoIndex
      BY <1>1 DEF StoredInv
    <3>1. CASE j = k /\ g = h
      BY <1>3, <1>5, <2>1, <2>4, <2>5, <3>1, DataParts, <1>1
    <3>2. CASE j # k \/ g # h
      <4>1. \A m \in stored[j][g] : m <= heard[j][g] /\ m \in Nat
        BY <1>1, DataParts DEF StoredInv
      <4>2. heard[j][g] \in Nat /\ heard'[j][g] \in Nat /\ heard[j][g] <= heard'[j][g]
        BY <1>1, <1>3, DataParts
      <4>3. stored'[j][g] = stored[j][g]
        BY <2>4, <3>2
      <4>4. stored[j][g] # {} => map_index[g] # NoIndex
        BY DEF StoredInv
      <4> QED BY <4>1, <4>2, <4>3, <4>4
    <3> QED BY <3>1, <3>2
  <2>9. \A l \in 1..Len(q) : q[l].handle = h /\ q[l].n < n /\ q[l] \in DriverSample
    <3>1. \A l \in 1..Len(q) : q[l] \in DriverSample /\ q[l].handle \in Handles
      BY <1>1, <2>1, DataParts
    <3> QED BY <2>1, <2>5, <2>6, <3>1 DEF QueueInv
  <2> HIDE DEF n, new
  <2>10. new.handle = h /\ new.n = n
    BY DEF new
  <2>16. /\ \A s : Queued(q, s) \/ s = new => Queued(queue'[k][i], s)
         /\ \A s : Ahead(q, s) /\ s.n < n => Ahead(queue'[k][i], s)
         /\ InOrder(q) => InOrder(queue'[k][i])
         /\ \A x \in 1..Len(queue'[k][i]) : \/ x \in 1..Len(q) /\ queue'[k][i][x] = q[x]
                                            \/ queue'[k][i][x] = new
    <3>1. \A l \in 1..Len(q) : q[l].n < new.n
      BY <2>9, <2>10
    <3> HIDE DEF q
    <3>2. /\ \A s : Queued(q, s) \/ s = new => Queued(Append(q, new), s)
          /\ \A s : Ahead(q, s) /\ s.n < new.n => Ahead(Append(q, new), s)
          /\ InOrder(q) => InOrder(Append(q, new))
          /\ \A j \in 1..Len(Append(q, new)) :
               (j \in 1..Len(q) /\ Append(q, new)[j] = q[j]) \/ Append(q, new)[j] = new
      BY <1>3, <2>2, <3>1, Appended, Zenon
    <3>3. queue'[k][i] = Append(q, new)
      BY <2>3
    <3> QED BY <2>10, <3>2, <3>3, Zenon
  <2>11. QueueInv'
    <3> SUFFICES ASSUME NEW j \in Kind, NEW l \in Slot
                 PROVE  /\ InOrder(queue'[j][l])
                        /\ \A x \in 1..Len(queue'[j][l]) :
                             LET s == queue'[j][l][x]
                             IN  map_index[s.handle] = l /\ s.n \in stored'[j][s.handle]
      BY <1>1 DEF QueueInv
    <3>1. CASE j = k /\ l = i
      <4>1. InOrder(queue'[k][i])
        BY <2>1, <2>16 DEF QueueInv
      <4>2. \A x \in 1..Len(q) : q[x].n \in stored'[k][h] /\ q[x].handle = h
        BY <2>1, <2>4, <2>9 DEF QueueInv
      <4>3. new.n \in stored'[k][h]
        BY <2>4, <2>10
      <4> HIDE DEF q
      <4>4. \A x \in 1..Len(queue'[k][i]) :
              queue'[k][i][x].handle = h /\ queue'[k][i][x].n \in stored'[k][h]
        BY <2>10, <2>16, <4>2, <4>3
      <4> QED BY <2>1, <3>1, <4>1, <4>4
    <3>2. CASE j # k \/ l # i
      <4>1. queue'[j][l] = queue[j][l]
        BY <2>3, <3>2
      <4>2. \A x \in 1..Len(queue[j][l]) : queue[j][l][x].handle \in Handles
        BY <1>1, DataParts
      <4>3. /\ InOrder(queue[j][l])
            /\ \A x \in 1..Len(queue[j][l]) :
                 /\ map_index[queue[j][l][x].handle] = l
                 /\ queue[j][l][x].n \in stored[j][queue[j][l][x].handle]
        BY DEF QueueInv
      <4>4. \A g \in Handles : \A y \in stored[j][g] : y \in stored'[j][g]
        BY <2>4
      <4> QED BY <4>1, <4>2, <4>3, <4>4
    <3> QED BY <3>1, <3>2
  <2>12. ASSUME NEW j \in Kind, NEW s \in DriverSample, s.n \in stored[j][s.handle],
                map_index[s.handle] # NoIndex, Ahead(queue[j][map_index[s.handle]], s)
         PROVE  Ahead(queue'[j][map_index[s.handle]], s)
    <3>1. s.handle \in Handles /\ map_index[s.handle] \in Slot
      BY <2>12 DEF DriverSample, SetupInv, IndexTypes
    <3>2. CASE j = k /\ map_index[s.handle] = i
      <4>1. s.handle = h /\ s.n < new.n
        BY <2>5, <2>6, <2>10, <2>12, <3>1, <3>2
      <4> QED BY <2>10, <2>12, <2>16, <3>2, <4>1
    <3>3. CASE j # k \/ map_index[s.handle] # i
      BY <2>3, <2>12, <3>1, <3>3
    <3> QED BY <3>2, <3>3
  <2>13. HandInv'
    <3> SUFFICES ASSUME NEW j \in Kind
                 PROVE  /\ c[j].pc \in {"poll", "pop", "publish"} => c[j].at \in Slot
                        /\ c[j].pc = "publish" =>
                             LET s == c[j].hand
                             IN  /\ s \in DriverSample /\ map_index[s.handle] = c[j].at
                                 /\ s.n \in stored'[j][s.handle]
                                 /\ Ahead(queue'[j][c[j].at], s)
      BY <1>1 DEF HandInv
    <3>1. c[j].pc \in {"poll", "pop", "publish"} => c[j].at \in Slot
      BY DEF HandInv
    <3>2. ASSUME c[j].pc = "publish"
          PROVE  LET s == c[j].hand
                 IN  /\ s \in DriverSample /\ map_index[s.handle] = c[j].at
                     /\ s.n \in stored'[j][s.handle] /\ Ahead(queue'[j][c[j].at], s)
      <4>1. /\ c[j].hand \in DriverSample /\ map_index[c[j].hand.handle] = c[j].at
            /\ c[j].hand.n \in stored[j][c[j].hand.handle]
            /\ Ahead(queue[j][c[j].at], c[j].hand) /\ c[j].at \in Slot
        BY <3>1, <3>2 DEF HandInv
      <4>2. c[j].hand.handle \in Handles /\ c[j].at # NoIndex
        BY <4>1 DEF DriverSample, Slot, NoIndex
      <4> QED BY <2>4, <2>12, <4>1, <4>2
    <3> QED BY <3>1, <3>2
  <2>14. OutInv'
    <3> SUFFICES ASSUME NEW j \in Kind, NEW x \in 1..Len(published[j])
                 PROVE  LET m == published[j][x]
                            s == m.of
                            at == map_index[s.handle]
                        IN  /\ s.n \in stored'[j][s.handle]
                            /\ RightTopic(j, m, lidars[at].handle)
                            /\ Earlier(published[j], stored'[j][s.handle], x, s)
                            /\ Ahead(queue'[j][at], s)
                            /\ c[j].pc = "publish" /\ c[j].hand.handle = s.handle
                                 => s.n < c[j].hand.n
      BY <1>1 DEF OutInv
    <3> DEFINE m == published[j][x]
               s == m.of
    <3>1. s \in DriverSample /\ s.handle \in Handles /\ s.n \in Nat
      BY <1>1, DataParts
    <3>2. /\ s.n \in stored[j][s.handle] /\ RightTopic(j, m, lidars[map_index[s.handle]].handle)
          /\ Earlier(published[j], stored[j][s.handle], x, s)
          /\ Ahead(queue[j][map_index[s.handle]], s)
          /\ c[j].pc = "publish" /\ c[j].hand.handle = s.handle => s.n < c[j].hand.n
      BY DEF OutInv
    <3> HIDE DEF m, s
    <3>3. Ahead(queue'[j][map_index[s.handle]], s)
      BY <2>12, <3>1, <3>2 DEF StoredInv
    <3>4. Earlier(published[j], stored'[j][s.handle], x, s)
      <4>1. CASE j = k /\ s.handle = h
        <5>1. \A y \in stored'[j][s.handle] : y < s.n => y \in stored[j][s.handle]
          BY <1>3, <2>4, <2>5, <3>1, <3>2, <4>1
        <5> QED BY <3>2, <5>1 DEF Earlier
      <4>2. CASE j # k \/ s.handle # h
        BY <2>4, <3>1, <3>2, <4>2
      <4> QED BY <4>1, <4>2
    <3> QED BY <2>4, <3>1, <3>2, <3>3, <3>4 DEF m, s
  <2>15. KeptInv'
    <3> SUFFICES ASSUME NEW j \in Kind, NEW g \in Handles, NEW y \in stored'[j][g]
                 PROVE  LET s == [handle |-> g, n |-> y]
                        IN  \/ Released(published'[j], s) \/ Queued(queue'[j][map_index'[g]], s)
                            \/ c'[j].pc = "publish" /\ c'[j].hand = s
      BY DEF KeptInv
    <3>1. CASE j = k /\ g = h /\ y = n
      <4>1. Queued(queue'[k][i], new) /\ map_index' = map_index
        BY <1>1, <2>16
      <4> QED BY <2>1, <3>1, <4>1 DEF new
    <3>2. CASE ~(j = k /\ g = h /\ y = n)
      <4> DEFINE s == [handle |-> g, n |-> y]
      <4>0. y \in stored[j][g]
        <5>1. CASE j = k /\ g = h
          BY <2>4, <3>2, <5>1
        <5>2. CASE j # k \/ g # h
          BY <2>4, <5>2
        <5> QED BY <5>1, <5>2
      <4>1. y \in stored[j][g] /\ map_index[g] \in Slot
        BY <4>0 DEF StoredInv, SetupInv, IndexTypes
      <4>2. \/ Released(published[j], s) \/ Queued(queue[j][map_index[g]], s)
            \/ c[j].pc = "publish" /\ c[j].hand = s
        BY <4>1 DEF KeptInv
      <4> HIDE DEF s
      <4>3. Queued(queue[j][map_index[g]], s) => Queued(queue'[j][map_index[g]], s)
        <5>1. CASE j = k /\ map_index[g] = i
          BY <2>16, <5>1
        <5>2. CASE j # k \/ map_index[g] # i
          BY <2>3, <4>1, <5>2
        <5> QED BY <5>1, <5>2
      <4> QED BY <1>1, <4>2, <4>3 DEF s
    <3> QED BY <3>1, <3>2
  <2> QED BY <2>7, <2>8, <2>11, <2>13, <2>14, <2>15
<1> QED BY <1>4, <1>5

(* The first of a queue is taken: the rest comes after it.                  *)
LEMMA PopStep ==
  ASSUME DriverInv, NEW k \in Kind, PopSample(k), queue[k][c[k].at] # << >>
  PROVE  /\ DataTypes' /\ PubsInv' /\ StoredInv' /\ QueueInv' /\ HandInv' /\ OutInv'
         /\ KeptInv'
<1> USE DEF DriverInv
<1> DEFINE at == c[k].at
           q == queue[k][at]
<1>1. /\ UNCHANGED <<map_index, lidars, info_callback, heard, stored, pubs, published>>
      /\ c[k].pc = "pop"
      /\ c' = [c EXCEPT ![k].pc = "publish", ![k].hand = Head(q)]
      /\ queue' = [queue EXCEPT ![k][at] = Tail(q)]
      /\ DataTypes
  BY DEF PopSample, pollRest, storeVars, SetupInv, indexVars, deviceVars, initVars
<1>2. at \in Slot /\ c[k] \in PollState /\ q \in Seq(DriverSample) /\ q # << >>
  BY <1>1, DataParts DEF HandInv
<1>3. /\ Head(q) \in DriverSample /\ Tail(q) \in Seq(DriverSample)
      /\ Head(q) = q[1] /\ 1 \in 1..Len(q)
      /\ \A j \in 1..Len(Tail(q)) : j + 1 \in 1..Len(q) /\ Tail(q)[j] = q[j + 1]
      /\ \A s : Queued(q, s) => s = Head(q) \/ Queued(Tail(q), s)
      /\ \A s : Ahead(q, s) => Ahead(Tail(q), s)
      /\ InOrder(q) => InOrder(Tail(q)) /\ Ahead(Tail(q), Head(q))
  <2> HIDE DEF q
  <2> QED BY <1>2, FirstTaken, Zenon
<1> DEFINE first == Head(q)
           rest == Tail(q)
<1> HIDE DEF first, rest
<1>4. /\ queue' \in [Kind -> [Slot -> Seq(DriverSample)]] /\ queue'[k][at] = rest
      /\ \A j \in Kind, l \in Slot : j # k \/ l # at => queue'[j][l] = queue[j][l]
  BY <1>1, <1>2, <1>3 DEF DataTypes, rest
<1>5. /\ c' \in [Kind -> PollState] /\ \A j \in Kind : j # k => c'[j] = c[j]
      /\ c'[k].pc = "publish" /\ c'[k].at = at /\ c'[k].hand = first
  BY <1>1, <1>2, <1>3 DEF DataTypes, PollState, first
<1>6. /\ map_index[first.handle] = at /\ first.n \in stored[k][first.handle]
      /\ first.handle \in Handles /\ first.n \in Nat /\ InOrder(q)
  <2>1. /\ InOrder(q) /\ map_index[q[1].handle] = at
        /\ q[1].n \in stored[k][q[1].handle]
    BY <1>2, <1>3 DEF QueueInv
  <2>2. \A s \in DriverSample : s.handle \in Handles /\ s.n \in Nat
    BY DEF DriverSample
  <2> QED BY <1>3, <2>1, <2>2 DEF first
<1>7. /\ \A s : Queued(q, s) => s = first \/ Queued(rest, s)
      /\ \A s : Ahead(q, s) => Ahead(rest, s) /\ s.n < first.n
      /\ InOrder(rest) /\ Ahead(rest, first)
      /\ \A j \in 1..Len(rest) : j + 1 \in 1..Len(q) /\ rest[j] = q[j + 1]
  BY <1>3, <1>6 DEF first, rest, Ahead
<1> HIDE DEF q, at
<1>8. DataTypes' /\ PubsInv' /\ StoredInv'
  BY <1>1, <1>4, <1>5 DEF DataTypes, PubsInv, StoredInv
<1>9. QueueInv'
  <2> SUFFICES ASSUME NEW j \in Kind, NEW l \in Slot
               PROVE  /\ InOrder(queue'[j][l])
                      /\ \A x \in 1..Len(queue'[j][l]) :
                           LET s == queue'[j][l][x]
                           IN  map_index'[s.handle] = l /\ s.n \in stored'[j][s.handle]
    BY DEF QueueInv
  <2>1. CASE j = k /\ l = at
    <3>1. \A x \in 1..Len(q) : map_index[q[x].handle] = at /\ q[x].n \in stored[k][q[x].handle]
      BY <1>2 DEF QueueInv, q, at
    <3>2. \A x \in 1..Len(rest) :
            map_index[rest[x].handle] = at /\ rest[x].n \in stored[k][rest[x].handle]
      BY <1>7, <3>1
    <3> QED BY <1>1, <1>4, <1>7, <2>1, <3>2
  <2>2. CASE j # k \/ l # at
    BY <1>1, <1>4, <2>2 DEF QueueInv
  <2> QED BY <2>1, <2>2
<1>10. \A j \in Kind, l \in Slot : \A s : Ahead(queue[j][l], s) => Ahead(queue'[j][l], s)
  <2> SUFFICES ASSUME NEW j \in Kind, NEW l \in Slot, NEW s, Ahead(queue[j][l], s)
               PROVE  Ahead(queue'[j][l], s)
    OBVIOUS
  <2>1. CASE j = k /\ l = at
    BY <1>4, <1>7, <2>1 DEF q
  <2>2. CASE j # k \/ l # at
    BY <1>4, <2>2
  <2> QED BY <2>1, <2>2
<1>11. HandInv'
  <2> SUFFICES ASSUME NEW j \in Kind
               PROVE  /\ c'[j].pc \in {"poll", "pop", "publish"} => c'[j].at \in Slot
                      /\ c'[j].pc = "publish" =>
                           LET s == c'[j].hand
                           IN  /\ s \in DriverSample /\ map_index'[s.handle] = c'[j].at
                               /\ s.n \in stored'[j][s.handle]
                               /\ Ahead(queue'[j][c'[j].at], s)
    BY DEF HandInv
  <2>1. CASE j = k
    BY <1>1, <1>2, <1>3, <1>4, <1>5, <1>6, <1>7, <2>1 DEF first
  <2>2. CASE j # k
    <3>1. c'[j] = c[j]
      BY <1>5, <2>2
    <3> QED BY <1>1, <1>10, <3>1 DEF HandInv
  <2> QED BY <2>1, <2>2
<1>12. OutInv'
  <2> SUFFICES ASSUME NEW j \in Kind, NEW x \in 1..Len(published[j])
               PROVE  LET m == published[j][x]
                          s == m.of
                          place == map_index[s.handle]
                      IN  /\ s.n \in stored[j][s.handle] /\ RightTopic(j, m, lidars[place].handle)
                          /\ Earlier(published[j], stored[j][s.handle], x, s)
                          /\ Ahead(queue'[j][place], s)
                          /\ c'[j].pc = "publish" /\ c'[j].hand.handle = s.handle
                               => s.n < c'[j].hand.n
    BY <1>1 DEF OutInv
  <2> DEFINE m == published[j][x]
             s == m.of
  <2>1. s.handle \in Handles
    BY <1>1, DataParts
  <2>2. /\ s.n \in stored[j][s.handle] /\ RightTopic(j, m, lidars[map_index[s.handle]].handle)
        /\ Earlier(published[j], stored[j][s.handle], x, s)
        /\ Ahead(queue[j][map_index[s.handle]], s)
        /\ c[j].pc = "publish" /\ c[j].hand.handle = s.handle => s.n < c[j].hand.n
    BY DEF OutInv
  <2> HIDE DEF m, s
  <2>3. map_index[s.handle] \in Slot
    BY <2>1, <2>2 DEF StoredInv, SetupInv, IndexTypes
  <2>4. Ahead(queue'[j][map_index[s.handle]], s)
    BY <1>10, <2>2, <2>3
  <2>5. c'[j].pc = "publish" /\ c'[j].hand.handle = s.handle => s.n < c'[j].hand.n
    <3>1. CASE j = k
      BY <1>5, <1>6, <1>7, <2>2, <3>1 DEF q
    <3>2. CASE j # k
      BY <1>5, <2>2, <3>2
    <3> QED BY <3>1, <3>2
  <2> QED BY <2>2, <2>4, <2>5 DEF m, s
<1>13. KeptInv'
  <2> SUFFICES ASSUME NEW j \in Kind, NEW g \in Handles, NEW y \in stored'[j][g]
               PROVE  LET s == [handle |-> g, n |-> y]
                      IN  \/ Released(published'[j], s) \/ Queued(queue'[j][map_index'[g]], s)
                          \/ c'[j].pc = "publish" /\ c'[j].hand = s
    BY DEF KeptInv
  <2> DEFINE s == [handle |-> g, n |-> y]
  <2>1. y \in stored[j][g] /\ map_index[g] \in Slot
    BY <1>1 DEF StoredInv, SetupInv, IndexTypes
  <2>2. \/ Released(published[j], s) \/ Queued(queue[j][map_index[g]], s)
        \/ c[j].pc = "publish" /\ c[j].hand = s
    BY <2>1 DEF KeptInv
  <2> HIDE DEF s
  <2>3. CASE j = k
    <3>1. Queued(queue[k][map_index[g]], s) => s = first \/ Queued(queue'[k][map_index[g]], s)
      BY <1>4, <1>7, <2>1 DEF q
    <3> QED BY <1>1, <1>5, <2>2, <2>3, <3>1 DEF s
  <2>4. CASE j # k
    BY <1>1, <1>4, <1>5, <2>1, <2>2, <2>4 DEF s
  <2> QED BY <2>3, <2>4
<1> QED BY <1>8, <1>9, <1>11, <1>12, <1>13

LEMMA OctetIs == \A h \in Handles \cup {NoHandle} : h % 256 \in 0..255
BY HandlesAssumption DEF NoHandle

(* What is published goes to the topic of its lidar, behind all that was    *)
(* stored of the lidar before it.                                           *)
LEMMA PublishStep ==
  ASSUME DriverInv, NEW k \in Kind, Publish(k)
  PROVE  /\ DataTypes' /\ PubsInv' /\ StoredInv' /\ QueueInv' /\ HandInv' /\ OutInv'
         /\ KeptInv'
<1> USE DEF DriverInv
<1> DEFINE at == c[k].at
           hand == c[k].hand
           topic == TopicOf(k, at)
           m == [topic |-> topic, lidar_id |-> LidarId(k, at), of |-> hand, by |-> node]
           out == published[k]
<1>1. /\ UNCHANGED <<map_index, lidars, info_callback, heard, stored, queue>>
      /\ c[k].pc = "publish"
      /\ published' = [published EXCEPT ![k] = Append(@, m)]
      /\ pubs' = IF node.multi_topic THEN [pubs EXCEPT ![k][at] = topic] ELSE pubs
      /\ c' = [c EXCEPT ![k].pc = IF k = "imu" THEN "poll" ELSE "pop", ![k].hand = NotHere]
      /\ DataTypes /\ node \in Parameters
  BY DEF Publish, pollRest, storeVars, SetupInv, indexVars, deviceVars, initVars, DriverTypes
<1>2. /\ at \in Slot /\ c[k] \in PollState /\ out \in Seq(Message)
      /\ hand \in DriverSample /\ hand.handle \in Handles /\ hand.n \in Nat
      /\ map_index[hand.handle] = at /\ hand.n \in stored[k][hand.handle]
      /\ Ahead(queue[k][at], hand)
  <2>1. /\ at \in Slot /\ hand \in DriverSample /\ map_index[hand.handle] = at
        /\ hand.n \in stored[k][hand.handle] /\ Ahead(queue[k][at], hand)
    BY <1>1 DEF HandInv
  <2> QED BY <1>1, <2>1, DataParts
<1>3. info_callback /\ lidars[at].handle \in Handles \cup {NoHandle}
  BY <1>2 DEF SetupInv, SilentInv, DeviceTypes, Device
<1>4. topic = IF node.multi_topic THEN lidars[at].handle ELSE Shared
  BY <1>2 DEF TopicOf, PubsInv
<1>5. m \in Message /\ m.of = hand /\ RightTopic(k, m, lidars[at].handle)
  <2>1. /\ LidarId(k, at) \in 0..255
        /\ k = "pcl" /\ node.xfer_format = "Custom" => LidarId(k, at) = lidars[at].handle % 256
    <3>1. lidars[at].handle % 256 \in 0..255
      BY <1>3, OctetIs
    <3>2. LidarId(k, at) = IF k = "pcl" /\ node.xfer_format = "Custom"
                           THEN lidars[at].handle % 256 ELSE 0
      BY Zenon DEF LidarId, NoHandle
    <3> HIDE DEF at
    <3> QED BY <3>1, <3>2
  <2>2. topic \in Handles \cup {NoHandle, Shared}
    BY <1>3, <1>4
  <2> HIDE DEF topic, at, hand
  <2> QED BY <1>1, <1>2, <1>3, <1>4, <2>1, <2>2 DEF Message, RightTopic
<1> HIDE DEF m
<1>6. /\ published' \in [Kind -> Seq(Message)] /\ published'[k] = Append(out, m)
      /\ \A j \in Kind : j # k => published'[j] = published[j]
  BY <1>1, <1>2, <1>5 DEF DataTypes
<1>7. /\ c' \in [Kind -> PollState] /\ \A j \in Kind : j # k => c'[j] = c[j]
      /\ c'[k].pc # "publish" /\ c'[k].at = at
  BY <1>1, <1>2 DEF DataTypes, PollState
<1>8. /\ \A s : Released(out, s) \/ s = hand => Released(Append(out, m), s)
      /\ Len(Append(out, m)) = Len(out) + 1 /\ Append(out, m)[Len(out) + 1] = m
      /\ \A i \in 1..(Len(out) + 1) : i \in 1..Len(out) \/ i = Len(out) + 1
      /\ \A i \in 1..Len(out) : Append(out, m)[i] = out[i]
      /\ \A i \in 1..(Len(out) + 1) : \A numbers, s :
           Earlier(out, numbers, i, s) => Earlier(Append(out, m), numbers, i, s)
  <2> HIDE DEF out, hand
  <2>1. /\ \A s : Released(out, s) \/ s = m.of => Released(Append(out, m), s)
        /\ Len(Append(out, m)) = Len(out) + 1 /\ Append(out, m)[Len(out) + 1] = m
        /\ \A i \in 1..(Len(out) + 1) : i \in 1..Len(out) \/ i = Len(out) + 1
        /\ \A i \in 1..Len(out) : Append(out, m)[i] = out[i]
        /\ \A i \in 1..(Len(out) + 1) : \A numbers, s :
             Earlier(out, numbers, i, s) => Earlier(Append(out, m), numbers, i, s)
    BY <1>2, <1>5, Added, Zenon
  <2>2. m.of = hand
    BY <1>5
  <2> QED BY <2>1, <2>2
<1>9. Earlier(out, stored[k][hand.handle], Len(out) + 1, hand)
  <2>1. Len(out) \in Nat /\ (Len(out) + 1) - 1 = Len(out)
    BY <1>2
  <2>2. ASSUME NEW j \in 1..Len(out), out[j].of.handle = hand.handle
        PROVE  out[j].of.n < hand.n
    BY <1>1, <2>2 DEF OutInv
  <2>3. ASSUME NEW n \in stored[k][hand.handle], n < hand.n
        PROVE  \E j \in 1..Len(out) : out[j].of = [handle |-> hand.handle, n |-> n]
    <3> DEFINE s == [handle |-> hand.handle, n |-> n]
    <3>1. Released(out, s) \/ Queued(queue[k][at], s) \/ hand = s
      BY <1>2, <2>3 DEF KeptInv
    <3>2. n \in Nat /\ s.n = n
      BY <1>1, <1>2, <2>3, DataParts
    <3>3. hand # s
      BY <1>2, <2>3, <3>2
    <3> HIDE DEF s
    <3>4. ~Queued(queue[k][at], s)
      <4>1. ASSUME NEW j \in 1..Len(queue[k][at]), queue[k][at][j] = s
            PROVE  FALSE
        <5>1. hand.n < n
          BY <1>2, <3>2, <4>1 DEF Ahead
        <5> QED BY <1>2, <2>3, <3>2, <5>1
      <4> QED BY <4>1 DEF Queued
    <3> QED BY <3>1, <3>3, <3>4 DEF Released, s
  <2> QED BY <2>1, <2>2, <2>3 DEF Earlier
<1>10. PubsInv' /\ pubs' \in [Kind -> [Slot -> Handles \cup {NoHandle, NoTopic}]]
  <2>1. CASE node.multi_topic
    <3>1. topic = lidars[at].handle /\ pubs' = [pubs EXCEPT ![k][at] = topic]
      BY <1>1, <1>4, <2>1
    <3> HIDE DEF topic, at
    <3> QED BY <1>1, <1>2, <1>3, <3>1 DEF PubsInv, DataTypes
  <2>2. CASE ~node.multi_topic
    BY <1>1, <2>2 DEF PubsInv, DataTypes
  <2> QED BY <2>1, <2>2
<1>11. DataTypes' /\ StoredInv' /\ QueueInv'
  BY <1>1, <1>6, <1>7, <1>10 DEF DataTypes, StoredInv, QueueInv
<1> HIDE DEF at, hand, topic, out
<1>12. HandInv'
  <2> SUFFICES ASSUME NEW j \in Kind
               PROVE  /\ c'[j].pc \in {"poll", "pop", "publish"} => c'[j].at \in Slot
                      /\ c'[j].pc = "publish" =>
                           LET s == c'[j].hand
                           IN  /\ s \in DriverSample /\ map_index'[s.handle] = c'[j].at
                               /\ s.n \in stored'[j][s.handle]
                               /\ Ahead(queue'[j][c'[j].at], s)
    BY DEF HandInv
  <2>1. CASE j = k
    BY <1>2, <1>7, <2>1
  <2>2. CASE j # k
    <3>1. c'[j] = c[j]
      BY <1>7, <2>2
    <3> QED BY <1>1, <3>1 DEF HandInv
  <2> QED BY <2>1, <2>2
<1>13. OutInv'
  <2> SUFFICES ASSUME NEW j \in Kind, NEW x \in 1..Len(published'[j])
               PROVE  LET a == published'[j][x]
                          s == a.of
                          place == map_index[s.handle]
                      IN  /\ s.n \in stored[j][s.handle] /\ RightTopic(j, a, lidars[place].handle)
                          /\ Earlier(published'[j], stored[j][s.handle], x, s)
                          /\ Ahead(queue[j][place], s)
                          /\ c'[j].pc = "publish" /\ c'[j].hand.handle = s.handle
                               => s.n < c'[j].hand.n
    BY <1>1 DEF OutInv
  <2>1. CASE j # k
    <3>1. published'[j] = published[j] /\ c'[j] = c[j]
      BY <1>6, <1>7, <2>1
    <3> QED BY <3>1 DEF OutInv
  <2>2. CASE j = k
    <3>1. published'[j] = Append(out, m) /\ c'[j].pc # "publish"
      BY <1>6, <1>7, <2>2
    <3>2. CASE x = Len(out) + 1
      <4>1. x \in 1..(Len(out) + 1)
        BY <1>8, <3>1
      <4>2. Earlier(published'[j], stored[k][hand.handle], x, hand)
        BY <1>8, <1>9, <3>1, <3>2, <4>1
      <4>3. published'[j][x] = m /\ m.of = hand
        BY <1>5, <1>8, <3>1, <3>2
      <4> QED BY <1>2, <1>5, <2>2, <3>1, <4>2, <4>3
    <3>3. CASE x # Len(out) + 1
      <4>1. x \in 1..(Len(out) + 1) /\ x \in 1..Len(out) /\ published'[j][x] = out[x]
        BY <1>8, <3>1, <3>3
      <4>2. LET s == out[x].of
                place == map_index[s.handle]
            IN  /\ s.n \in stored[k][s.handle] /\ RightTopic(k, out[x], lidars[place].handle)
                /\ Earlier(out, stored[k][s.handle], x, s) /\ Ahead(queue[k][place], s)
        BY <4>1 DEF OutInv, out
      <4>3. Earlier(published'[j], stored[k][out[x].of.handle], x, out[x].of)
        BY <1>8, <3>1, <4>1, <4>2
      <4> QED BY <2>2, <3>1, <4>1, <4>2, <4>3
    <3> QED BY <3>2, <3>3
  <2> QED BY <2>1, <2>2
<1>14. KeptInv'
  <2> SUFFICES ASSUME NEW j \in Kind, NEW g \in Handles, NEW y \in stored'[j][g]
               PROVE  LET s == [handle |-> g, n |-> y]
                      IN  \/ Released(published'[j], s) \/ Queued(queue'[j][map_index'[g]], s)
                          \/ c'[j].pc = "publish" /\ c'[j].hand = s
    BY DEF KeptInv
  <2> DEFINE s == [handle |-> g, n |-> y]
  <2>1. y \in stored[j][g]
    BY <1>1
  <2>2. \/ Released(published[j], s) \/ Queued(queue[j][map_index[g]], s)
        \/ c[j].pc = "publish" /\ c[j].hand = s
    BY <2>1 DEF KeptInv
  <2> HIDE DEF s
  <2>3. CASE j = k
    BY <1>1, <1>6, <1>8, <2>2, <2>3 DEF s, hand, out
  <2>4. CASE j # k
    BY <1>1, <1>6, <1>7, <2>2, <2>4 DEF s
  <2> QED BY <2>3, <2>4
<1> QED BY <1>10, <1>11, <1>12, <1>13, <1>14
-----------------------------------------------------------------------------
LEMMA DriverInit == Init => DriverInv
<1> SUFFICES ASSUME Init PROVE DriverInv
  OBVIOUS
<1>1. DriverTypes /\ IndexTypes
  <2>1. /\ info_callback \in BOOLEAN /\ observing \in BOOLEAN
        /\ raw_thread \in BOOLEAN /\ is_initialized \in BOOLEAN
    BY Zenon DEF Init
  <2>2. node \in Parameters
    BY DEF Init, Parameters
  <2>3. main_pc = "none" /\ fill = 0 /\ file \in Files /\ IndexTypes
    BY DEF Init, IndexTypes
  <2> QED BY <2>1, <2>2, <2>3 DEF DriverTypes
<1>2. DeviceTypes
  <2>1. Unused \in Device
    BY DEF Unused, Device
  <2> QED BY <2>1 DEF Init, DeviceTypes, NotSet
<1>3. DataTypes
  BY DEF Init, DataTypes, PollState
<1>4. PhaseInv /\ ThreadInv /\ SilentInv /\ IndexInv /\ SettingInv
  BY DEF Init, PhaseInv, ThreadInv, SilentInv, IndexInv, SettingInv, Named, Unused
<1>5. PubsInv /\ StoredInv /\ QueueInv /\ HandInv /\ OutInv /\ KeptInv
  BY DEF Init, PubsInv, StoredInv, QueueInv, HandInv, OutInv, KeptInv, InOrder
<1> QED BY <1>1, <1>2, <1>3, <1>4, <1>5 DEF DriverInv, SetupInv

LEMMA DriverStep == DriverInv /\ [Next]_vars => DriverInv'
<1> SUFFICES ASSUME DriverInv, [Next]_vars PROVE DriverInv'
  OBVIOUS
<1>1. /\ DriverTypes' /\ IndexTypes' /\ DeviceTypes' /\ PhaseInv' /\ ThreadInv'
      /\ SilentInv' /\ IndexInv' /\ SettingInv'
  BY PhaseStep, PlacesKept, ThreadStep, SilentStep, IndexStep, SettingStep DEF DriverInv
<1>2. /\ DataTypes' /\ PubsInv' /\ StoredInv' /\ QueueInv' /\ HandInv' /\ OutInv'
      /\ KeptInv'
  BY DataSteps, IdlesStep, StoreStep, PopStep, PublishStep DEF DriverInv
<1> QED BY <1>1, <1>2 DEF DriverInv, SetupInv

(* Whatever files, nodes and exits follow each other, and however places    *)
(* are given, looked up and published from meanwhile: a topic named after a *)
(* lidar of the file carries the frames and samples of that lidar only,     *)
(* whole and in order, and so does the shared topic for each lidar; the id  *)
(* in a custom message is the low octet of the handle of its lidar.         *)
THEOREM TopicsCarryTheirLidars == Spec => []TopicCarriesItsLidar
<1>1. DriverInv => TopicCarriesItsLidar
  <2> SUFFICES ASSUME DriverInv, NEW k \in Kind, NEW h \in Named,
                      NEW i \in DOMAIN published[k]
               PROVE  LET m == published[k][i]
                      IN  /\ m.topic = h => m.of.handle = h
                          /\ m.of.handle = h =>
                               /\ m.topic = IF m.by.multi_topic THEN h ELSE Shared
                               /\ k = "pcl" /\ m.by.xfer_format = "Custom"
                                    => m.lidar_id = h % 256
                               /\ m.of.n \in stored[k][h]
                               /\ \A n \in stored[k][h] : n < m.of.n =>
                                    \E j \in 1..(i-1) :
                                      published[k][j].of = [handle |-> h, n |-> n]
                               /\ \A j \in 1..(i-1) : published[k][j].of.handle = h =>
                                    published[k][j].of.n < m.of.n
    BY DEF TopicCarriesItsLidar
  <2> USE DEF DriverInv
  <2> DEFINE m == published[k][i]
             s == m.of
             place == map_index[s.handle]
  <2>1. /\ i \in 1..Len(published[k]) /\ s.handle \in Handles
    BY DataParts DEF SetupInv
  <2>2. /\ s.n \in stored[k][s.handle] /\ RightTopic(k, m, lidars[place].handle)
        /\ Earlier(published[k], stored[k][s.handle], i, s)
    BY <2>1 DEF OutInv
  <2>3. place \in Slot /\ place # NoIndex
    BY <2>1, <2>2 DEF StoredInv, SetupInv, IndexTypes
  <2>4. h \in Handles /\ h # NoHandle /\ h # Shared /\ lidars[map_index[h]].handle = h
    BY DEF Named, NoHandle, Shared
  <2>5. ASSUME m.topic = h PROVE s.handle = h
    <3>1. lidars[place].handle = h
      BY <2>2, <2>4, <2>5 DEF RightTopic
    <3>2. map_index[h] = place
      BY <2>3, <2>4, <3>1 DEF SetupInv, IndexInv
    <3> QED BY <2>1, <2>3, <2>4, <3>2 DEF SetupInv, IndexInv
  <2>6. ASSUME s.handle = h
        PROVE  /\ m.topic = IF m.by.multi_topic THEN h ELSE Shared
               /\ k = "pcl" /\ m.by.xfer_format = "Custom" => m.lidar_id = h % 256
               /\ s.n \in stored[k][h]
               /\ \A n \in stored[k][h] : n < s.n =>
                    \E j \in 1..(i-1) : published[k][j].of = [handle |-> h, n |-> n]
               /\ \A j \in 1..(i-1) : published[k][j].of.handle = h =>
                    published[k][j].of.n < s.n
    <3>1. lidars[place].handle = h
      BY <2>4, <2>6
    <3> HIDE DEF m, place
    <3> QED BY <2>2, <2>6, <3>1 DEF RightTopic, Earlier
  <2> QED BY <2>5, <2>6
<1> QED BY <1>1, DriverInit, DriverStep, PTL DEF Spec

(* Whatever entries a file has and however often a lidar is announced: what *)
(* it was sent is what the last entry of the file that names it says.       *)
THEOREM SettingsAreSent == Spec => []SentAsConfigured
<1>1. DriverInv => SentAsConfigured
  <2> SUFFICES ASSUME DriverInv, NEW h \in Named, NEW k \in Setting
               PROVE  IF HasMember(EntryOf(h), k)
                      THEN EntryOf(h)[k] \in Fits(k) => sent[h][k] \in {NotSet, EntryOf(h)[k]}
                      ELSE sent[h][k] = NotSet
    BY DEF SentAsConfigured
  <2> USE DEF DriverInv, SetupInv
  <2>1. h \in Handles
    BY DEF Named
  <2>2. CASE ~info_callback
    BY <2>1, <2>2 DEF SilentInv
  <2>3. CASE info_callback
    <3>1. PICK j \in DOMAIN file :
            LastEntry(h, j) /\ lidars[map_index[h]].setting = UserSettings(file[j])
      BY DEF SettingInv
    <3>2. /\ DOMAIN file = 1..Len(file) /\ Len(file) \in Nat
          /\ \A name \in DOMAIN file[j] : file[j][name] \in Int
      BY FilesAssumption DEF DriverTypes
    <3>3. \A i \in DOMAIN file : i < fill
      BY <2>3, <3>2 DEF PhaseInv, DriverTypes
    <3>4. EntryOf(h) = file[j]
      <4> DEFINE places == {i \in DOMAIN file : HasMember(file[i], "ip") /\ file[i].ip = h}
      <4>1. j \in places /\ \A i \in places : i <= j
        BY <3>1, <3>3 DEF LastEntry, Entry
      <4>2. places \subseteq Int
        BY <3>2
      <4> HIDE DEF places
      <4>3. Max(places) = j
        BY <4>1, <4>2 DEF Max
      <4> QED BY <4>3 DEF EntryOf, places
    <3> DEFINE v == UserSettings(file[j])[k]
    <3>5. sent[h][k] = NotSet \/ (v # NotSet /\ sent[h][k] = Sent(k, v))
      BY <3>1 DEF SettingInv
    <3>6. CASE HasMember(file[j], k)
      <4>1. v = Int8(file[j][k]) /\ file[j][k] \in Int
        BY <3>2, <3>6 DEF UserSettings, HasMember
      <4>2. ASSUME file[j][k] \in Fits(k) PROVE v = file[j][k]
        <5>1. file[j][k] \in 0..127
          BY <4>2 DEF Fits
        <5> QED BY <4>1, <5>1 DEF Int8
      <4> HIDE DEF v
      <4>3. ASSUME file[j][k] \in Fits(k) PROVE sent[h][k] \in {NotSet, file[j][k]}
        BY <3>5, <4>1, <4>2, <4>3, SentIs
      <4> QED BY <3>4, <3>6, <4>3
    <3>7. CASE ~HasMember(file[j], k)
      <4>1. v = NotSet
        BY <3>7 DEF UserSettings
      <4> QED BY <3>4, <3>5, <3>7, <4>1
    <3> QED BY <3>6, <3>7
  <2> QED BY <2>2, <2>3
<1> QED BY <1>1, DriverInit, DriverStep, PTL DEF Spec
-----------------------------------------------------------------------------
(* The rest of the types: counts, and the places the threads are at.        *)
ProducerState == [pc : {"idle", "nonempty", "count", "signal"}, at : Slot]
PlaceTypes ==
  /\ sem \in [Kind -> Nat] /\ p \in [Kind -> ProducerState]
  /\ \A k \in Kind : c[k].at \in 0..SlotCount

LEMMA ProducerPlaces ==
  ASSUME DriverInv, PlaceTypes, NEW k \in Kind,
         Producer(k) \/ \E h \in Handles : Store(k, h)
  PROVE  PlaceTypes'
<1>1. /\ p \in [Kind -> ProducerState] /\ p[k] \in ProducerState
      /\ sem \in [Kind -> Nat] /\ sem[k] \in Nat
  BY DEF PlaceTypes
<1>2. c' = c
  BY DEF Producer, Store, TestEmpty, GetCount, Signal, pollVars
<1>3. CASE TestEmpty(k) \/ GetCount(k) \/ Signal(k)
  <2>1. PICK pc_ \in {"idle", "count", "signal"} : p' = [p EXCEPT ![k].pc = pc_]
    BY <1>3 DEF TestEmpty, GetCount, Signal
  <2>2. p' \in [Kind -> ProducerState]
    BY <1>1, <2>1 DEF ProducerState
  <2>3. sem' \in [Kind -> Nat]
    BY <1>1, <1>3 DEF TestEmpty, GetCount, Signal
  <2> QED BY <1>2, <2>2, <2>3 DEF PlaceTypes
<1>4. ASSUME NEW h \in Handles, Store(k, h)
      PROVE  PlaceTypes'
  <2>1. sem' = sem
    BY <1>4 DEF Store
  <2>2. map_index[h] \in Slot \cup {NoIndex}
    BY DEF DriverInv, SetupInv, IndexTypes
  <2>3. p' = p \/ \E i \in Slot : p' = [p EXCEPT ![k] = [pc |-> "nonempty", at |-> i]]
    BY <1>4, <2>2 DEF Store, Lookups
  <2>4. p' \in [Kind -> ProducerState]
    BY <1>1, <2>3 DEF ProducerState
  <2> QED BY <1>1, <1>2, <2>1, <2>4 DEF PlaceTypes
<1> QED BY <1>3, <1>4 DEF Producer

LEMMA PollPlaces ==
  ASSUME DriverInv, PlaceTypes, NEW k \in Kind, PollThread(k)
  PROVE  PlaceTypes'
<1>1. /\ c \in [Kind -> PollState] /\ c[k] \in PollState /\ c[k].at \in 0..SlotCount
      /\ sem \in [Kind -> Nat] /\ sem[k] \in Nat
  BY DEF DriverInv, SetupInv, DataTypes, PlaceTypes
<1>2. c[k].pc \in {"poll", "pop", "publish"} => c[k].at \in Slot
  BY DEF DriverInv, HandInv
<1>3. p' = p
  BY DEF PollThread, Distribute, Wait, ScanLidar, Poll, PopSample, Publish, CheckFuture,
     pollRest, storeVars
<1>4. sem' \in [Kind -> Nat]
  BY <1>1 DEF PollThread, Distribute, Wait, ScanLidar, Poll, PopSample, Publish, CheckFuture
<1>5. (\A j \in Kind : j # k => c'[j] = c[j]) /\ c'[k].at \in 0..SlotCount
  <2>1. CASE Distribute(k) \/ Wait(k) \/ CheckFuture(k)
    BY <1>1, <2>1 DEF Distribute, Wait, CheckFuture, PollState
  <2>2. CASE ScanLidar(k)
    BY <1>1, <2>2 DEF ScanLidar, PollState, Slot
  <2>3. CASE Poll(k)
    BY <1>1, <1>2, <2>3 DEF Poll, PollState, Slot
  <2>4. CASE PopSample(k)
    BY <1>1, <2>4 DEF PopSample, PollState
  <2>5. CASE Publish(k)
    BY <1>1, <2>5 DEF Publish, PollState
  <2> QED BY <2>1, <2>2, <2>3, <2>4, <2>5 DEF PollThread
<1> QED BY <1>3, <1>4, <1>5 DEF PlaceTypes

LEMMA PlacesStep ==
  ASSUME DriverInv, PlaceTypes, [Next]_vars
  PROVE  PlaceTypes'
<1>1. CASE UNCHANGED <<sem, p, c>>
  BY <1>1 DEF PlaceTypes
<1>2. CASE UNCHANGED vars
  BY <1>1, <1>2 DEF vars, storeVars, pollVars
<1>3. CASE \/ MakeNode \/ InitFails \/ RequestExit \/ Shutdown \/ EndInsert
           \/ LivoxLidarSdkInit \/ FillDevice \/ SetLivoxLidarInfoChangeCallback
           \/ SetPointCloudsCallback \/ SetImuDataCallback \/ SetPointCloudConfig
  BY <1>1, <1>3 DEF MakeNode, InitFails, RequestExit, Shutdown, LivoxLidarSdkInit,
     FillDevice, SetLivoxLidarInfoChangeCallback, SetPointCloudsCallback,
     SetImuDataCallback, SetPointCloudConfig, SetExitSignal,
     JoinPointCloud, JoinImu, DeInitLdsLidar, EndInsert, storeVars, pollVars
<1>4. CASE StartPollThreads
  <2>1. \A k \in Kind : c[k] \in PollState /\ c'[k] = [c[k] EXCEPT !.pc = "top"]
    BY <1>4 DEF StartPollThreads, DriverInv, SetupInv, DataTypes
  <2>2. \A k \in Kind : c'[k].at = c[k].at
    BY <2>1 DEF PollState
  <2>3. UNCHANGED <<sem, p>>
    BY <1>4 DEF StartPollThreads, storeVars
  <2> QED BY <2>2, <2>3 DEF PlaceTypes
<1>5. ASSUME NEW h \in Handles, \/ LidarInfoChange(h) \/ BeginInsert(h)
                                \/ \E k \in Setting : SettingAnswered(h, k)
      PROVE  PlaceTypes'
  BY <1>1, <1>5 DEF LidarInfoChange, BeginInsert, SettingAnswered, storeVars, pollVars
<1>6. ASSUME NEW k \in Kind, \/ Producer(k) \/ PollThread(k)
                             \/ \E h \in Handles : Store(k, h)
      PROVE  PlaceTypes'
  BY <1>6, ProducerPlaces, PollPlaces
<1> QED BY <1>2, <1>3, <1>4, <1>5, <1>6, Zenon DEF Next, Startup

(* The variables of the node keep their types: indexes stay in the table,   *)
(* a semaphore is never below zero, and no thread leaves the places.        *)
THEOREM TypeCorrect == Spec => []TypeOK
<1>1. Init => PlaceTypes
  BY DEF Init, PlaceTypes, ProducerState, Slot, Kind
<1>2. DriverInv /\ PlaceTypes /\ [Next]_vars => (DriverInv /\ PlaceTypes)'
  BY DriverStep, PlacesStep
<1>3. DriverInv /\ PlaceTypes => TypeOK
  <2> SUFFICES ASSUME DriverInv, PlaceTypes, NEW k \in Kind
               PROVE  /\ \A i \in Slot : queue[k][i] \in Seq(Sample)
                      /\ sem[k] \in Nat /\ p[k].at \in Slot /\ c[k].at \in 0..SlotCount
                      /\ c[k].hand \in Sample
                      /\ pubs[k] \in [Slot -> Handles \cup {NoHandle, NoTopic}]
    BY DEF TypeOK, DriverInv, SetupInv, IndexTypes
  <2>1. DataTypes
    BY DEF DriverInv, SetupInv
  <2>2. \A s \in DriverSample : s \in Sample
    BY DEF DriverSample, Sample
  <2>3. ASSUME NEW i \in Slot PROVE queue[k][i] \in Seq(Sample)
    <3>1. queue[k][i] \in Seq(DriverSample)
      BY <2>1, DataParts
    <3> QED BY <2>2, <3>1
  <2>4. c[k].hand \in Sample
    <3>1. c[k].hand \in DriverSample \cup {NotHere}
      BY <2>1, DataParts DEF PollState
    <3>2. NotHere \in Sample
      BY DEF NotHere, Sample
    <3> QED BY <2>2, <3>1, <3>2
  <2>5. sem[k] \in Nat /\ p[k].at \in Slot /\ c[k].at \in 0..SlotCount
    BY DEF PlaceTypes, ProducerState
  <2>6. pubs[k] \in [Slot -> Handles \cup {NoHandle, NoTopic}]
    BY <2>1 DEF DataTypes
  <2> QED BY <2>3, <2>4, <2>5, <2>6
<1> QED BY <1>1, <1>2, <1>3, DriverInit, PTL DEF Spec
-----------------------------------------------------------------------------
(* LidarConfig, for any settings and any bound on the commands under way.   *)

(* config_mutex_ is held exactly while the settings are being sent.         *)
LockInv == config_mutex => pc = "set"

(* Before LidarInfoChangeCallback runs, and for a lidar that is not in the  *)
(* configuration, no setting is under way and no bit is set.                *)
QuietInv ==
  pc = "idle" \/ ~known =>
    /\ connect_state = "Off" /\ set_bits = {}
    /\ \A k \in Key : outstanding[k] = 0 /\ retry[k] = 0

(* While settings are sent the lock is held; a setting is still to be sent, *)
(* has its bit set or was answered.                                         *)
BitsInv ==
  /\ pc = "set" => known /\ config_mutex /\ connect_state = "Off"
  /\ pc \notin {"idle", "set"} => left = {}
  /\ pc # "idle" /\ known => Key \subseteq left \cup set_bits \cup acked

ConfigInv == ConfigTypeOK /\ LockInv /\ QuietInv /\ BitsInv /\ SamplingMeansAnswered

USE KeyAssumption, MaxOutstandingAssumption

LEMMA ConfigInvInit == ConfigInit => ConfigInv
<1> SUFFICES ASSUME ConfigInit PROVE ConfigInv
  OBVIOUS
<1>1. ConfigTypeOK
  <2>1. 0 \in 0..MaxOutstanding
    OBVIOUS
  <2>2. outstanding \in [Command -> 0..MaxOutstanding] /\ retry \in [Command -> Nat]
    BY <2>1 DEF ConfigInit
  <2>3. known \in BOOLEAN /\ hap \in BOOLEAN /\ config_mutex \in BOOLEAN /\ crashed \in BOOLEAN
    BY Zenon DEF ConfigInit
  <2> QED BY <2>2, <2>3, Zenon DEF ConfigInit, ConfigTypeOK
<1>2. LockInv /\ QuietInv /\ SamplingMeansAnswered
  BY DEF ConfigInit, LockInv, QuietInv, SamplingMeansAnswered, Command
<1>3. BitsInv
  BY DEF ConfigInit, BitsInv
<1> QED BY <1>1, <1>2, <1>3 DEF ConfigInv

(* A command sent keeps the counts of commands and retries in their range.  *)
LEMMA SendType ==
  ASSUME ConfigTypeOK, NEW k \in Command, NEW resend \in BOOLEAN, Send(k, resend),
         resend => retry[k] > 0
  PROVE  /\ outstanding' \in [Command -> 0..MaxOutstanding]
         /\ retry' \in [Command -> Nat]
         /\ crashed' \in BOOLEAN
         /\ \A j \in Command : j # k => outstanding'[j] = outstanding[j] /\ retry'[j] = retry[j]
         /\ k \in Key => retry'[k] <= retry[k]
<1>1. outstanding[k] \in 0..MaxOutstanding /\ retry[k] \in Nat
  BY DEF ConfigTypeOK
<1>2. outstanding[k] + 1 \in 0..MaxOutstanding
  BY <1>1 DEF Send
<1> DEFINE owed == IF resend THEN retry[k] - 1 ELSE retry[k]
<1>3. owed \in Nat /\ owed <= retry[k]
  BY <1>1
<1>4. \/ retry' = [retry EXCEPT ![k] = owed] /\ UNCHANGED crashed
      \/ /\ retry' = [retry EXCEPT ![k] = IF k = "work_mode" THEN owed + 1 ELSE owed]
         /\ crashed' = (k \in Key)
  BY DEF Send
<1>5. outstanding' = [outstanding EXCEPT ![k] = outstanding[k] + 1]
  BY DEF Send
<1> HIDE DEF owed
<1>6. /\ outstanding' \in [Command -> 0..MaxOutstanding]
      /\ \A j \in Command : j # k => outstanding'[j] = outstanding[j]
  BY <1>2, <1>5 DEF ConfigTypeOK
<1>7. retry' \in [Command -> Nat] /\ \A j \in Command : j # k => retry'[j] = retry[j]
  BY <1>3, <1>4 DEF ConfigTypeOK
<1>8. crashed' \in BOOLEAN
  <2>1. crashed \in BOOLEAN
    BY DEF ConfigTypeOK
  <2>2. (k \in Key) \in BOOLEAN
    OBVIOUS
  <2>3. crashed' = crashed \/ crashed' = (k \in Key)
    BY <1>4
  <2> QED BY <2>1, <2>2, <2>3, Zenon
<1>9. k \in Key => retry'[k] <= retry[k]
  <2> SUFFICES ASSUME k \in Key PROVE retry'[k] <= retry[k]
    OBVIOUS
  <2>1. k # "work_mode"
    BY DEF Others
  <2> QED BY <1>1, <1>3, <1>4, <2>1 DEF ConfigTypeOK
<1> QED BY <1>6, <1>7, <1>8, <1>9

(* A verdict takes at most one command off the count.                       *)
LEMMA VerdictType ==
  ASSUME ConfigTypeOK, NEW k \in Command, Verdict(k)
  PROVE  /\ outstanding' \in [Command -> 0..MaxOutstanding]
         /\ \A j \in Command : outstanding[j] = 0 => outstanding'[j] = 0
         /\ outstanding[k] # 0
<1>1. outstanding[k] \in 0..MaxOutstanding
  BY DEF ConfigTypeOK
<1> QED BY <1>1 DEF ConfigTypeOK, Verdict

LEMMA InfoChangeStep ==
  ASSUME ConfigInv, InfoChange
  PROVE  ConfigInv'
<1> USE DEF ConfigInv, ConfigTypeOK, LockInv, QuietInv, BitsInv, SamplingMeansAnswered
<1>1. CASE LidarInfoChangeCallback
  BY <1>1 DEF LidarInfoChangeCallback, cbVars, kindOf, Others, Command
<1>2. CASE EndSet
  BY <1>2 DEF EndSet, cbVars, kindOf, Others, Command
<1>3. ASSUME NEW k \in Key, SetBit(k) PROVE ConfigInv'
  <2>1. k \in Command /\ Send(k, FALSE)
    BY <1>3 DEF SetBit, Command
  <2>2. /\ outstanding' \in [Command -> 0..MaxOutstanding] /\ retry' \in [Command -> Nat]
        /\ crashed' \in BOOLEAN
    BY <2>1, SendType
  <2> QED BY <1>3, <2>2 DEF SetBit, kindOf, Others
<1>4. ASSUME NEW k \in Others, SendOther(k) PROVE ConfigInv'
  <2>1. k \in Command /\ Send(k, FALSE)
    BY <1>4 DEF SendOther, Command
  <2>2. /\ outstanding' \in [Command -> 0..MaxOutstanding] /\ retry' \in [Command -> Nat]
        /\ crashed' \in BOOLEAN
        /\ \A j \in Key : outstanding'[j] = outstanding[j] /\ retry'[j] = retry[j]
    BY <2>1, SendType DEF Command
  <2>3. pc' \in {"work_mode", "imu", "done"} /\ pc = k
    BY <1>4 DEF SendOther, Others
  <2> QED BY <1>4, <2>2, <2>3 DEF SendOther, kindOf, Others
<1> QED BY <1>1, <1>2, <1>3, <1>4 DEF InfoChange

LEMMA ConfigCallbackStep ==
  ASSUME ConfigInv, NEW k \in Command, Success(k) \/ Timeout(k) \/ Resend(k)
  PROVE  ConfigInv'
<1> USE DEF ConfigInv
<1>1. CASE Success(k)
  <2>1. /\ outstanding' \in [Command -> 0..MaxOutstanding]
        /\ \A j \in Command : outstanding[j] = 0 => outstanding'[j] = 0
        /\ outstanding[k] # 0
    BY <1>1, VerdictType DEF Success
  <2>2. CASE k \in Key
    <3>1. known /\ pc \notin {"idle", "set"} /\ left = {}
      BY <1>1, <2>1, <2>2 DEF Success, QuietInv, BitsInv
    <3> QED
      BY <1>1, <2>1, <2>2, <3>1
      DEF Success, icVars, kindOf, ConfigTypeOK, LockInv, QuietInv, BitsInv,
        SamplingMeansAnswered, Command
  <2>3. CASE k \notin Key
    BY <1>1, <2>1, <2>3
    DEF Success, icVars, kindOf, ConfigTypeOK, LockInv, QuietInv, BitsInv,
        SamplingMeansAnswered, Command
  <2> QED BY <2>2, <2>3
<1>2. CASE Timeout(k)
  <2>1. /\ outstanding' \in [Command -> 0..MaxOutstanding]
        /\ \A j \in Command : outstanding[j] = 0 => outstanding'[j] = 0
        /\ outstanding[k] # 0
    BY <1>2, VerdictType DEF Timeout
  <2>2. retry' \in [Command -> Nat] /\ \A j \in Command : j # k => retry'[j] = retry[j]
    BY <1>2 DEF Timeout, ConfigTypeOK
  <2> QED
    BY <1>2, <2>1, <2>2
    DEF Timeout, icVars, kindOf, ConfigTypeOK, LockInv, QuietInv, BitsInv,
        SamplingMeansAnswered, Command
<1>3. CASE Resend(k)
  <2>1. retry[k] # 0
    BY <1>3 DEF Resend, ConfigTypeOK
  <2>2. /\ outstanding' \in [Command -> 0..MaxOutstanding] /\ retry' \in [Command -> Nat]
        /\ crashed' \in BOOLEAN
        /\ \A j \in Command : j # k => outstanding'[j] = outstanding[j] /\ retry'[j] = retry[j]
    BY <1>3, SendType DEF Resend
  <2> QED
    BY <1>3, <2>1, <2>2
    DEF Resend, icVars, kindOf, ConfigTypeOK, LockInv, QuietInv, BitsInv,
        SamplingMeansAnswered, Command
<1> QED BY <1>1, <1>2, <1>3

LEMMA ConfigInvStep == ConfigInv /\ [ConfigNext]_configVars => ConfigInv'
<1> SUFFICES ASSUME ConfigInv, [ConfigNext]_configVars PROVE ConfigInv'
  OBVIOUS
<1>1. CASE UNCHANGED configVars
  BY <1>1 DEF configVars, icVars, kindOf, cbVars, ConfigInv, ConfigTypeOK, LockInv,
              QuietInv, BitsInv, SamplingMeansAnswered
<1> QED BY <1>1, InfoChangeStep, ConfigCallbackStep DEF ConfigNext

(* Every variable of LidarConfig keeps its type.                            *)
THEOREM ConfigTypeCorrect == ConfigSpec => []ConfigTypeOK
<1> QED BY ConfigInvInit, ConfigInvStep, PTL DEF ConfigSpec, ConfigInv

(* However answers, time-outs and second verdicts fall between the steps of *)
(* LidarInfoChangeCallback, a lidar is Sampling only when every setting was *)
(* answered.                                                                *)
THEOREM SamplingIsAnswered == ConfigSpec => []SamplingMeansAnswered
<1>1. ConfigInv => SamplingMeansAnswered
  BY DEF ConfigInv
<1> QED BY <1>1, ConfigInvInit, ConfigInvStep, PTL DEF ConfigSpec

(* Has LidarInfoChangeCallback still to send the command of kind k?         *)
Unsent(k) ==
  \/ pc = "idle"
  \/ k \in left
  \/ (pc = "set" /\ k \in Others)
  \/ (k = "attitude"  /\ pc = "attitude")
  \/ (k = "work_mode" /\ pc \in {"attitude", "work_mode"})
  \/ (k = "imu"       /\ pc \in {"attitude", "work_mode", "imu"})

(* A command is with the lidar or with the callback that sends it again,    *)
(* and before it is sent with neither.                                      *)
OnceInv ==
  ~hap /\ ~SendMayFail =>
    \A k \in Command : /\ outstanding[k] + retry[k] <= 1
                       /\ Unsent(k) => outstanding[k] = 0 /\ retry[k] = 0

(* A send that does not fail moves a command from the callback to the lidar.*)
LEMMA SendOnce ==
  ASSUME ConfigTypeOK, ~SendMayFail, NEW k \in Command, NEW resend \in BOOLEAN,
         Send(k, resend), resend => retry[k] > 0
  PROVE  /\ \A j \in Command : j # k => outstanding'[j] = outstanding[j] /\ retry'[j] = retry[j]
         /\ resend => outstanding'[k] + retry'[k] = outstanding[k] + retry[k]
         /\ ~resend => outstanding'[k] + retry'[k] = outstanding[k] + retry[k] + 1
<1>1. outstanding[k] \in 0..MaxOutstanding /\ retry[k] \in Nat
  BY DEF ConfigTypeOK
<1>2. outstanding' = [outstanding EXCEPT ![k] = outstanding[k] + 1]
  BY DEF Send
<1>3. retry' = [retry EXCEPT ![k] = IF resend THEN retry[k] - 1 ELSE retry[k]]
  BY DEF Send
<1> QED BY <1>1, <1>2, <1>3 DEF ConfigTypeOK

LEMMA OnceStep ==
  ASSUME ConfigInv, OnceInv, [ConfigNext]_configVars
  PROVE  OnceInv'
<1> SUFFICES ASSUME ~hap, ~SendMayFail
             PROVE  \A k \in Command :
                      /\ outstanding'[k] + retry'[k] <= 1
                      /\ Unsent(k)' => outstanding'[k] = 0 /\ retry'[k] = 0
  <2>1. hap' = hap
    BY DEF ConfigNext, InfoChange, LidarInfoChangeCallback, EndSet, SetBit, SendOther,
       Success, Timeout, Resend, kindOf, configVars
  <2> QED BY <2>1 DEF OnceInv
<1>0. /\ ConfigTypeOK
      /\ \A k \in Command : /\ outstanding[k] \in Nat /\ retry[k] \in Nat
                            /\ outstanding[k] + retry[k] <= 1
                            /\ Unsent(k) => outstanding[k] = 0 /\ retry[k] = 0
  BY DEF OnceInv, ConfigInv, ConfigTypeOK
<1>1. CASE UNCHANGED configVars
  BY <1>0, <1>1 DEF configVars, icVars, cbVars, Unsent
<1>2. CASE LidarInfoChangeCallback
  BY <1>0, <1>2 DEF LidarInfoChangeCallback, cbVars, Unsent
<1>3. CASE EndSet
  <2>1. \A k \in Command : Unsent(k)' => Unsent(k)
    BY <1>3 DEF EndSet, Unsent, Others
  <2>2. outstanding' = outstanding /\ retry' = retry
    BY <1>3 DEF EndSet, cbVars
  <2> QED BY <1>0, <2>1, <2>2
<1>4. ASSUME NEW k \in Key, SetBit(k), NEW j \in Command
      PROVE  /\ outstanding'[j] + retry'[j] <= 1
             /\ Unsent(j)' => outstanding'[j] = 0 /\ retry'[j] = 0
  <2>1. k \in Command /\ Send(k, FALSE) /\ k \notin Others
    BY <1>4 DEF SetBit, Command
  <2>2. /\ j # k => outstanding'[j] = outstanding[j] /\ retry'[j] = retry[j]
        /\ outstanding'[k] + retry'[k] = outstanding[k] + retry[k] + 1
    BY <1>0, <2>1, SendOnce
  <2>3. pc = "set" /\ pc' = pc /\ k \in left /\ left' = left \ {k}
    BY <1>4 DEF SetBit
  <2>4. Unsent(k) /\ ~Unsent(k)' /\ (Unsent(j)' => Unsent(j))
    BY <2>1, <2>3 DEF Unsent, Others
  <2> QED BY <1>0, <2>1, <2>2, <2>4
<1>5. ASSUME NEW k \in Others, SendOther(k), NEW j \in Command
      PROVE  /\ outstanding'[j] + retry'[j] <= 1
             /\ Unsent(j)' => outstanding'[j] = 0 /\ retry'[j] = 0
  <2>1. k \in Command /\ Send(k, FALSE)
    BY <1>5 DEF SendOther, Command
  <2>2. /\ j # k => outstanding'[j] = outstanding[j] /\ retry'[j] = retry[j]
        /\ outstanding'[k] + retry'[k] = outstanding[k] + retry[k] + 1
    BY <1>0, <2>1, SendOnce
  <2>3. left = {} /\ left' = left /\ pc = k
    BY <1>5 DEF SendOther, ConfigInv, BitsInv, Others
  <2>4. pc' = CASE k = "attitude" -> "work_mode" [] k = "work_mode" -> "imu" [] k = "imu" -> "done"
    BY <1>5 DEF SendOther
  <2>5. Unsent(k) /\ ~Unsent(k)' /\ (Unsent(j)' => Unsent(j))
    BY <2>3, <2>4 DEF Unsent, Others
  <2> QED BY <1>0, <2>1, <2>2, <2>5
<1>6. ASSUME NEW k \in Command, Success(k) \/ Timeout(k) \/ Resend(k), NEW j \in Command
      PROVE  /\ outstanding'[j] + retry'[j] <= 1
             /\ Unsent(j)' => outstanding'[j] = 0 /\ retry'[j] = 0
  <2>1. Unsent(j)' = Unsent(j)
    BY <1>6 DEF Success, Timeout, Resend, icVars, Unsent
  <2>2. CASE Success(k) \/ Timeout(k)
    <3>1. outstanding' = [outstanding EXCEPT ![k] = outstanding[k] - 1] /\ outstanding[k] > 0
      BY <2>2 DEF Success, Timeout, Verdict
    <3>2. \/ retry' = retry
          \/ retry' = [retry EXCEPT ![k] = IF k = "imu" THEN retry[k] ELSE retry[k] + 1]
      BY <2>2 DEF Success, Timeout
    <3> QED BY <1>0, <2>1, <3>1, <3>2 DEF ConfigTypeOK
  <2>3. CASE Resend(k)
    <3>1. Send(k, TRUE) /\ retry[k] > 0
      BY <2>3 DEF Resend
    <3>2. /\ j # k => outstanding'[j] = outstanding[j] /\ retry'[j] = retry[j]
          /\ outstanding'[k] + retry'[k] = outstanding[k] + retry[k]
      BY <1>0, <3>1, SendOnce
    <3> QED BY <1>0, <2>1, <3>1, <3>2
  <2> QED BY <1>6, <2>2, <2>3
<1> QED BY <1>1, <1>2, <1>3, <1>4, <1>5, <1>6 DEF ConfigNext, InfoChange

(* A command is never under way twice, however answers, time-outs and the   *)
(* retries from the callbacks race LidarInfoChangeCallback, if no send      *)
(* fails and the handler enters a command once.                             *)
THEOREM NeverTwiceUnderWay == ConfigSpec => []OneUnderWay
<1>1. ConfigInit => OnceInv
  BY DEF ConfigInit, OnceInv, Command
<1>2. ConfigInv /\ OnceInv /\ [ConfigNext]_configVars => (ConfigInv /\ OnceInv)'
  BY ConfigInvStep, OnceStep
<1>3. OnceInv => OneUnderWay
  BY DEF OnceInv, OneUnderWay
<1> QED BY <1>1, <1>2, <1>3, ConfigInvInit, PTL DEF ConfigSpec
=============================================================================
