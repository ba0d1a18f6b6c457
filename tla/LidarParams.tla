---------------------------- MODULE LidarParams ----------------------------
(***************************************************************************)
(* The parameters of one lidar, from the configuration file and the API to *)
(* the lidar, and back as pushed state: the checks of the configuration,   *)
(* the requests the SDK builds, the sockets it opens for the answers, the  *)
(* dispatch of what arrives, the parser of pushed state and its report.    *)
(*                                                                         *)
(* A value is a sequence: <<n>> for a number or a structure, <<address,    *)
(* host port, lidar port>> for a flow.  A text is the sequence of the      *)
(* numbers between its dots, octets are what becomes of them.  Names start *)
(* with Params where LidarBringUp has the same, for LidarBringUp_proofs.   *)
(***************************************************************************)
EXTENDS Integers, Sequences, Functions, SequencesExt

CONSTANTS
  Configs,        \* what a file and a lidar may look like, see Config
  Texts,          \* texts given for addresses
  HostPorts,      \* ports given to the setters
  LidarPorts,     \* and ports of the lidar
  FactoryPort,    \* the host port a lidar comes with
  UintModulus,    \* 2^32 in the code
  MaxCalls,       \* bound: calls of the setters
  MaxUpdates,     \* bound: configuration requests
  MaxPushes       \* bound: pushed states

DevType  == {"HAP", "Mid360", "Mid360s", "Avia2"}
PortName == {"cmd_data_port", "push_msg_port", "point_data_port", "imu_data_port", "log_data_port"}

(* host and lidar are missing the ports that the file does not give as     *)
(* numbers; not_string names the addresses that are not strings.           *)
Config(c) == /\ c.dev_type \in DevType
             /\ c.is_view \in BOOLEAN
             /\ DOMAIN c.host \subseteq PortName
             /\ DOMAIN c.lidar \subseteq PortName
             /\ DOMAIN c.address \subseteq {"host_ip", "cmd_data_ip", "multicast_ip"}
             /\ \A name \in DOMAIN c.address : c.address[name] \in Seq(Nat)
             /\ c.is_view => "host_ip" \in DOMAIN c.address
             /\ c.not_string \subseteq DOMAIN c.address
ASSUME ConfigsAssumption == \A c \in Configs : Config(c)
ASSUME TextsAssumption == Texts \subseteq Seq(Nat)
ASSUME BoundsAssumption == /\ {MaxCalls, MaxUpdates, MaxPushes} \subseteq Nat
                           /\ UintModulus \in Nat \ {0}

VARIABLES
  cfg,            \* the file, and the lidar it is about
  phase,          \* "off", "up" or "refused"
  lidar_net_info, \* the lidar's ports, as configured
  channel_info_,  \* sockets: where each address and port is bound
  view,           \* view_lidars_info_[handle], <<>> when there is none
  devices_,       \* was an update acknowledged?
  held,           \* the lidar's parameters
  wire,           \* messages on their way
  report,         \* the last state told to the application, and its packet
  calls, updates, pushes

paramsVars == <<cfg, phase, lidar_net_info, channel_info_, view, devices_, held,
                wire, report, calls, updates, pushes>>

Ports(cmd, push, point, imu, log) ==
  [cmd_data_port |-> cmd, push_msg_port |-> push, point_data_port |-> point,
   imu_data_port |-> imu, log_data_port |-> log]
kDetectionPort == 56000
kPaLidarFaultPort == 10001
kHostDebugPointCloudPort == 44332
LidarPort == [HAP     |-> Ports(56000, 56000, 57000, 58000, 59000),
              Mid360  |-> Ports(56100, 56200, 56300, 56400, 56500),
              Mid360s |-> Ports(56100, 56200, 56300, 56400, 56500),
              Avia2   |-> Ports(56100, 56200, 56300, 56400, 56500)]

Broadcast == <<255, 255, 255, 255>>

(* One table with the entries of two.                                       *)
Joined(f, g) == [x \in DOMAIN f \cup DOMAIN g |-> IF x \in DOMAIN f THEN f[x] ELSE g[x]]

(* ParamKeyName: the parameters of a lidar, and those of its status.        *)
Status ==
  {"Sn", "ProductInfo", "VersionApp", "VersionLoader", "VersionHardware", "Mac", "CurWorkState",
   "CoreTemp", "PowerUpCnt", "LocalTimeNow", "LastSyncTime", "TimeOffset", "TimeSyncType",
   "StatusCode", "LidarDiagStatus", "LidarFlashStatus", "FwType", "HmsCode",
   "CurGlassHeatState", "RoiMode"}
ParamKeyName ==
  {"PclDataType", "PatternMode", "DualEmitEn", "PointSendEn", "LidarIpCfg",
   "StateInfoHostIpCfg", "LidarPointDataHostIpCfg", "LidarImuHostIpCfg", "CtlHostIpCfg",
   "LogHostIpCfg", "VehicleSpeed", "EnvironmentTemp", "InstallAttitude", "BlindSpotSet",
   "FrameRate", "FovCfg0", "FovCfg1", "FovCfgEn", "DetectMode", "FuncIoCfg", "WorkMode",
   "GlassHeat", "ImuDataEn", "FusaEn", "ForceHeatEn", "WorkModeAfterBoot", "SetEscMode",
   "SetFovMode", "SetEchoMode", "SetNTPServerIp", "SetPpsSyncMode", "SetITOCtrl",
   "SetFogNoiseFilter", "SetImuRange", "LogParamSet"} \cup Status

(* What the parser copies from a packet to each field of a report.         *)
FieldSize ==
  [pcl_data_type |-> 1, pattern_mode |-> 1, dual_emit_en |-> 1, point_send_en |-> 1,
   lidar_ipcfg |-> 12, host_state_info |-> 8, pointcloud_host_ipcfg |-> 8,
   imu_host_ipcfg |-> 8, ctl_host_ipcfg |-> 8, log_host_ipcfg |-> 8,
   vehicle_speed |-> 4, environment_temp |-> 4, install_attitude |-> 24,
   blind_spot_set |-> 4, frame_rate |-> 1, fov_cfg0 |-> 20, fov_cfg1 |-> 20,
   fov_cfg_en |-> 1, detect_mode |-> 1, func_io_cfg |-> 4, work_tgt_mode |-> 1,
   glass_heat |-> 1, imu_data_en |-> 1, fusa_en |-> 1, esc_mode |-> 1, fov_mode |-> 1,
   echo_mode |-> 1, ntp_server_ip |-> 4, ito_mode |-> 1, fog_noise_filter |-> 1,
   sn |-> 16, product_info |-> 64, version_app |-> 4, version_loader |-> 4,
   version_hardware |-> 4, mac |-> 6, cur_work_state |-> 1, core_temp |-> 4,
   powerup_cnt |-> 4, local_time_now |-> 8, last_sync_time |-> 8, time_offset |-> 8,
   time_sync_type |-> 1, status_code |-> 32, lidar_diag_status |-> 2,
   lidar_flash_status |-> 1, fw_type |-> 1, hms_code |-> 32, ROI_Mode |-> 1,
   imu_range |-> 3]

(* The parameters a lidar of each type is asked for.                       *)
InternalInfoKeys ==
  LET All == {"PclDataType", "LidarIpCfg", "LidarPointDataHostIpCfg", "LidarImuHostIpCfg",
              "WorkMode", "ImuDataEn", "Sn", "VersionApp", "VersionLoader", "CurWorkState",
              "FwType"}
      Mid360 == All \cup
             {"PatternMode", "StateInfoHostIpCfg", "InstallAttitude", "FovCfg0", "FovCfg1",
              "FovCfgEn", "DetectMode", "FuncIoCfg", "ProductInfo", "VersionHardware", "Mac",
              "CoreTemp", "PowerUpCnt", "LocalTimeNow", "LastSyncTime", "TimeOffset",
              "TimeSyncType", "LidarDiagStatus", "HmsCode"}
  IN [HAP     |-> All \cup
             {"PatternMode", "DualEmitEn", "PointSendEn", "LogHostIpCfg", "InstallAttitude",
              "BlindSpotSet", "GlassHeat", "FusaEn", "ForceHeatEn", "ProductInfo",
              "VersionHardware", "Mac", "StatusCode", "LidarDiagStatus", "LidarFlashStatus",
              "CurGlassHeatState"},
      Mid360  |-> Mid360,
      Mid360s |-> Mid360 \cup {"SetEscMode", "SetImuRange"},
      Avia2   |-> All \cup
             {"StateInfoHostIpCfg", "SetFovMode", "SetEchoMode", "SetNTPServerIp",
              "SetITOCtrl", "SetFogNoiseFilter", "CoreTemp", "HmsCode"}]

-----------------------------------------------------------------------------
(* Reading the configuration. *)

(* 256 passes and becomes 0.  To inet_addr it is no address: INADDR_NONE.  *)
IpIsGood(text) == Len(text) = 4 /\ \A i \in 1..4 : text[i] \in 0..256
IpToU8(text)   == [i \in DOMAIN text |-> text[i] % 256]
InetAddr(text) == IF 256 \in Range(text) THEN Broadcast ELSE text

ParseLidarNetInfo(c) == DOMAIN c.lidar = PortName
ParseHostNetInfo(c) == /\ DOMAIN c.address \cap {"host_ip", "cmd_data_ip"} # {}
                       /\ c.not_string = {}
                       /\ DOMAIN c.host = PortName
HostIp(c) == IF "host_ip" \in DOMAIN c.address THEN c.address.host_ip ELSE c.address.cmd_data_ip
MulticastIp(c) == IF "multicast_ip" \in DOMAIN c.address THEN c.address.multicast_ip ELSE <<>>
HostPort(c, name) == c.host[name] % 65536

CheckLidarMulticastIp(text) ==
  \/ text = <<>>
  \/ /\ IpIsGood(text)
     /\ IpToU8(text)[1] \in 224..239
     /\ IpToU8(text) # <<224, 0, 0, 0>>

(* Mutant: the ports of a Mid360s are not put right. *)
CheckPort_Mid360Only(dev_type, ports) ==
  IF dev_type = "Mid360" THEN LidarPort[dev_type] ELSE [name \in PortName |-> ports[name] % 65536]

(* Only two types have their ports put right. *)
CheckPort(dev_type, ports) ==
  IF dev_type \in {"Mid360", "Mid360s"}
  THEN LidarPort[dev_type]
  ELSE [name \in PortName |-> ports[name] % 65536]

-----------------------------------------------------------------------------
(* The sockets: channel_info_ gives the address each one is bound to.  Its  *)
(* keys are made of texts; here those that are no address are one key, as   *)
(* they are one address to bind.                                           *)

Open(channels, host, port, bound) ==
  [c \in DOMAIN channels \cup {<<host, port>>} |->
     IF c \in DOMAIN channels THEN channels[c] ELSE bound]

CreateDataSocket(channels, host, port, multicast) ==
  IF port \in {0, kDetectionPort} THEN channels
  ELSE Open(channels, host, port, IF multicast = <<>> THEN host ELSE InetAddr(multicast))

CreateCmdSocket(channels, host, port) ==
  IF port = 0 THEN channels ELSE Open(channels, host, port, host)

CreateDetectionChannel(host) ==
  Open(Open(<<>>, host, kDetectionPort, host), Broadcast, kDetectionPort, Broadcast)

CreateDataChannel(channels, c) ==
  LET With(open, port) == CreateDataSocket(open, InetAddr(HostIp(c)), port, MulticastIp(c))
  IN With(With(With(channels, HostPort(c, "point_data_port")), HostPort(c, "imu_data_port")),
          kHostDebugPointCloudPort)

(* The types that may push their state by broadcast have a socket for it.  *)
CreateCommandChannel(channels, c) ==
  LET host == InetAddr(HostIp(c))
      push == HostPort(c, "push_msg_port")
      open == CreateCmdSocket(CreateCmdSocket(channels, host, HostPort(c, "cmd_data_port")), host, push)
  IN IF c.dev_type = "HAP" THEN open ELSE Open(open, Broadcast, push, Broadcast)

CreateChannel(c) ==
  CreateCommandChannel(CreateDataChannel(CreateDetectionChannel(InetAddr(HostIp(c))), c), c)

(* A packet to the address and port comes out of a socket (the kernel).    *)
Reaches(address, port) ==
  \E channel \in DOMAIN channel_info_ : channel[2] = port /\ channel_info_[channel] = address

(* No socket can be bound to what is not an address of the host, but one    *)
(* can to INADDR_NONE (the kernel).  Texts with numbers above 256, also    *)
(* INADDR_NONE, are left out: they are refused.                            *)
LivoxLidarSdkInit ==
  /\ phase = "off"
  /\ IF cfg.is_view /\ IpIsGood(HostIp(cfg))
     THEN /\ phase' = "up"
          /\ channel_info_' = CreateDetectionChannel(InetAddr(HostIp(cfg)))
          /\ UNCHANGED lidar_net_info
     ELSE IF /\ ~cfg.is_view
             /\ ParseLidarNetInfo(cfg)
             /\ ParseHostNetInfo(cfg)
             /\ CheckLidarMulticastIp(MulticastIp(cfg))
             /\ IpIsGood(HostIp(cfg))
          THEN /\ phase' = "up"
               /\ lidar_net_info' = CheckPort(cfg.dev_type, cfg.lidar)
               /\ channel_info_' = CreateChannel(cfg)
          ELSE /\ phase' = "refused"
               /\ UNCHANGED <<lidar_net_info, channel_info_>>
  /\ UNCHANGED <<cfg, view, devices_, held, wire, report, calls, updates, pushes>>

-----------------------------------------------------------------------------
(* Requests. *)

(* A parameter as it travels; by and arg are history, who set it to what.  *)
KeyValue(key, length, value, by, arg) ==
  [key |-> key, length |-> length, value |-> value, by |-> by, arg |-> arg]
Request(key_num, kvs, by) == [kind |-> "set", key_num |-> key_num, kvs |-> kvs, by |-> by]

Flow(key, address, host_port, lidar_port) ==
  KeyValue(key, 8, <<IpToU8(address), host_port, lidar_port>>, "sdk", <<address, host_port, lidar_port>>)

(* InitHostIpAddr and InitMulticastHostIpAddr.                             *)
CanBuild(c) == IpIsGood(HostIp(c)) /\ (MulticastIp(c) # <<>> => IpIsGood(MulticastIp(c)))
ToHost(c) == IF MulticastIp(c) = <<>> THEN HostIp(c) ELSE MulticastIp(c)
BuildUpdateMid360LidarCfgRequest(c) ==
  Request(3, <<Flow("StateInfoHostIpCfg", ToHost(c), HostPort(c, "push_msg_port"), 56200),
               Flow("LidarPointDataHostIpCfg", ToHost(c), HostPort(c, "point_data_port"), 56300),
               Flow("LidarImuHostIpCfg", ToHost(c), HostPort(c, "imu_data_port"), 56400)>>, "sdk")
BuildUpdateAvia2LidarCfgRequest(c) ==
  LET from == LidarPort.Avia2 IN
  Request(3, <<Flow("StateInfoHostIpCfg", ToHost(c), HostPort(c, "push_msg_port"), from.push_msg_port),
               Flow("LidarPointDataHostIpCfg", ToHost(c), HostPort(c, "point_data_port"), from.point_data_port),
               Flow("LidarImuHostIpCfg", ToHost(c), HostPort(c, "imu_data_port"), from.imu_data_port)>>, "sdk")
BuildUpdateLidarCfgRequest(c) ==
  LET from == LidarPort[c.dev_type] IN
  Request(2, <<Flow("LidarPointDataHostIpCfg", ToHost(c), HostPort(c, "point_data_port"), from.point_data_port),
               Flow("LidarImuHostIpCfg", ToHost(c), HostPort(c, "imu_data_port"), from.imu_data_port)>>, "sdk")
BuildUpdateViewLidarCfgRequest(c, v) ==
  Request(2, <<Flow("LidarPointDataHostIpCfg", HostIp(c), v.host_point_port, v.lidar_point_port),
               Flow("LidarImuHostIpCfg", HostIp(c), v.host_imu_data_port, v.lidar_imu_data_port)>>, "sdk")

(* A setter's parameter, the length it writes, which of its arguments are  *)
(* addresses, and the arguments it may be given.                           *)
Setter(key, length, addresses, args) ==
  [key |-> key, length |-> length, addresses |-> addresses, args |-> args]
Byte(key, values) == Setter(key, 1, {}, {<<v>> : v \in values})
Struct(key, length, values) == Setter(key, length, {}, {<<v>> : v \in values})
Switch == {0, 1}

ModeSetters ==
  [SetLivoxLidarPclDataType    |-> Byte("PclDataType", 0..2),
   SetLivoxLidarScanPattern    |-> Byte("PatternMode", Switch),
   SetLivoxLidarDualEmit       |-> Byte("DualEmitEn", Switch),
   EnableLivoxLidarPointSend   |-> Byte("PointSendEn", {0}),
   DisableLivoxLidarPointSend  |-> Byte("PointSendEn", {1})]
AddressSetters ==
  LET flow == {<<t, h, l>> : t \in Texts, h \in HostPorts, l \in LidarPorts}
  IN [SetLivoxLidarIp                 |-> Setter("LidarIpCfg", 12, {1, 2, 3}, {<<t, u, t>> : t, u \in Texts}),
      SetLivoxLidarStateInfoHostIPCfg |-> Setter("StateInfoHostIpCfg", 8, {1}, flow),
      SetLivoxLidarPointDataHostIPCfg |-> Setter("LidarPointDataHostIpCfg", 8, {1}, flow),
      SetLivoxLidarImuDataHostIPCfg   |-> Setter("LidarImuHostIpCfg", 8, {1}, flow)]
(* -1 stands for an attitude whose offsets are negative. *)
GeometrySetters ==
  [SetLivoxLidarInstallAttitude |-> Struct("InstallAttitude", 24, {-1, 1}),
   SetLivoxLidarFovCfg0         |-> Struct("FovCfg0", 20, {1}),
   SetLivoxLidarFovCfg1         |-> Struct("FovCfg1", 20, {1}),
   EnableLivoxLidarFov          |-> Byte("FovCfgEn", Switch),
   DisableLivoxLidarFov         |-> Byte("FovCfgEn", {0})]
DetectSetters ==
  [SetLivoxLidarDetectMode |-> Byte("DetectMode", Switch),
   SetLivoxLidarFuncIOCfg  |-> Struct("FuncIoCfg", 4, {1}),
   SetLivoxLidarBlindSpot  |-> Struct("BlindSpotSet", 4, {1}),
   SetLivoxLidarWorkMode   |-> Byte("WorkMode", Switch)]
HeatSetters ==
  [EnableLivoxLidarGlassHeat     |-> Byte("GlassHeat", {1}),
   DisableLivoxLidarGlassHeat    |-> Byte("GlassHeat", {0}),
   SetLivoxLidarGlassHeat        |-> Byte("GlassHeat", 0..3),
   EnableLivoxLidarImuData       |-> Byte("ImuDataEn", {1}),
   DisableLivoxLidarImuData      |-> Byte("ImuDataEn", {0}),
   EnableLivoxLidarFusaFunciont  |-> Byte("FusaEn", {1}),
   DisableLivoxLidarFusaFunciont |-> Byte("FusaEn", {0})]
LaterSetters ==
  [StartForcedHeating         |-> Byte("ForceHeatEn", {1}),
   StopForcedHeating          |-> Byte("ForceHeatEn", {0}),
   SetLivoxLidarPpsSyncMode   |-> Byte("SetPpsSyncMode", Switch),
   SetLidarFogNoiseFilterMode |-> Byte("SetFogNoiseFilter", Switch),
   SetLivoxLidarITOCtrlMode   |-> Byte("SetITOCtrl", Switch),
   SetNTPServerIp             |-> Setter("SetNTPServerIp", 4, {1}, {<<t>> : t \in Texts})]
RangeSetters ==
  [SetLivoxLidarEscMode           |-> Byte("SetEscMode", Switch),
   SetLivoxLidarFovMode           |-> Byte("SetFovMode", Switch),
   SetLivoxLidarEchoMode          |-> Byte("SetEchoMode", Switch),
   SetLivoxLidarImuRange          |-> Struct("SetImuRange", 3, {1}),
   SetLivoxLidarLogParam          |-> Struct("LogParamSet", 7, {1}),
   SetLivoxLidarWorkModeAfterBoot |-> Byte("WorkModeAfterBoot", Switch)]
Setters ==
  Joined(Joined(Joined(ModeSetters, AddressSetters), Joined(GeometrySetters, DetectSetters)),
         Joined(HeatSetters, Joined(LaterSetters, RangeSetters)))

(* The number 0 for a data type asks for IMU data, which has its own key.  *)
SetLivoxLidar(name, arg) ==
  IF name = "SetLivoxLidarPclDataType" /\ arg = <<0>>
  THEN KeyValue(Setters.EnableLivoxLidarImuData.key, 1, <<1>>, "app", <<1>>)
  ELSE LET set == Setters[name]
           value == [i \in DOMAIN arg |-> IF i \in set.addresses THEN IpToU8(arg[i]) ELSE arg[i]]
       IN KeyValue(set.key, set.length, value, "app", arg)

CallSetter ==
  /\ phase = "up" /\ calls < MaxCalls
  /\ \E name \in DOMAIN Setters : \E arg \in Setters[name].args :
       /\ \A i \in Setters[name].addresses : IpIsGood(arg[i])
       /\ wire' = Append(wire, Request(1, <<SetLivoxLidar(name, arg)>>, "app"))
  /\ calls' = calls + 1
  /\ UNCHANGED <<cfg, phase, lidar_net_info, channel_info_, view, devices_, held, report,
                 updates, pushes>>

-----------------------------------------------------------------------------
(* Configuring the lidar: on detection, from the file or, without one, with *)
(* the ports the lidar says it uses. *)

BuildUpdate(c) == CASE c.dev_type \in {"Mid360", "Mid360s"} -> BuildUpdateMid360LidarCfgRequest(c)
                    [] c.dev_type = "Avia2" -> BuildUpdateAvia2LidarCfgRequest(c)
                    [] c.dev_type = "HAP" -> BuildUpdateLidarCfgRequest(c)

UpdateLidarCfg ==
  /\ phase = "up" /\ ~cfg.is_view /\ ~devices_ /\ updates < MaxUpdates
  /\ CanBuild(cfg)
  /\ wire' = Append(wire, BuildUpdate(cfg))
  /\ updates' = updates + 1
  /\ UNCHANGED <<cfg, phase, lidar_net_info, channel_info_, view, devices_, held, report,
                 calls, pushes>>

(* Every parameter the lidar holds and is asked for, once each.            *)
Listed(keys) == Restrict(held, keys \cap DOMAIN held)

QueryLivoxLidarInternalInfo ==
  /\ phase = "up" /\ cfg.is_view /\ updates < MaxUpdates
  /\ wire' = Append(wire, [kind |-> "info", kvs |-> Listed(InternalInfoKeys[cfg.dev_type])])
  /\ updates' = updates + 1
  /\ UNCHANGED <<cfg, phase, lidar_net_info, channel_info_, view, devices_, held, report,
                 calls, pushes>>

ViewInfo(c, kvs) ==
  LET point == kvs.LidarPointDataHostIpCfg.value
      imu   == kvs.LidarImuHostIpCfg.value
      own   == c.dev_type = "HAP"
  IN [host_point_port     |-> point[2],
      lidar_point_port    |-> IF own THEN point[3] ELSE LidarPort[c.dev_type].point_data_port,
      host_imu_data_port  |-> imu[2],
      lidar_imu_data_port |-> IF own THEN imu[3] ELSE LidarPort[c.dev_type].imu_data_port]

CreateViewDataChannel(channels, host, v) ==
  Open(Open(channels, host, v.host_point_port, host), host, v.host_imu_data_port, host)

(* The answer of the lidar to the query; only the first one is used.       *)
AddViewLidar(kvs, rest) ==
  IF view # <<>>
  THEN UNCHANGED <<view, channel_info_>> /\ wire' = rest
  ELSE /\ view' = ViewInfo(cfg, kvs)
       /\ channel_info_' = CreateViewDataChannel(channel_info_, InetAddr(HostIp(cfg)), view')
       /\ wire' = Append(rest, BuildUpdateViewLidarCfgRequest(cfg, view'))

InfoArrives ==
  /\ \E i \in DOMAIN wire : wire[i].kind = "info" /\ AddViewLidar(wire[i].kvs, RemoveAt(wire, i))
  /\ UNCHANGED <<cfg, phase, lidar_net_info, devices_, held, report, calls, updates, pushes>>

(* The lidar (external) stores as many parameters as the request announces *)
(* and acknowledges, for good or in vain.                                  *)
Stored(kvs) ==
  [key \in DOMAIN held \cup {kvs[j].key : j \in DOMAIN kvs} |->
     IF \E j \in DOMAIN kvs : kvs[j].key = key
     THEN kvs[CHOOSE j \in DOMAIN kvs : kvs[j].key = key] ELSE held[key]]
LidarApplies ==
  /\ \E i \in DOMAIN wire :
       /\ wire[i].kind = "set"
       /\ held' = Stored(SubSeq(wire[i].kvs, 1, wire[i].key_num))
       /\ devices_' \in {devices_, devices_ \/ wire[i].by = "sdk"}
       /\ wire' = RemoveAt(wire, i)
  /\ UNCHANGED <<cfg, phase, lidar_net_info, channel_info_, view, report, calls, updates, pushes>>

Lose ==
  /\ \E i \in DOMAIN wire : wire' = RemoveAt(wire, i)
  /\ UNCHANGED <<cfg, phase, lidar_net_info, channel_info_, view, devices_, held, report, calls,
                 updates, pushes>>

-----------------------------------------------------------------------------
(* Pushed state. *)

(* The lidar (external) pushes its settings or its status, from where and  *)
(* to where its state flow says.                                           *)
StateFlow == IF "StateInfoHostIpCfg" \in DOMAIN held THEN held.StateInfoHostIpCfg.value
             ELSE <<IpToU8(HostIp(cfg)), kDetectionPort, LidarPort[cfg.dev_type].push_msg_port>>
Push ==
  /\ pushes < MaxPushes
  /\ Reaches(StateFlow[1], StateFlow[2])
  /\ \E keys \in {DOMAIN held \cap Status, DOMAIN held \ Status} :
       wire' = Append(wire, [kind |-> "push", kvs |-> Listed(keys), port |-> StateFlow[3]])
  /\ pushes' = pushes + 1
  /\ UNCHANGED <<cfg, phase, lidar_net_info, channel_info_, view, devices_, held, report, calls,
                 updates>>

(* OnData: what comes from the lidar's port is data, a command or nothing. *)
Dispatch(port) ==
  IF cfg.is_view
  THEN IF view # <<>> /\ port \in {view.lidar_point_port, view.lidar_imu_data_port}
       THEN "data" ELSE "command"
  ELSE IF port \in {lidar_net_info.point_data_port, lidar_net_info.imu_data_port} THEN "data"
  ELSE IF port \in {kDetectionPort, lidar_net_info.cmd_data_port, lidar_net_info.push_msg_port,
                    lidar_net_info.log_data_port, kPaLidarFaultPort} THEN "command"
  ELSE "dropped"

(* OnCommandCmd of the handler of the lidar's type.                        *)
Accepts(dev_type, port) == port = LidarPort[dev_type].push_msg_port

(* The field each parameter is copied to.                                  *)
ConfigFields ==
  [PclDataType |-> "pcl_data_type", PatternMode |-> "pattern_mode",
   DualEmitEn |-> "dual_emit_en", PointSendEn |-> "point_send_en",
   LidarIpCfg |-> "lidar_ipcfg", StateInfoHostIpCfg |-> "host_state_info",
   LidarPointDataHostIpCfg |-> "pointcloud_host_ipcfg", LidarImuHostIpCfg |-> "imu_host_ipcfg",
   CtlHostIpCfg |-> "ctl_host_ipcfg", LogHostIpCfg |-> "log_host_ipcfg",
   VehicleSpeed |-> "vehicle_speed", EnvironmentTemp |-> "environment_temp",
   InstallAttitude |-> "install_attitude", BlindSpotSet |-> "blind_spot_set",
   FrameRate |-> "frame_rate", FovCfg0 |-> "fov_cfg0", FovCfg1 |-> "fov_cfg1",
   FovCfgEn |-> "fov_cfg_en", DetectMode |-> "detect_mode", FuncIoCfg |-> "func_io_cfg",
   WorkMode |-> "work_tgt_mode", GlassHeat |-> "glass_heat", ImuDataEn |-> "imu_data_en",
   FusaEn |-> "fusa_en"]
StatusFields ==
  [Sn |-> "sn", ProductInfo |-> "product_info", VersionApp |-> "version_app",
   VersionLoader |-> "version_loader", VersionHardware |-> "version_hardware", Mac |-> "mac",
   CurWorkState |-> "cur_work_state", CoreTemp |-> "core_temp", PowerUpCnt |-> "powerup_cnt",
   LocalTimeNow |-> "local_time_now", LastSyncTime |-> "last_sync_time",
   TimeOffset |-> "time_offset", TimeSyncType |-> "time_sync_type",
   StatusCode |-> "status_code", LidarDiagStatus |-> "lidar_diag_status",
   LidarFlashStatus |-> "lidar_flash_status", FwType |-> "fw_type", HmsCode |-> "hms_code",
   RoiMode |-> "ROI_Mode", SetEscMode |-> "esc_mode", SetFovMode |-> "fov_mode",
   SetEchoMode |-> "echo_mode", SetNTPServerIp |-> "ntp_server_ip", SetITOCtrl |-> "ito_mode",
   SetFogNoiseFilter |-> "fog_noise_filter", SetImuRange |-> "imu_range"]
FieldOf == Joined(ConfigFields, StatusFields)

(* A value of another length than its field leaves part of the field       *)
(* unwritten, or writes past it.                                           *)
CopyTo(field, kv) == IF kv.length = FieldSize[field] THEN kv.value ELSE <<>>

(* Unknown parameters are skipped.                                         *)
ParseStateInfo(kvs) ==
  LET key_mask == DOMAIN kvs \cap DOMAIN FieldOf
      From(field) == CHOOSE key \in key_mask : FieldOf[key] = field
  IN [key_mask |-> key_mask,
      fields   |-> [field \in {FieldOf[key] : key \in key_mask} |-> CopyTo(field, kvs[From(field)])]]

(* Mutant: the IMU flow is printed from the fields of the point flow.        *)
PrintedAddresses_PointForImu ==
  [PclDataType |-> "pcl_data_type", PatternMode |-> "pattern_mode",
   DualEmitEn |-> "dual_emit_en", PointSendEn |-> "point_send_en",
   LidarIpCfg |-> "lidar_ipcfg", StateInfoHostIpCfg |-> "host_state_info",
   LidarPointDataHostIpCfg |-> "pointcloud_host_ipcfg", LidarImuHostIpCfg |-> "pointcloud_host_ipcfg",
   CtlHostIpCfg |-> "ctl_host_ipcfg", LogHostIpCfg |-> "log_host_ipcfg"]

(* The fields that are printed for each parameter of the mask.             *)
PrintedAddresses ==
  [PclDataType |-> "pcl_data_type", PatternMode |-> "pattern_mode",
   DualEmitEn |-> "dual_emit_en", PointSendEn |-> "point_send_en",
   LidarIpCfg |-> "lidar_ipcfg", StateInfoHostIpCfg |-> "host_state_info",
   LidarPointDataHostIpCfg |-> "pointcloud_host_ipcfg", LidarImuHostIpCfg |-> "imu_host_ipcfg",
   CtlHostIpCfg |-> "ctl_host_ipcfg", LogHostIpCfg |-> "log_host_ipcfg"]
PrintedSettings ==
  [VehicleSpeed |-> "vehicle_speed", EnvironmentTemp |-> "environment_temp",
   InstallAttitude |-> "install_attitude", BlindSpotSet |-> "blind_spot_set",
   FrameRate |-> "frame_rate", FovCfg0 |-> "fov_cfg0", FovCfg1 |-> "fov_cfg1",
   FovCfgEn |-> "fov_cfg_en", DetectMode |-> "detect_mode", FuncIoCfg |-> "func_io_cfg"]
PrintedModes ==
  [WorkMode |-> "work_tgt_mode", GlassHeat |-> "glass_heat", ImuDataEn |-> "imu_data_en",
   FusaEn |-> "fusa_en", SetEscMode |-> "esc_mode", SetFovMode |-> "fov_mode",
   SetEchoMode |-> "echo_mode", SetNTPServerIp |-> "ntp_server_ip", SetITOCtrl |-> "ito_mode",
   SetFogNoiseFilter |-> "fog_noise_filter", SetImuRange |-> "imu_range", Sn |-> "sn",
   ProductInfo |-> "product_info", VersionApp |-> "version_app",
   VersionLoader |-> "version_loader", VersionHardware |-> "version_hardware", Mac |-> "mac"]
PrintedStatus ==
  [CurWorkState |-> "cur_work_state", CoreTemp |-> "core_temp", PowerUpCnt |-> "powerup_cnt",
   LocalTimeNow |-> "local_time_now", LastSyncTime |-> "last_sync_time",
   TimeOffset |-> "time_offset", TimeSyncType |-> "time_sync_type",
   StatusCode |-> "status_code", LidarDiagStatus |-> "lidar_diag_status",
   LidarFlashStatus |-> "lidar_flash_status", FwType |-> "fw_type", HmsCode |-> "hms_code",
   RoiMode |-> "ROI_Mode"]
PrintedFrom == Joined(Joined(PrintedAddresses, PrintedSettings), Joined(PrintedModes, PrintedStatus))

(* The offsets of an attitude are printed as unsigned numbers.             *)
Printed(key, value) ==
  IF key = "InstallAttitude" THEN [i \in DOMAIN value |-> value[i] % UintModulus] ELSE value
LivoxLidarStateInfoToJson(info) ==
  [key \in info.key_mask \cap DOMAIN PrintedFrom |->
     IF PrintedFrom[key] \in DOMAIN info.fields
     THEN Printed(key, info.fields[PrintedFrom[key]]) ELSE <<>>]

(* What is not accepted is dropped.                                        *)
OnData ==
  /\ \E i \in DOMAIN wire :
       /\ wire[i].kind = "push"
       /\ wire' = RemoveAt(wire, i)
       /\ report' = IF Dispatch(wire[i].port) = "command" /\ Accepts(cfg.dev_type, wire[i].port)
                    THEN [told |-> LivoxLidarStateInfoToJson(ParseStateInfo(wire[i].kvs)),
                          of   |-> wire[i].kvs]
                    ELSE report
  /\ UNCHANGED <<cfg, phase, lidar_net_info, channel_info_, view, devices_, held, calls, updates,
                 pushes>>

-----------------------------------------------------------------------------
(* What a lidar comes with: its state, and where it sends it (external).   *)
Factory(dev_type) ==
  LET Size(key) == IF key \in DOMAIN FieldOf THEN FieldSize[FieldOf[key]] ELSE 1
      port == [StateInfoHostIpCfg |-> "push_msg_port", LidarPointDataHostIpCfg |-> "point_data_port",
               LidarImuHostIpCfg |-> "imu_data_port", LogHostIpCfg |-> "log_data_port"]
      Value(key) == IF key \in DOMAIN port THEN <<Broadcast, FactoryPort, LidarPort[dev_type][port[key]]>>
                    ELSE <<0>>
  IN [key \in InternalInfoKeys[dev_type] |-> KeyValue(key, Size(key), Value(key), "factory", Value(key))]

ParamsInit ==
  /\ cfg \in Configs
  /\ phase = "off"
  /\ lidar_net_info = [name \in PortName |-> 0]
  /\ channel_info_ = <<>>
  /\ view = <<>>
  /\ devices_ = FALSE
  /\ held = Factory(cfg.dev_type)
  /\ wire = <<>>
  /\ report = [told |-> <<>>, of |-> <<>>]
  /\ calls = 0 /\ updates = 0 /\ pushes = 0

ParamsNext ==
  \/ LivoxLidarSdkInit \/ CallSetter \/ UpdateLidarCfg \/ QueryLivoxLidarInternalInfo
  \/ InfoArrives \/ LidarApplies \/ Lose \/ Push \/ OnData

ParamsSpec == ParamsInit /\ [][ParamsNext]_paramsVars

-----------------------------------------------------------------------------
(* The type of every variable. *)
ParamsTypeOK ==
  /\ cfg \in Configs
  /\ phase \in {"off", "up", "refused"}
  /\ DOMAIN lidar_net_info = PortName
  /\ devices_ \in BOOLEAN
  /\ DOMAIN held \subseteq ParamKeyName
  /\ \A key \in DOMAIN held : held[key].key = key /\ held[key].by \in {"factory", "sdk", "app"}
  /\ \A i \in DOMAIN wire : wire[i].kind \in {"set", "info", "push"}
  /\ calls <= MaxCalls /\ updates <= MaxUpdates /\ pushes <= MaxPushes

(* What the application is told (LivoxLidarStateInfoToJson) is what was set *)
(* when the lidar pushed it: the text, the ports or the value given to the  *)
(* configuration or to a setter, under its own name, through the request,   *)
(* the lidar, the parser and the printer; nothing the parser knows is left  *)
(* out.  Excepted are octets of 256 and attitudes with negative offsets.    *)
Addresses(key) == UNION {Setters[name].addresses : name \in {n \in DOMAIN Setters : Setters[n].key = key}}
Faithful(kv) == kv.by # "factory" =>
                  /\ kv.key = "InstallAttitude" => kv.arg[1] \in 0..(UintModulus - 1)
                  /\ \A i \in Addresses(kv.key) : 256 \notin Range(kv.arg[i])
ReportIsWhatWasSet ==
  \A key \in DOMAIN report.of \cap DOMAIN FieldOf :
     /\ key \in DOMAIN report.told
     /\ Faithful(report.of[key]) => report.told[key] = report.of[key].arg

(* The flows the SDK has set go to a socket it has opened, and come from a  *)
(* port whose packets it takes for what they are: point and IMU data are    *)
(* data, and state is a push that is accepted (CreateChannel, CheckPort,    *)
(* the builders, OnData and OnCommandCmd agree).  Of the types whose ports  *)
(* CheckPort does not put right, only those with the documented ports; the  *)
(* state flow only without multicast, see PushesReachHost.  Excepted is a   *)
(* multicast flow to the detection port, for which no socket is opened, and *)
(* an octet of 256, 0 to the lidar and no address to the socket.            *)
Ours(key) == key \in DOMAIN held /\ held[key].by = "sdk" /\ held[key].value[2] # 0
AsDocumented ==
  /\ 256 \notin Range(HostIp(cfg)) \cup Range(MulticastIp(cfg))
  /\ \/ cfg.is_view \/ cfg.dev_type \in {"Mid360", "Mid360s"}
     \/ cfg.lidar = LidarPort[cfg.dev_type]
Arrives(flow) == Reaches(flow[1], flow[2])
PushArrives == LET flow == held.StateInfoHostIpCfg.value
               IN /\ Arrives(flow)
                  /\ Dispatch(flow[3]) = "command"
                  /\ Accepts(cfg.dev_type, flow[3])
FlowsReachHost ==
  AsDocumented =>
    /\ \A key \in {"LidarPointDataHostIpCfg", "LidarImuHostIpCfg"} :
         Ours(key) => LET flow == held[key].value
                      IN /\ MulticastIp(cfg) = <<>> \/ flow[2] # kDetectionPort => Arrives(flow)
                         /\ Dispatch(flow[3]) = "data"
    /\ Ours("StateInfoHostIpCfg") /\ MulticastIp(cfg) = <<>> => PushArrives

(* "push_msg_port" is the port that receives pushed messages, with or       *)
(* without multicast.                                                       *)
PushesReachHost == Ours("StateInfoHostIpCfg") => PushArrives
=============================================================================
