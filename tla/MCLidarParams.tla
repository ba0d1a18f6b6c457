--------------------------- MODULE MCLidarParams ---------------------------
(***************************************************************************)
(* Instance of LidarParams for TLC: the sample files, files that are wrong *)
(* in one way each, and a lidar of each type that is only viewed.          *)
(***************************************************************************)
EXTENDS LidarParams

Host      == <<192, 168, 1, 5>>
Multicast == <<224, 1, 1, 5>>
MidHost   == Ports(56101, 56201, 56301, 56401, 56501)
HapHost   == Ports(56000, 0, 57000, 58000, 59000)
File(dev_type, host, lidar, address) ==
  [dev_type |-> dev_type, is_view |-> FALSE, host |-> host, lidar |-> lidar,
   address |-> address, not_string |-> {}]
Viewed(dev_type) == [File(dev_type, <<>>, <<>>, [host_ip |-> Host]) EXCEPT !.is_view = TRUE]
One == [host_ip |-> Host]
Group == [cmd_data_ip |-> Host, multicast_ip |-> Multicast]

MCConfigs ==
  {File("HAP", HapHost, LidarPort.HAP, One),
   File("HAP", [HapHost EXCEPT !.point_data_port = 65536 + 57000], LidarPort.HAP, Group),
   File("HAP", HapHost, [LidarPort.HAP EXCEPT !.point_data_port = 57001], One),
   File("Mid360", MidHost, LidarPort.Mid360, One),
   File("Mid360", MidHost, Ports(1, 2, 3, 4, 5), One),
   File("Mid360s", MidHost, Ports(56101, 56201, 56301, 56401, 56501), One),
   File("Mid360s", MidHost, LidarPort.Mid360s, [One EXCEPT !.host_ip = <<192, 168, 1>>]),
   File("Mid360", MidHost, LidarPort.Mid360, [host_ip |-> Host, multicast_ip |-> <<192, 168, 1, 9>>]),
   File("Mid360", MidHost, LidarPort.Mid360, [host_ip |-> <<192, 168, 1, 256>>]),
   File("Mid360", MidHost, [cmd_data_port |-> 56100], One),
   [File("Mid360", MidHost, LidarPort.Mid360, One) EXCEPT !.not_string = {"host_ip"}],
   File("Avia2", MidHost, LidarPort.Avia2, One)}
  \cup {Viewed(dev_type) : dev_type \in DevType}
MulticastConfigs == {File("Mid360", MidHost, LidarPort.Mid360, Group)}
MCTexts == {<<10, 0, 0, 1>>, <<10, 0, 0, 256>>, <<10, 0, 1>>}
MCLidarPorts == {56200, 57000}
=============================================================================
