---------------------------- MODULE SdkLifecycle ----------------------------
(***************************************************************************)
(* LivoxLidarSdkInit and LivoxLidarSdkUninit against the threads of the    *)
(* SDK: the detection thread, which broadcasts every second, and the three *)
(* IO loops (base/io_loop.cpp over epoll), which read the sockets, run the *)
(* posted tasks and outlive Uninit: a loop is joined when the next Init    *)
(* replaces it.                                                            *)
(*                                                                         *)
(* A loop stands with one socket, of the same name and, as descriptors are *)
(* reused, of the same descriptor in every session.  A session is a call   *)
(* of Init.  One lidar, in the configuration or found by its type.         *)
(***************************************************************************)
EXTENDS Integers, FiniteSets

CONSTANTS
  MaxSessions,    \* bound: calls of Init
  MaxFailures     \* bound: calls of CreateSocket that fail

ASSUME BoundsAssumption == MaxSessions \in Nat /\ MaxFailures \in Nat

Loop == {"detection", "cmd", "data"}

VARIABLES
  session, failures, crashed,
  late,                  \* history: a loop opened a socket for a session that was over
  app, next_loop,        \* the thread of the application
  is_initialized, is_view_, custom, registered,
  comm_port_, gch_port,  \* is the pointer of DeviceManager, of GeneralCommandHandler, set?
  channel_info_, open,   \* sockets known by address; session of the socket behind a descriptor
  loop_session, quit_, tasks, delegate, l_pc, packet,
  is_stop_detection_, d_pc,
  observer

appVars  == <<app, next_loop, is_initialized>>
cfgVars  == <<is_view_, custom, registered, comm_port_, gch_port>>
sockVars == <<channel_info_, open>>
loopVars == <<loop_session, quit_, tasks, delegate, l_pc, packet>>
detVars  == <<is_stop_detection_, d_pc>>
vars == <<session, failures, late, crashed, appVars, cfgVars, sockVars, loopVars, detVars, observer>>

TypeOK ==
  /\ session \in 0..MaxSessions /\ failures \in 0..MaxFailures
  /\ crashed \in BOOLEAN /\ late \in BOOLEAN /\ is_initialized \in BOOLEAN /\ is_view_ \in BOOLEAN
  /\ custom \in BOOLEAN /\ registered \in BOOLEAN
  /\ comm_port_ \in BOOLEAN /\ gch_port \in BOOLEAN
  /\ app \in {"idle", "io", "detection", "data", "cmd", "thread", "flag",
              "close", "stop", "join", "clear", "observers", "handlers"}
  /\ next_loop \in Loop
  /\ channel_info_ \in SUBSET {"cmd", "data"}
  /\ open \in [Loop -> 0..MaxSessions]
  /\ loop_session \in [Loop -> 0..MaxSessions] /\ quit_ \in [Loop -> BOOLEAN]
  /\ tasks \in [Loop -> {"none", "add", "remove"}]
  /\ delegate \in [Loop -> 0..MaxSessions] /\ packet \in [Loop -> 0..MaxSessions]
  /\ l_pc \in [Loop -> {"none", "poll", "ondata", "handle", "command", "register",
                        "observe", "tasks", "done"}]
  /\ is_stop_detection_ \in BOOLEAN
  /\ d_pc \in {"none", "test", "send", "done"}
  /\ observer \in BOOLEAN

Init ==
  /\ session = 0 /\ failures = 0 /\ crashed = FALSE /\ late = FALSE
  /\ app = "idle" /\ next_loop = "detection" /\ is_initialized = FALSE
  /\ is_view_ = FALSE /\ custom \in BOOLEAN /\ registered = FALSE
  /\ comm_port_ = FALSE /\ gch_port = FALSE
  /\ channel_info_ = {} /\ open = [l \in Loop |-> 0]
  /\ loop_session = [l \in Loop |-> 0] /\ quit_ = [l \in Loop |-> FALSE]
  /\ tasks = [l \in Loop |-> "none"] /\ delegate = [l \in Loop |-> 0]
  /\ l_pc = [l \in Loop |-> "none"] /\ packet = [l \in Loop |-> 0]
  /\ is_stop_detection_ = FALSE /\ d_pc = "none" /\ observer = FALSE

(* The last task posted to a loop decides whether it has the delegate.     *)
Post(ls, task) == tasks' = [l \in Loop |-> IF l \in ls THEN task ELSE tasks[l]]

(* CreateSocket and AddDelegate for those of the sockets cs whose address  *)
(* is not known yet, in session s.                                         *)
OpenChannels(cs, s) ==
  LET new == cs \ channel_info_
  IN  /\ open' = [l \in Loop |-> IF l \in new THEN s ELSE open[l]]
      /\ channel_info_' = channel_info_ \cup new
      /\ Post(new, "add")

(* Does loop l serve a session that is over, or about to be?               *)
Late(l) == \/ loop_session[l] # session
           \/ app = "idle" /\ ~is_initialized
           \/ app \in {"close", "stop", "join", "clear", "observers", "handlers"}

CreateSocketFails == failures < MaxFailures /\ failures' = failures + 1
-----------------------------------------------------------------------------
(* LivoxLidarSdkInit.                                                      *)

InitBegin ==
  /\ app = "idle" /\ ~is_initialized /\ session < MaxSessions
  /\ session' = session + 1
  /\ is_view_' \in BOOLEAN
  /\ registered' = (registered \/ (custom /\ ~is_view_'))
  /\ comm_port_' = TRUE /\ gch_port' = TRUE
  /\ app' = "io" /\ next_loop' = "detection"
  /\ UNCHANGED <<failures, late, crashed, is_initialized, custom, sockVars, loopVars, detVars, observer>>

(* Mutant: a loop that is running is kept. *)
ReplaceIOThread_Kept ==
  /\ app = "io" /\ l_pc[next_loop] \notin {"none", "done"}
  /\ CASE next_loop = "detection" -> next_loop' = "cmd" /\ UNCHANGED app
       [] next_loop = "cmd"       -> next_loop' = "data" /\ UNCHANGED app
       [] next_loop = "data"      -> app' = "detection" /\ UNCHANGED next_loop
  /\ UNCHANGED <<session, failures, late, crashed, is_initialized, cfgVars, sockVars, loopVars,
                 detVars, observer>>

(* The assignment of the new IOThread destroys the old one: Join, which    *)
(* sets quit_ and waits.                                                   *)
ReplaceIOThread ==
  /\ app = "io" /\ ~quit_[next_loop]
  /\ l_pc[next_loop] \notin {"none", "done"}
  /\ quit_' = [quit_ EXCEPT ![next_loop] = TRUE]
  /\ UNCHANGED <<session, failures, late, crashed, appVars, cfgVars, sockVars, loop_session, tasks,
                 delegate, l_pc, packet, detVars, observer>>

StartIOThread ==
  /\ app = "io" /\ l_pc[next_loop] \in {"none", "done"}
  /\ l_pc' = [l_pc EXCEPT ![next_loop] = "poll"]
  /\ loop_session' = [loop_session EXCEPT ![next_loop] = session]
  /\ quit_' = [quit_ EXCEPT ![next_loop] = FALSE]
  /\ delegate' = [delegate EXCEPT ![next_loop] = 0]
  /\ Post({next_loop}, "none")
  /\ CASE next_loop = "detection" -> next_loop' = "cmd" /\ UNCHANGED app
       [] next_loop = "cmd"       -> next_loop' = "data" /\ UNCHANGED app
       [] next_loop = "data"      -> app' = "detection" /\ UNCHANGED next_loop
  /\ UNCHANGED <<session, failures, late, crashed, is_initialized, cfgVars, sockVars, packet, detVars,
                 observer>>

(* The detection sockets are opened anew in every session.                 *)
CreateDetectionChannel ==
  /\ app = "detection"
  /\ open' = [open EXCEPT !["detection"] = session]
  /\ Post({"detection"}, "add")
  /\ app' = IF custom /\ ~is_view_ THEN "data" ELSE "thread"
  /\ UNCHANGED <<session, failures, late, crashed, next_loop, is_initialized, cfgVars, channel_info_,
                 loop_session, quit_, delegate, l_pc, packet, detVars, observer>>

CreateChannel ==
  /\ app \in {"data", "cmd"}
  /\ OpenChannels({app}, session)
  /\ app' = IF app = "data" THEN "cmd" ELSE "thread"
  /\ UNCHANGED <<session, failures, late, crashed, next_loop, is_initialized, cfgVars,
                 loop_session, quit_, delegate, l_pc, packet, detVars, observer>>

(* A socket that is not opened ends Init, which undoes nothing.            *)
InitFails ==
  /\ app \in {"detection", "data", "cmd"} /\ app \notin channel_info_
  /\ CreateSocketFails
  /\ app' = "idle"
  /\ UNCHANGED <<session, late, crashed, next_loop, is_initialized, cfgVars, sockVars, loopVars,
                 detVars, observer>>

StartDetectionThread ==
  /\ app = "thread" /\ app' = "flag"
  /\ d_pc' = "test"
  /\ UNCHANGED <<session, failures, late, crashed, next_loop, is_initialized, cfgVars, sockVars, loopVars,
                 is_stop_detection_, observer>>

InitEnd ==
  /\ app = "flag" /\ app' = "idle"
  /\ is_stop_detection_' = FALSE /\ is_initialized' = TRUE
  /\ UNCHANGED <<session, failures, late, crashed, next_loop, cfgVars, sockVars, loopVars, d_pc, observer>>
-----------------------------------------------------------------------------
(* LivoxLidarSdkUninit.                                                    *)

(* Mutant: the data sockets are forgotten. *)
DelegatesToRemove_NoData == {"detection"} \cup (channel_info_ \ {"data"})

(* The data sockets of the view mode are in socket_vec_, not in            *)
(* data_channel_: they are closed, not removed.                            *)
DelegatesToRemove ==
  {"detection"} \cup (IF is_view_ THEN channel_info_ \ {"data"} ELSE channel_info_)

DestoryDelegates ==
  /\ app = "idle" /\ is_initialized /\ app' = "close"
  /\ Post(DelegatesToRemove, "remove")
  /\ UNCHANGED <<session, failures, late, crashed, next_loop, is_initialized, cfgVars, sockVars,
                 loop_session, quit_, delegate, l_pc, packet, detVars, observer>>

DestorySockets ==
  /\ app = "close" /\ app' = "stop"
  /\ open' = [l \in Loop |-> IF l \in channel_info_ THEN 0 ELSE open[l]]
  /\ UNCHANGED <<session, failures, late, crashed, next_loop, is_initialized, cfgVars, channel_info_,
                 loopVars, detVars, observer>>

(* Mutant: the store is left out. *)
DestoryStop_NoStore ==
  /\ app = "stop" /\ app' = "join"
  /\ UNCHANGED <<session, failures, late, crashed, next_loop, is_initialized, cfgVars, sockVars, loopVars,
                 detVars, observer>>

DestoryStop ==
  /\ app = "stop" /\ app' = "join"
  /\ is_stop_detection_' = TRUE
  /\ UNCHANGED <<session, failures, late, crashed, next_loop, is_initialized, cfgVars, sockVars, loopVars,
                 d_pc, observer>>

(* Mutant: the sockets are closed before the thread has ended. *)
DestoryJoin_Never ==
  /\ app = "join" /\ app' = "clear"
  /\ open' = [open EXCEPT !["detection"] = 0]
  /\ UNCHANGED <<session, failures, late, crashed, next_loop, is_initialized, cfgVars, channel_info_,
                 loopVars, detVars, observer>>

DestoryJoin ==
  /\ app = "join" /\ d_pc = "done" /\ app' = "clear"
  /\ open' = [open EXCEPT !["detection"] = 0]
  /\ UNCHANGED <<session, failures, late, crashed, next_loop, is_initialized, cfgVars, channel_info_,
                 loopVars, detVars, observer>>

(* Mutant: channel_info_ is not cleared. *)
DestoryClear_KeepsChannels ==
  /\ app = "clear" /\ app' = "observers"
  /\ registered' = FALSE /\ is_view_' = FALSE /\ comm_port_' = FALSE
  /\ UNCHANGED <<session, failures, late, crashed, next_loop, is_initialized, custom, gch_port, sockVars,
                 loopVars, detVars, observer>>

DestoryClear ==
  /\ app = "clear" /\ app' = "observers"
  /\ registered' = FALSE /\ is_view_' = FALSE /\ comm_port_' = FALSE
  /\ channel_info_' = {}
  /\ UNCHANGED <<session, failures, late, crashed, next_loop, is_initialized, custom, gch_port, open,
                 loopVars, detVars, observer>>

(* Mutant: the observers have no mutex. *)
MutexFree_Always == TRUE

(* The mutex of the observers is held while a loop calls them.             *)
MutexFree == ~\E l \in Loop : l_pc[l] = "observe"

DestoryObservers ==
  /\ app = "observers" /\ MutexFree /\ app' = "handlers"
  /\ observer' = FALSE
  /\ UNCHANGED <<session, failures, late, crashed, next_loop, is_initialized, cfgVars, sockVars, loopVars,
                 detVars>>

DestoryHandlers ==
  /\ app = "handlers" /\ app' = "idle"
  /\ gch_port' = FALSE /\ is_initialized' = FALSE
  /\ UNCHANGED <<session, failures, late, crashed, next_loop, is_view_, custom, registered, comm_port_,
                 sockVars, loopVars, detVars, observer>>

AddPointCloudObserver ==
  /\ app = "idle" /\ MutexFree /\ ~observer /\ observer' = TRUE
  /\ UNCHANGED <<session, failures, late, crashed, appVars, cfgVars, sockVars, loopVars, detVars>>

RemovePointCloudObserver ==
  /\ app = "idle" /\ MutexFree /\ observer /\ observer' = FALSE
  /\ UNCHANGED <<session, failures, late, crashed, appVars, cfgVars, sockVars, loopVars, detVars>>
-----------------------------------------------------------------------------
(* The IO loops: poll, read, handle, tasks.                                *)

Goto(l, where) == l_pc' = [l_pc EXCEPT ![l] = where] /\ UNCHANGED packet
Leave(l) == l_pc' = [l_pc EXCEPT ![l] = "tasks"] /\ packet' = [packet EXCEPT ![l] = 0]

(* A file that was closed is no longer in the epoll set.                   *)
Readable(l) == delegate[l] # 0 /\ open[l] = delegate[l]

Poll(l) ==
  /\ l_pc[l] = "poll" /\ Readable(l)
  /\ Goto(l, "ondata")
  /\ UNCHANGED <<session, failures, late, crashed, appVars, cfgVars, sockVars, loop_session, quit_, tasks,
                 delegate, detVars, observer>>

(* OnData reads whatever is behind the descriptor by now.                  *)
Receive(l) ==
  /\ l_pc[l] = "ondata"
  /\ l_pc' = [l_pc EXCEPT ![l] = IF open[l] = 0 THEN "tasks" ELSE "handle"]
  /\ packet' = [packet EXCEPT ![l] = open[l]]
  /\ UNCHANGED <<session, failures, late, crashed, appVars, cfgVars, sockVars, loop_session, quit_, tasks,
                 delegate, detVars, observer>>

(* OnData looks up the sender, without a lock.                             *)
Handle(l) ==
  /\ l_pc[l] = "handle"
  /\ \/ l # "data" /\ (is_view_ \/ registered) /\ Goto(l, "command")
     \/ l = "data" /\ (is_view_ \/ registered) /\ MutexFree
          /\ IF observer THEN Goto(l, "observe") ELSE Leave(l)
     \/ l = "detection" /\ ~is_view_ /\ ~registered /\ Goto(l, "register")
     \/ l # "detection" /\ ~is_view_ /\ ~registered /\ Leave(l)
  /\ UNCHANGED <<session, failures, late, crashed, appVars, cfgVars, sockVars, loop_session, quit_, tasks,
                 delegate, detVars, observer>>

(* A null CommPort ends the process.                                       *)
Crash(l) ==
  /\ \/ l_pc[l] = "command" /\ ~gch_port
     \/ l_pc[l] = "register" /\ ~comm_port_
  /\ crashed' = TRUE
  /\ UNCHANGED <<session, failures, late, appVars, cfgVars, sockVars, loopVars, detVars, observer>>

(* GeneralCommandHandler::Handler; in the view mode the answer to the query *)
(* for the addresses of the lidar opens its data sockets.                  *)
Command(l) ==
  /\ l_pc[l] = "command" /\ gch_port
  /\ Leave(l)
  /\ \/ UNCHANGED <<sockVars, tasks, late>>
     \/ is_view_ /\ OpenChannels({"data"}, loop_session[l]) /\ late' = (late \/ Late(l))
  /\ UNCHANGED <<session, failures, crashed, appVars, cfgVars, loop_session, quit_,
                 delegate, detVars, observer>>

(* A lidar of a configured type is entered, and its sockets are opened by  *)
(* the detection loop.                                                     *)
Register(l) ==
  /\ l_pc[l] = "register" /\ comm_port_
  /\ registered' = TRUE /\ late' = (late \/ Late(l))
  /\ Leave(l)
  /\ \/ OpenChannels({"data", "cmd"}, loop_session[l]) /\ UNCHANGED failures
     \/ "data" \notin channel_info_ /\ CreateSocketFails /\ UNCHANGED <<sockVars, tasks>>
     \/ "cmd" \notin channel_info_ /\ CreateSocketFails /\ OpenChannels({"data"}, loop_session[l])
  /\ UNCHANGED <<session, crashed, appVars, is_view_, custom, comm_port_, gch_port,
                 loop_session, quit_, delegate, detVars, observer>>

Observe(l) ==
  /\ l_pc[l] = "observe"
  /\ Leave(l)
  /\ UNCHANGED <<session, failures, late, crashed, appVars, cfgVars, sockVars, loop_session, quit_, tasks,
                 delegate, detVars, observer>>

(* The posted tasks, after an event or the time-out of the poll; then the  *)
(* loop ends when it was told to.                                          *)
RunTasks(l) ==
  /\ l_pc[l] \in {"poll", "tasks"}
  /\ delegate' = [delegate EXCEPT ![l] = CASE tasks[l] = "none"   -> @
                                           [] tasks[l] = "add"    -> open[l]
                                           [] tasks[l] = "remove" -> 0]
  /\ Post({l}, "none")
  /\ Goto(l, IF quit_[l] THEN "done" ELSE "poll")
  /\ UNCHANGED <<session, failures, late, crashed, appVars, cfgVars, sockVars, loop_session, quit_,
                 detVars, observer>>

Serve(l) == \/ Receive(l) \/ Handle(l) \/ Crash(l) \/ Command(l) \/ Register(l)
            \/ Observe(l) \/ RunTasks(l)

(* The detection thread.                                                   *)
DetectionTest ==
  /\ d_pc = "test"
  /\ d_pc' = IF is_stop_detection_ THEN "done" ELSE "send"
  /\ UNCHANGED <<session, failures, late, crashed, appVars, cfgVars, sockVars, loopVars,
                 is_stop_detection_, observer>>

Detection ==
  /\ d_pc = "send" /\ d_pc' = "test"
  /\ UNCHANGED <<session, failures, late, crashed, appVars, cfgVars, sockVars, loopVars,
                 is_stop_detection_, observer>>

SdkInit == \/ ReplaceIOThread \/ StartIOThread \/ CreateDetectionChannel \/ CreateChannel
           \/ StartDetectionThread \/ InitEnd
SdkUninit == \/ DestorySockets \/ DestoryStop \/ DestoryJoin \/ DestoryClear
             \/ DestoryObservers \/ DestoryHandlers

Next ==
  /\ ~crashed
  /\ \/ InitBegin \/ SdkInit \/ InitFails
     \/ DestoryDelegates \/ SdkUninit
     \/ AddPointCloudObserver \/ RemovePointCloudObserver
     \/ \E l \in Loop : Poll(l) \/ Serve(l)
     \/ DetectionTest \/ Detection

Spec == Init /\ [][Next]_vars

(* Threads run, and the mutex is fair enough for Uninit to get it.         *)
FairSpec ==
  /\ Spec
  /\ WF_vars(~crashed /\ SdkInit)
  /\ WF_vars(~crashed /\ SdkUninit)
  /\ SF_vars(~crashed /\ DestoryObservers)
  /\ WF_vars(~crashed /\ (DetectionTest \/ Detection))
  /\ \A l \in Loop : WF_vars(~crashed /\ Serve(l))
-----------------------------------------------------------------------------
(***************************************************************************)
(* Properties.                                                             *)
(***************************************************************************)

(* A loop handles only packets of the sockets its own session opened,      *)
(* although the descriptors are reused and the loops outlive Uninit.       *)
OwnSession ==
  \A l \in Loop :
    l_pc[l] \in {"handle", "command", "register", "observe"} => packet[l] = loop_session[l]

(* The detection thread broadcasts through the socket and the CommPort of  *)
(* the running session, never through closed or freed ones.                *)
BroadcastUsable ==
  d_pc = "send" => comm_port_ /\ open["detection"] = session

(* An observer that was removed is not called any more.                    *)
RemovedIsQuiet == \A l \in Loop : l_pc[l] = "observe" => observer

(* When no socket failed, and none was opened for a session that was over, *)
(* an initialised SDK listens to all its sockets: each has its delegate on *)
(* the loop of this session, or will have.                                 *)
Listens ==
  is_initialized /\ app = "idle" /\ failures = 0 /\ ~late =>
    \A l \in {"detection"} \cup channel_info_ :
      /\ open[l] = session /\ loop_session[l] = session
      /\ delegate[l] = session \/ tasks[l] = "add"

(* Uninit returns, whatever the loops and the detection thread are doing   *)
(* (unless one of them runs into a CommPort that is gone).                 *)
UninitEnds == app = "close" ~> (app = "idle" \/ crashed)

(* The loops are not stopped by Uninit, but if the lidar was in the        *)
(* configuration, and the session not a view, they let go of the sockets   *)
(* and no callback comes any more.                                         *)
InDelegate(l) == l_pc[l] \in {"ondata", "handle", "command", "register", "observe"}
Quiet == \A l \in Loop : delegate[l] = 0 /\ ~InDelegate(l)
LoopsFallSilent == (app = "close" /\ custom /\ ~is_view_) ~> (Quiet \/ crashed)

(* "Start the device scanning routine which runs on a separate thread":    *)
(* while the SDK is initialised, that thread is there.                     *)
ScanRuns == is_initialized /\ app = "idle" => d_pc # "done"
=============================================================================
