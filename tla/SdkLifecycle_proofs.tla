------------------------- MODULE SdkLifecycle_proofs -------------------------
(***************************************************************************)
(* Proofs about SdkLifecycle, for any number of sessions and any number of  *)
(* sockets that fail.                                                      *)
(***************************************************************************)
EXTENDS SdkLifecycle, TLAPS

(***************************************************************************)
(* The inductive invariants.                                               *)
(***************************************************************************)

(* The loops that this call of Init has started anew: they have nothing yet. *)
Restarted(l) ==
  \/ app = "io" /\ next_loop = "cmd" /\ l = "detection"
  \/ app = "io" /\ next_loop = "data" /\ l \in {"detection", "cmd"}
  \/ app = "detection"

Busy == {"handle", "command", "register", "observe"}

(* A loop is of the running session, or was not replaced yet; and what it   *)
(* watches, is about to watch or holds is of its session.                  *)
SessionInv ==
  \A l \in Loop :
    /\ app # "io" \/ Restarted(l) => loop_session[l] = session
    /\ app = "io" /\ ~Restarted(l) => loop_session[l] = session - 1
    /\ Restarted(l) => l_pc[l] \in {"poll", "done"} /\ delegate[l] = 0 /\ tasks[l] = "none"
    /\ l_pc[l] = "command" => l # "data"
    /\ l_pc[l] = "register" => l = "detection"
    /\ delegate[l] \in {0, loop_session[l]}
    /\ l_pc[l] = "ondata" \/ tasks[l] = "add" => open[l] \in {0, loop_session[l]}
    /\ l_pc[l] \in Busy => packet[l] = loop_session[l]

(* The detection thread lives between the opening and the closing of its   *)
(* socket.                                                                 *)
DetectionInv ==
  /\ channel_info_ \subseteq {"cmd", "data"}
  /\ app \in {"io", "detection", "data", "cmd", "thread", "flag"} => comm_port_ /\ ~is_initialized
  /\ app \in {"data", "cmd", "thread"} => open["detection"] = session
  /\ d_pc \in {"test", "send"} =>
       /\ comm_port_ /\ open["detection"] = session
       /\ \/ app \in {"flag", "close", "stop", "join"}
          \/ app = "idle" /\ is_initialized

(* The sockets that are known are listened to, from their opening to       *)
(* Uninit; between the sessions there are none.                            *)
Running == app \in {"data", "cmd", "thread", "flag"} \/ (app = "idle" /\ is_initialized)
Between == app \in {"io", "detection", "observers", "handlers"} \/ (app = "idle" /\ ~is_initialized)
ListenInv ==
  /\ app = "detection" \/ Running => \A l \in Loop : tasks[l] # "remove"
  /\ failures = 0 /\ ~late =>
       /\ Between => channel_info_ = {}
       /\ Running => \A l \in {"detection"} \cup channel_info_ :
                       open[l] = session /\ (delegate[l] = session \/ tasks[l] = "add")

LifecycleInv == TypeOK /\ SessionInv /\ DetectionInv /\ RemovedIsQuiet /\ ListenInv
-----------------------------------------------------------------------------
(* What OpenChannels does to the sockets and tasks.                        *)
LEMMA OpenChannelsFacts ==
  ASSUME TypeOK, channel_info_ \subseteq {"cmd", "data"},
         NEW cs \in SUBSET {"cmd", "data"}, NEW t \in 0..MaxSessions, OpenChannels(cs, t)
  PROVE  /\ open' \in [Loop -> 0..MaxSessions] /\ tasks' \in [Loop -> {"none", "add", "remove"}]
         /\ channel_info_' = channel_info_ \cup cs
         /\ \A l \in Loop :
              \/ l \in cs /\ l \notin channel_info_ /\ open'[l] = t /\ tasks'[l] = "add"
              \/ (l \notin cs \/ l \in channel_info_) /\ open'[l] = open[l] /\ tasks'[l] = tasks[l]
BY DEF OpenChannels, Post, TypeOK, Loop

(* The types, apart for what is a truth value and what is not.              *)
BoolTypes ==
  /\ crashed \in BOOLEAN /\ late \in BOOLEAN /\ is_initialized \in BOOLEAN /\ is_view_ \in BOOLEAN
  /\ custom \in BOOLEAN /\ registered \in BOOLEAN
  /\ comm_port_ \in BOOLEAN /\ gch_port \in BOOLEAN
  /\ quit_ \in [Loop -> BOOLEAN] /\ is_stop_detection_ \in BOOLEAN /\ observer \in BOOLEAN
DataTypes ==
  /\ session \in 0..MaxSessions /\ failures \in 0..MaxFailures
  /\ app \in {"idle", "io", "detection", "data", "cmd", "thread", "flag",
              "close", "stop", "join", "clear", "observers", "handlers"}
  /\ next_loop \in Loop
  /\ channel_info_ \in SUBSET {"cmd", "data"}
  /\ open \in [Loop -> 0..MaxSessions]
  /\ loop_session \in [Loop -> 0..MaxSessions]
  /\ tasks \in [Loop -> {"none", "add", "remove"}]
  /\ delegate \in [Loop -> 0..MaxSessions] /\ packet \in [Loop -> 0..MaxSessions]
  /\ l_pc \in [Loop -> {"none", "poll", "ondata", "handle", "command", "register",
                        "observe", "tasks", "done"}]
  /\ d_pc \in {"none", "test", "send", "done"}

LEMMA TypeSplit == TypeOK <=> BoolTypes /\ DataTypes
BY Zenon DEF TypeOK, BoolTypes, DataTypes

LEMMA BoolStep ==
  ASSUME LifecycleInv, [Next]_vars
  PROVE  BoolTypes'
<1> USE DEF LifecycleInv, appVars, cfgVars, sockVars, loopVars, detVars
<1>0. BoolTypes /\ DataTypes
  BY TypeSplit
<1>1. CASE UNCHANGED vars
  BY <1>0, Zenon, <1>1 DEF vars, BoolTypes
<1>2. CASE InitBegin
  BY <1>0, Zenon, <1>2 DEF InitBegin, BoolTypes
<1>3. CASE ReplaceIOThread
  BY <1>0, Zenon, <1>3 DEF ReplaceIOThread, BoolTypes
<1>4. CASE StartIOThread
  BY <1>0, Zenon, <1>4 DEF StartIOThread, Post, BoolTypes
<1>5. CASE CreateDetectionChannel
  BY <1>0, Zenon, <1>5 DEF CreateDetectionChannel, Post, BoolTypes
<1>6. CASE CreateChannel
  BY <1>0, Zenon, <1>6 DEF CreateChannel, OpenChannels, Post, BoolTypes
<1>7. CASE StartDetectionThread
  BY <1>0, Zenon, <1>7 DEF StartDetectionThread, BoolTypes
<1>8. CASE InitEnd
  BY <1>0, Zenon, <1>8 DEF InitEnd, BoolTypes
<1>9. CASE InitFails
  BY <1>0, Zenon, <1>9 DEF InitFails, CreateSocketFails, BoolTypes
<1>10. CASE DestoryDelegates
  BY <1>0, Zenon, <1>10 DEF DestoryDelegates, Post, DelegatesToRemove, BoolTypes
<1>11. CASE DestorySockets
  BY <1>0, Zenon, <1>11 DEF DestorySockets, BoolTypes
<1>12. CASE DestoryStop
  BY <1>0, Zenon, <1>12 DEF DestoryStop, BoolTypes
<1>13. CASE DestoryJoin
  BY <1>0, Zenon, <1>13 DEF DestoryJoin, BoolTypes
<1>14. CASE DestoryClear
  BY <1>0, Zenon, <1>14 DEF DestoryClear, BoolTypes
<1>15. CASE DestoryObservers
  BY <1>0, Zenon, <1>15 DEF DestoryObservers, BoolTypes
<1>16. CASE DestoryHandlers
  BY <1>0, Zenon, <1>16 DEF DestoryHandlers, BoolTypes
<1>17. CASE AddPointCloudObserver
  BY <1>0, Zenon, <1>17 DEF AddPointCloudObserver, BoolTypes
<1>18. CASE RemovePointCloudObserver
  BY <1>0, Zenon, <1>18 DEF RemovePointCloudObserver, BoolTypes
<1>19. ASSUME NEW l \in Loop, Poll(l) PROVE BoolTypes'
  BY <1>0, Zenon, <1>19 DEF Poll, Goto, Readable, BoolTypes
<1>20. ASSUME NEW l \in Loop, Receive(l) PROVE BoolTypes'
  BY <1>0, Zenon, <1>20 DEF Receive, BoolTypes
<1>21. ASSUME NEW l \in Loop, Handle(l) PROVE BoolTypes'
  BY <1>0, Zenon, <1>21 DEF Handle, Goto, Leave, BoolTypes
<1>22. ASSUME NEW l \in Loop, Crash(l) PROVE BoolTypes'
  BY <1>0, Zenon, <1>22 DEF Crash, BoolTypes
<1>23. ASSUME NEW l \in Loop, Command(l) PROVE BoolTypes'
  BY <1>0, Zenon, <1>23 DEF Command, OpenChannels, Post, Leave, BoolTypes
<1>24. ASSUME NEW l \in Loop, Register(l) PROVE BoolTypes'
  BY <1>0, Zenon, <1>24 DEF Register, OpenChannels, Post, Leave, CreateSocketFails, BoolTypes
<1>25. ASSUME NEW l \in Loop, Observe(l) PROVE BoolTypes'
  BY <1>0, Zenon, <1>25 DEF Observe, Leave, BoolTypes
<1>26. ASSUME NEW l \in Loop, RunTasks(l) PROVE BoolTypes'
  BY <1>0, Zenon, <1>26 DEF RunTasks, Goto, Post, BoolTypes
<1>27. CASE DetectionTest
  BY <1>0, Zenon, <1>27 DEF DetectionTest, BoolTypes
<1>28. CASE Detection
  BY <1>0, Zenon, <1>28 DEF Detection, BoolTypes
<1> QED BY <1>1, <1>2, <1>3, <1>4, <1>5, <1>6, <1>7, <1>8, <1>9, <1>10, <1>11, <1>12, <1>13,
   <1>14, <1>15, <1>16, <1>17, <1>18, <1>19, <1>20, <1>21, <1>22, <1>23, <1>24, <1>25, <1>26,
      <1>27, <1>28 DEF Next, SdkInit, SdkUninit, Serve

LEMMA DataStep ==
  ASSUME LifecycleInv, [Next]_vars
  PROVE  DataTypes'
<1> USE DEF LifecycleInv, appVars, cfgVars, sockVars, loopVars, detVars
<1>0. BoolTypes /\ DataTypes
  BY TypeSplit
<1>1. CASE UNCHANGED vars
  BY <1>0, BoundsAssumption, <1>1 DEF vars, DataTypes, Loop, DetectionInv
<1>2. CASE InitBegin
  BY <1>0, BoundsAssumption, <1>2 DEF InitBegin, DataTypes, Loop, DetectionInv
<1>3. CASE ReplaceIOThread
  BY <1>0, BoundsAssumption, <1>3 DEF ReplaceIOThread, DataTypes, Loop, DetectionInv
<1>4. CASE StartIOThread
  <2>1. \/ next_loop = "detection" /\ next_loop' = "cmd" /\ app' = app
        \/ next_loop = "cmd" /\ next_loop' = "data" /\ app' = app
        \/ next_loop = "data" /\ next_loop' = next_loop /\ app' = "detection"
    BY <1>0, <1>4 DEF StartIOThread, DataTypes, Loop
  <2>2. app' \in {"io", "detection"} /\ next_loop' \in Loop
    BY <1>4, <2>1 DEF StartIOThread, Loop
  <2> QED BY <1>0, <1>4, <2>2, BoundsAssumption DEF StartIOThread, Post, sockVars, detVars,
     DataTypes
<1>5. CASE CreateDetectionChannel
  BY <1>0, BoundsAssumption, <1>5 DEF CreateDetectionChannel, Post, DataTypes, Loop, DetectionInv
<1>6. CASE CreateChannel
  BY <1>0, BoundsAssumption, <1>6 DEF CreateChannel, OpenChannels, Post, DataTypes, Loop,
     DetectionInv
<1>7. CASE StartDetectionThread
  BY <1>0, BoundsAssumption, <1>7 DEF StartDetectionThread, DataTypes, Loop, DetectionInv
<1>8. CASE InitEnd
  BY <1>0, BoundsAssumption, <1>8 DEF InitEnd, DataTypes, Loop, DetectionInv
<1>9. CASE InitFails
  BY <1>0, BoundsAssumption, <1>9 DEF InitFails, CreateSocketFails, DataTypes, Loop, DetectionInv
<1>10. CASE DestoryDelegates
  BY <1>0, BoundsAssumption, <1>10 DEF DestoryDelegates, Post, DelegatesToRemove, DataTypes, Loop,
     DetectionInv
<1>11. CASE DestorySockets
  BY <1>0, BoundsAssumption, <1>11 DEF DestorySockets, DataTypes, Loop, DetectionInv
<1>12. CASE DestoryStop
  BY <1>0, BoundsAssumption, <1>12 DEF DestoryStop, DataTypes, Loop, DetectionInv
<1>13. CASE DestoryJoin
  BY <1>0, BoundsAssumption, <1>13 DEF DestoryJoin, DataTypes, Loop, DetectionInv
<1>14. CASE DestoryClear
  BY <1>0, BoundsAssumption, <1>14 DEF DestoryClear, DataTypes, Loop, DetectionInv
<1>15. CASE DestoryObservers
  BY <1>0, BoundsAssumption, <1>15 DEF DestoryObservers, DataTypes, Loop, DetectionInv
<1>16. CASE DestoryHandlers
  BY <1>0, BoundsAssumption, <1>16 DEF DestoryHandlers, DataTypes, Loop, DetectionInv
<1>17. CASE AddPointCloudObserver
  BY <1>0, BoundsAssumption, <1>17 DEF AddPointCloudObserver, DataTypes, Loop, DetectionInv
<1>18. CASE RemovePointCloudObserver
  BY <1>0, BoundsAssumption, <1>18 DEF RemovePointCloudObserver, DataTypes, Loop, DetectionInv
<1>19. ASSUME NEW l \in Loop, Poll(l) PROVE DataTypes'
  BY <1>0, BoundsAssumption, <1>19 DEF Poll, Goto, Readable, DataTypes, Loop, DetectionInv
<1>20. ASSUME NEW l \in Loop, Receive(l) PROVE DataTypes'
  BY <1>0, BoundsAssumption, <1>20 DEF Receive, DataTypes, Loop, DetectionInv
<1>21. ASSUME NEW l \in Loop, Handle(l) PROVE DataTypes'
  BY <1>0, BoundsAssumption, <1>21 DEF Handle, Goto, Leave, DataTypes, Loop, DetectionInv
<1>22. ASSUME NEW l \in Loop, Crash(l) PROVE DataTypes'
  BY <1>0, BoundsAssumption, <1>22 DEF Crash, DataTypes, Loop, DetectionInv
<1>23. ASSUME NEW l \in Loop, Command(l) PROVE DataTypes'
  <2>1. loop_session[l] \in 0..MaxSessions /\ {"data"} \in SUBSET {"cmd", "data"}
        /\ TypeOK /\ channel_info_ \subseteq {"cmd", "data"}
        /\ {"data", "cmd"} \in SUBSET {"cmd", "data"}
    BY <1>0 DEF DataTypes
  <2>2. /\ open' \in [Loop -> 0..MaxSessions] /\ tasks' \in [Loop -> {"none", "add", "remove"}]
        /\ channel_info_' \in SUBSET {"cmd", "data"}
    <3>1. CASE UNCHANGED <<sockVars, tasks>>
      BY <1>0, <3>1 DEF DataTypes, sockVars
    <3>2. CASE OpenChannels({"data"}, loop_session[l])
      <4>1. /\ open' \in [Loop -> 0..MaxSessions] /\ tasks' \in [Loop -> {"none", "add", "remove"}]
            /\ channel_info_' = channel_info_ \cup {"data"}
        BY <2>1, <3>2, OpenChannelsFacts, Zenon
      <4> QED BY <1>0, <4>1 DEF DataTypes
    <3> QED BY <1>23, <3>1, <3>2 DEF Command
  <2>3. failures' = failures
    BY <1>23 DEF Command
  <2>4. /\ UNCHANGED <<session, app, next_loop, loop_session, delegate, d_pc>>
        /\ l_pc' = [l_pc EXCEPT ![l] = "tasks"] /\ packet' = [packet EXCEPT ![l] = 0]
    BY <1>23, Zenon DEF Command, Leave, appVars, detVars
  <2> QED BY <1>0, <2>2, <2>3, <2>4, BoundsAssumption DEF DataTypes
<1>24. ASSUME NEW l \in Loop, Register(l) PROVE DataTypes'
  <2>1. loop_session[l] \in 0..MaxSessions /\ {"data"} \in SUBSET {"cmd", "data"}
        /\ TypeOK /\ channel_info_ \subseteq {"cmd", "data"}
        /\ {"data", "cmd"} \in SUBSET {"cmd", "data"}
    BY <1>0 DEF DataTypes
  <2>2. /\ open' \in [Loop -> 0..MaxSessions] /\ tasks' \in [Loop -> {"none", "add", "remove"}]
        /\ channel_info_' \in SUBSET {"cmd", "data"}
    <3>1. CASE UNCHANGED <<sockVars, tasks>>
      BY <1>0, <3>1 DEF DataTypes, sockVars
    <3>2. CASE OpenChannels({"data"}, loop_session[l])
      <4>1. /\ open' \in [Loop -> 0..MaxSessions] /\ tasks' \in [Loop -> {"none", "add", "remove"}]
            /\ channel_info_' = channel_info_ \cup {"data"}
        BY <2>1, <3>2, OpenChannelsFacts, Zenon
      <4> QED BY <1>0, <4>1 DEF DataTypes
    <3>3. CASE OpenChannels({"data", "cmd"}, loop_session[l])
      <4>1. /\ open' \in [Loop -> 0..MaxSessions] /\ tasks' \in [Loop -> {"none", "add", "remove"}]
            /\ channel_info_' = channel_info_ \cup {"data", "cmd"}
        BY <2>1, <3>3, OpenChannelsFacts, Zenon
      <4> QED BY <1>0, <4>1 DEF DataTypes
    <3> QED BY <1>24, <3>1, <3>2, <3>3 DEF Register
  <2>3. failures' \in 0..MaxFailures
    BY <1>0, <1>24, BoundsAssumption DEF Register, CreateSocketFails, DataTypes
  <2>4. /\ UNCHANGED <<session, app, next_loop, loop_session, delegate, d_pc>>
        /\ l_pc' = [l_pc EXCEPT ![l] = "tasks"] /\ packet' = [packet EXCEPT ![l] = 0]
    BY <1>24, Zenon DEF Register, Leave, appVars, detVars
  <2> QED BY <1>0, <2>2, <2>3, <2>4, BoundsAssumption DEF DataTypes
<1>25. ASSUME NEW l \in Loop, Observe(l) PROVE DataTypes'
  BY <1>0, BoundsAssumption, <1>25 DEF Observe, Leave, DataTypes, Loop, DetectionInv
<1>26. ASSUME NEW l \in Loop, RunTasks(l) PROVE DataTypes'
  BY <1>0, BoundsAssumption, <1>26 DEF RunTasks, Goto, Post, DataTypes, Loop, DetectionInv
<1>27. CASE DetectionTest
  BY <1>0, BoundsAssumption, <1>27 DEF DetectionTest, DataTypes, Loop, DetectionInv
<1>28. CASE Detection
  BY <1>0, BoundsAssumption, <1>28 DEF Detection, DataTypes, Loop, DetectionInv
<1> QED BY <1>1, <1>2, <1>3, <1>4, <1>5, <1>6, <1>7, <1>8, <1>9, <1>10, <1>11, <1>12, <1>13,
   <1>14, <1>15, <1>16, <1>17, <1>18, <1>19, <1>20, <1>21, <1>22, <1>23, <1>24, <1>25, <1>26,
      <1>27, <1>28 DEF Next, SdkInit, SdkUninit, Serve

LEMMA SessionStep ==
  ASSUME LifecycleInv, [Next]_vars
  PROVE  SessionInv'
<1> USE DEF LifecycleInv, appVars, cfgVars, sockVars, loopVars, detVars
<1>1. CASE UNCHANGED vars
  BY <1>1 DEF vars, SessionInv, TypeOK, Loop, Restarted, Busy, DetectionInv
<1>2. CASE InitBegin
  BY <1>2 DEF InitBegin, SessionInv, TypeOK, Loop, Restarted, Busy, DetectionInv
<1>3. CASE ReplaceIOThread
  BY <1>3 DEF ReplaceIOThread, SessionInv, TypeOK, Loop, Restarted, Busy, DetectionInv
<1>4. CASE StartIOThread
  <2>1. /\ app = "io" /\ next_loop \in Loop
        /\ \/ next_loop = "detection" /\ next_loop' = "cmd" /\ app' = app
           \/ next_loop = "cmd" /\ next_loop' = "data" /\ app' = app
           \/ next_loop = "data" /\ next_loop' = next_loop /\ app' = "detection"
    BY <1>4 DEF StartIOThread, TypeOK, Loop
  <2>2. /\ l_pc' = [l_pc EXCEPT ![next_loop] = "poll"]
        /\ loop_session' = [loop_session EXCEPT ![next_loop] = session]
        /\ delegate' = [delegate EXCEPT ![next_loop] = 0]
        /\ tasks' = [l \in Loop |-> IF l = next_loop THEN "none" ELSE tasks[l]]
        /\ open' = open /\ packet' = packet /\ session' = session
    BY <1>4 DEF StartIOThread, Post, sockVars
  <2>3. /\ l_pc'[next_loop] = "poll" /\ loop_session'[next_loop] = session
        /\ delegate'[next_loop] = 0 /\ tasks'[next_loop] = "none"
        /\ \A l \in Loop \ {next_loop} :
             /\ l_pc'[l] = l_pc[l] /\ loop_session'[l] = loop_session[l]
             /\ delegate'[l] = delegate[l] /\ tasks'[l] = tasks[l]
    BY <2>1, <2>2 DEF TypeOK
  <2>4. CASE next_loop = "detection"
    BY <2>1, <2>2, <2>3, <2>4 DEF SessionInv, Restarted, Busy, Loop
  <2>5. CASE next_loop = "cmd"
    BY <2>1, <2>2, <2>3, <2>5 DEF SessionInv, Restarted, Busy, Loop
  <2>6. CASE next_loop = "data"
    BY <2>1, <2>2, <2>3, <2>6 DEF SessionInv, Restarted, Busy, Loop
  <2> QED BY <2>1, <2>4, <2>5, <2>6
<1>5. CASE CreateDetectionChannel
  BY <1>5 DEF CreateDetectionChannel, Post, SessionInv, TypeOK, Loop, Restarted, Busy, DetectionInv
<1>6. CASE CreateChannel
  BY <1>6 DEF CreateChannel, OpenChannels, Post, SessionInv, TypeOK, Loop, Restarted, Busy,
     DetectionInv
<1>7. CASE StartDetectionThread
  BY <1>7 DEF StartDetectionThread, SessionInv, TypeOK, Loop, Restarted, Busy, DetectionInv
<1>8. CASE InitEnd
  BY <1>8 DEF InitEnd, SessionInv, TypeOK, Loop, Restarted, Busy, DetectionInv
<1>9. CASE InitFails
  BY <1>9 DEF InitFails, CreateSocketFails, SessionInv, TypeOK, Loop, Restarted, Busy, DetectionInv
<1>10. CASE DestoryDelegates
  BY <1>10 DEF DestoryDelegates, Post, DelegatesToRemove, SessionInv, TypeOK, Loop, Restarted,
     Busy, DetectionInv
<1>11. CASE DestorySockets
  BY <1>11 DEF DestorySockets, SessionInv, TypeOK, Loop, Restarted, Busy, DetectionInv
<1>12. CASE DestoryStop
  BY <1>12 DEF DestoryStop, SessionInv, TypeOK, Loop, Restarted, Busy, DetectionInv
<1>13. CASE DestoryJoin
  BY <1>13 DEF DestoryJoin, SessionInv, TypeOK, Loop, Restarted, Busy, DetectionInv
<1>14. CASE DestoryClear
  BY <1>14 DEF DestoryClear, SessionInv, TypeOK, Loop, Restarted, Busy, DetectionInv
<1>15. CASE DestoryObservers
  BY <1>15 DEF DestoryObservers, SessionInv, TypeOK, Loop, Restarted, Busy, DetectionInv
<1>16. CASE DestoryHandlers
  BY <1>16 DEF DestoryHandlers, SessionInv, TypeOK, Loop, Restarted, Busy, DetectionInv
<1>17. CASE AddPointCloudObserver
  BY <1>17 DEF AddPointCloudObserver, SessionInv, TypeOK, Loop, Restarted, Busy, DetectionInv
<1>18. CASE RemovePointCloudObserver
  BY <1>18 DEF RemovePointCloudObserver, SessionInv, TypeOK, Loop, Restarted, Busy, DetectionInv
<1>19. ASSUME NEW l \in Loop, Poll(l) PROVE SessionInv'
  BY <1>19 DEF Poll, Goto, Readable, SessionInv, TypeOK, Loop, Restarted, Busy, DetectionInv
<1>20. ASSUME NEW l \in Loop, Receive(l) PROVE SessionInv'
  BY <1>20 DEF Receive, SessionInv, TypeOK, Loop, Restarted, Busy, DetectionInv
<1>21. ASSUME NEW l \in Loop, Handle(l) PROVE SessionInv'
  BY <1>21 DEF Handle, Goto, Leave, SessionInv, TypeOK, Loop, Restarted, Busy, DetectionInv
<1>22. ASSUME NEW l \in Loop, Crash(l) PROVE SessionInv'
  BY <1>22 DEF Crash, SessionInv, TypeOK, Loop, Restarted, Busy, DetectionInv
<1>23. ASSUME NEW l \in Loop, Command(l) PROVE SessionInv'
  BY <1>23 DEF Command, OpenChannels, Post, Leave, SessionInv, TypeOK, Loop, Restarted, Busy,
     DetectionInv
<1>24. ASSUME NEW l \in Loop, Register(l) PROVE SessionInv'
  BY <1>24 DEF Register, OpenChannels, Post, Leave, CreateSocketFails, SessionInv, TypeOK, Loop,
     Restarted, Busy, DetectionInv
<1>25. ASSUME NEW l \in Loop, Observe(l) PROVE SessionInv'
  BY <1>25 DEF Observe, Leave, SessionInv, TypeOK, Loop, Restarted, Busy, DetectionInv
<1>26. ASSUME NEW l \in Loop, RunTasks(l) PROVE SessionInv'
  BY <1>26 DEF RunTasks, Goto, Post, SessionInv, TypeOK, Loop, Restarted, Busy, DetectionInv
<1>27. CASE DetectionTest
  BY <1>27 DEF DetectionTest, SessionInv, TypeOK, Loop, Restarted, Busy, DetectionInv
<1>28. CASE Detection
  BY <1>28 DEF Detection, SessionInv, TypeOK, Loop, Restarted, Busy, DetectionInv
<1> QED BY <1>1, <1>2, <1>3, <1>4, <1>5, <1>6, <1>7, <1>8, <1>9, <1>10, <1>11, <1>12, <1>13,
   <1>14, <1>15, <1>16, <1>17, <1>18, <1>19, <1>20, <1>21, <1>22, <1>23, <1>24, <1>25, <1>26,
      <1>27, <1>28 DEF Next, SdkInit, SdkUninit, Serve

LEMMA DetectionStep ==
  ASSUME LifecycleInv, [Next]_vars
  PROVE  DetectionInv'
<1> USE DEF LifecycleInv, appVars, cfgVars, sockVars, loopVars, detVars
<1>1. CASE UNCHANGED vars
  BY <1>1 DEF vars, DetectionInv, TypeOK, Loop
<1>2. CASE InitBegin
  BY <1>2 DEF InitBegin, DetectionInv, TypeOK, Loop
<1>3. CASE ReplaceIOThread
  BY <1>3 DEF ReplaceIOThread, DetectionInv, TypeOK, Loop
<1>4. CASE StartIOThread
  BY <1>4 DEF StartIOThread, Post, DetectionInv, TypeOK, Loop
<1>5. CASE CreateDetectionChannel
  BY <1>5 DEF CreateDetectionChannel, Post, DetectionInv, TypeOK, Loop
<1>6. CASE CreateChannel
  BY <1>6 DEF CreateChannel, OpenChannels, Post, DetectionInv, TypeOK, Loop
<1>7. CASE StartDetectionThread
  BY <1>7 DEF StartDetectionThread, DetectionInv, TypeOK, Loop
<1>8. CASE InitEnd
  BY <1>8 DEF InitEnd, DetectionInv, TypeOK, Loop
<1>9. CASE InitFails
  BY <1>9 DEF InitFails, CreateSocketFails, DetectionInv, TypeOK, Loop
<1>10. CASE DestoryDelegates
  BY <1>10 DEF DestoryDelegates, Post, DelegatesToRemove, DetectionInv, TypeOK, Loop
<1>11. CASE DestorySockets
  BY <1>11 DEF DestorySockets, DetectionInv, TypeOK, Loop
<1>12. CASE DestoryStop
  BY <1>12 DEF DestoryStop, DetectionInv, TypeOK, Loop
<1>13. CASE DestoryJoin
  BY <1>13 DEF DestoryJoin, DetectionInv, TypeOK, Loop
<1>14. CASE DestoryClear
  BY <1>14 DEF DestoryClear, DetectionInv, TypeOK, Loop
<1>15. CASE DestoryObservers
  BY <1>15 DEF DestoryObservers, DetectionInv, TypeOK, Loop
<1>16. CASE DestoryHandlers
  BY <1>16 DEF DestoryHandlers, DetectionInv, TypeOK, Loop
<1>17. CASE AddPointCloudObserver
  BY <1>17 DEF AddPointCloudObserver, DetectionInv, TypeOK, Loop
<1>18. CASE RemovePointCloudObserver
  BY <1>18 DEF RemovePointCloudObserver, DetectionInv, TypeOK, Loop
<1>19. ASSUME NEW l \in Loop, Poll(l) PROVE DetectionInv'
  BY <1>19 DEF Poll, Goto, Readable, DetectionInv, TypeOK, Loop
<1>20. ASSUME NEW l \in Loop, Receive(l) PROVE DetectionInv'
  BY <1>20 DEF Receive, DetectionInv, TypeOK, Loop
<1>21. ASSUME NEW l \in Loop, Handle(l) PROVE DetectionInv'
  BY <1>21 DEF Handle, Goto, Leave, DetectionInv, TypeOK, Loop
<1>22. ASSUME NEW l \in Loop, Crash(l) PROVE DetectionInv'
  BY <1>22 DEF Crash, DetectionInv, TypeOK, Loop
<1>23. ASSUME NEW l \in Loop, Command(l) PROVE DetectionInv'
  BY <1>23 DEF Command, OpenChannels, Post, Leave, DetectionInv, TypeOK, Loop
<1>24. ASSUME NEW l \in Loop, Register(l) PROVE DetectionInv'
  BY <1>24 DEF Register, OpenChannels, Post, Leave, CreateSocketFails, DetectionInv, TypeOK, Loop
<1>25. ASSUME NEW l \in Loop, Observe(l) PROVE DetectionInv'
  BY <1>25 DEF Observe, Leave, DetectionInv, TypeOK, Loop
<1>26. ASSUME NEW l \in Loop, RunTasks(l) PROVE DetectionInv'
  BY <1>26 DEF RunTasks, Goto, Post, DetectionInv, TypeOK, Loop
<1>27. CASE DetectionTest
  BY <1>27 DEF DetectionTest, DetectionInv, TypeOK, Loop
<1>28. CASE Detection
  BY <1>28 DEF Detection, DetectionInv, TypeOK, Loop
<1> QED BY <1>1, <1>2, <1>3, <1>4, <1>5, <1>6, <1>7, <1>8, <1>9, <1>10, <1>11, <1>12, <1>13,
   <1>14, <1>15, <1>16, <1>17, <1>18, <1>19, <1>20, <1>21, <1>22, <1>23, <1>24, <1>25, <1>26,
      <1>27, <1>28 DEF Next, SdkInit, SdkUninit, Serve

LEMMA RemovedStep ==
  ASSUME LifecycleInv, [Next]_vars
  PROVE  RemovedIsQuiet'
<1> USE DEF LifecycleInv, appVars, cfgVars, sockVars, loopVars, detVars
<1>1. CASE UNCHANGED vars
  BY <1>1 DEF vars, RemovedIsQuiet, TypeOK, Loop, MutexFree
<1>2. CASE InitBegin
  BY <1>2 DEF InitBegin, RemovedIsQuiet, TypeOK, Loop, MutexFree
<1>3. CASE ReplaceIOThread
  BY <1>3 DEF ReplaceIOThread, RemovedIsQuiet, TypeOK, Loop, MutexFree
<1>4. CASE StartIOThread
  BY <1>4 DEF StartIOThread, Post, RemovedIsQuiet, TypeOK, Loop, MutexFree
<1>5. CASE CreateDetectionChannel
  BY <1>5 DEF CreateDetectionChannel, Post, RemovedIsQuiet, TypeOK, Loop, MutexFree
<1>6. CASE CreateChannel
  BY <1>6 DEF CreateChannel, OpenChannels, Post, RemovedIsQuiet, TypeOK, Loop, MutexFree
<1>7. CASE StartDetectionThread
  BY <1>7 DEF StartDetectionThread, RemovedIsQuiet, TypeOK, Loop, MutexFree
<1>8. CASE InitEnd
  BY <1>8 DEF InitEnd, RemovedIsQuiet, TypeOK, Loop, MutexFree
<1>9. CASE InitFails
  BY <1>9 DEF InitFails, CreateSocketFails, RemovedIsQuiet, TypeOK, Loop, MutexFree
<1>10. CASE DestoryDelegates
  BY <1>10 DEF DestoryDelegates, Post, DelegatesToRemove, RemovedIsQuiet, TypeOK, Loop, MutexFree
<1>11. CASE DestorySockets
  BY <1>11 DEF DestorySockets, RemovedIsQuiet, TypeOK, Loop, MutexFree
<1>12. CASE DestoryStop
  BY <1>12 DEF DestoryStop, RemovedIsQuiet, TypeOK, Loop, MutexFree
<1>13. CASE DestoryJoin
  BY <1>13 DEF DestoryJoin, RemovedIsQuiet, TypeOK, Loop, MutexFree
<1>14. CASE DestoryClear
  BY <1>14 DEF DestoryClear, RemovedIsQuiet, TypeOK, Loop, MutexFree
<1>15. CASE DestoryObservers
  BY <1>15 DEF DestoryObservers, RemovedIsQuiet, TypeOK, Loop, MutexFree
<1>16. CASE DestoryHandlers
  BY <1>16 DEF DestoryHandlers, RemovedIsQuiet, TypeOK, Loop, MutexFree
<1>17. CASE AddPointCloudObserver
  BY <1>17 DEF AddPointCloudObserver, RemovedIsQuiet, TypeOK, Loop, MutexFree
<1>18. CASE RemovePointCloudObserver
  BY <1>18 DEF RemovePointCloudObserver, RemovedIsQuiet, TypeOK, Loop, MutexFree
<1>19. ASSUME NEW l \in Loop, Poll(l) PROVE RemovedIsQuiet'
  BY <1>19 DEF Poll, Goto, Readable, RemovedIsQuiet, TypeOK, Loop, MutexFree
<1>20. ASSUME NEW l \in Loop, Receive(l) PROVE RemovedIsQuiet'
  BY <1>20 DEF Receive, RemovedIsQuiet, TypeOK, Loop, MutexFree
<1>21. ASSUME NEW l \in Loop, Handle(l) PROVE RemovedIsQuiet'
  BY <1>21 DEF Handle, Goto, Leave, RemovedIsQuiet, TypeOK, Loop, MutexFree
<1>22. ASSUME NEW l \in Loop, Crash(l) PROVE RemovedIsQuiet'
  BY <1>22 DEF Crash, RemovedIsQuiet, TypeOK, Loop, MutexFree
<1>23. ASSUME NEW l \in Loop, Command(l) PROVE RemovedIsQuiet'
  BY <1>23 DEF Command, OpenChannels, Post, Leave, RemovedIsQuiet, TypeOK, Loop, MutexFree
<1>24. ASSUME NEW l \in Loop, Register(l) PROVE RemovedIsQuiet'
  BY <1>24 DEF Register, OpenChannels, Post, Leave, CreateSocketFails, RemovedIsQuiet, TypeOK,
     Loop, MutexFree
<1>25. ASSUME NEW l \in Loop, Observe(l) PROVE RemovedIsQuiet'
  BY <1>25 DEF Observe, Leave, RemovedIsQuiet, TypeOK, Loop, MutexFree
<1>26. ASSUME NEW l \in Loop, RunTasks(l) PROVE RemovedIsQuiet'
  BY <1>26 DEF RunTasks, Goto, Post, RemovedIsQuiet, TypeOK, Loop, MutexFree
<1>27. CASE DetectionTest
  BY <1>27 DEF DetectionTest, RemovedIsQuiet, TypeOK, Loop, MutexFree
<1>28. CASE Detection
  BY <1>28 DEF Detection, RemovedIsQuiet, TypeOK, Loop, MutexFree
<1> QED BY <1>1, <1>2, <1>3, <1>4, <1>5, <1>6, <1>7, <1>8, <1>9, <1>10, <1>11, <1>12, <1>13,
   <1>14, <1>15, <1>16, <1>17, <1>18, <1>19, <1>20, <1>21, <1>22, <1>23, <1>24, <1>25, <1>26,
      <1>27, <1>28 DEF Next, SdkInit, SdkUninit, Serve

(* Channels that a loop opens are listened to, or it was late.              *)
LEMMA OpenedStillListens ==
  ASSUME LifecycleInv, NEW l \in Loop, l_pc[l] \in Busy, NEW cs \in SUBSET {"cmd", "data"},
         OpenChannels(cs, loop_session[l]), late' = (late \/ Late(l)),
         UNCHANGED <<session, failures, app, is_initialized, delegate>>
  PROVE  ListenInv'
<1> USE DEF LifecycleInv
<1>1. /\ channel_info_' = channel_info_ \cup cs
      /\ \A m \in Loop :
           \/ m \in cs /\ m \notin channel_info_ /\ open'[m] = loop_session[l] /\ tasks'[m] = "add"
           \/ (m \notin cs \/ m \in channel_info_) /\ open'[m] = open[m] /\ tasks'[m] = tasks[m]
  <2>1. loop_session[l] \in 0..MaxSessions /\ channel_info_ \subseteq {"cmd", "data"}
    BY DEF TypeOK
  <2> QED BY <2>1, OpenChannelsFacts
<1>2. app = "detection" \/ Running => \A m \in Loop : tasks'[m] # "remove"
  BY <1>1 DEF ListenInv
<1>3. ASSUME failures = 0, ~late, ~Late(l)
      PROVE  /\ Between => channel_info_' = {}
             /\ Running => \A m \in {"detection"} \cup channel_info_' :
                  open'[m] = session /\ (delegate[m] = session \/ tasks'[m] = "add")
  <2>1. loop_session[l] = session
    BY <1>3 DEF Late
  <2>2. ~Between
    <3>1. session \in Int
      BY DEF TypeOK
    <3>2. app \notin {"io", "detection"}
      BY <2>1, <3>1 DEF SessionInv, Restarted, Busy
    <3> QED BY <1>3, <3>2 DEF Late, Between
  <2>3. "detection" \in Loop /\ "detection" \notin cs /\ cs \subseteq Loop /\ channel_info_ \subseteq Loop
    BY DEF TypeOK, Loop
  <2>4. ASSUME Running, NEW m \in {"detection"} \cup channel_info_'
        PROVE  open'[m] = session /\ (delegate[m] = session \/ tasks'[m] = "add")
    BY <1>1, <1>3, <2>1, <2>3, <2>4 DEF ListenInv
  <2> QED BY <2>2, <2>4
<1>4. (Running' <=> Running) /\ (Between' <=> Between)
  BY DEF Running, Between
<1> QED BY <1>2, <1>3, <1>4 DEF ListenInv

LEMMA ListenStep ==
  ASSUME LifecycleInv, [Next]_vars
  PROVE  ListenInv'
<1> USE DEF LifecycleInv, appVars, cfgVars, sockVars, loopVars, detVars
<1>1. CASE UNCHANGED vars
  BY <1>1 DEF vars, ListenInv, Running, Between, TypeOK, Loop, DetectionInv, SessionInv,
     Restarted, Busy, Late
<1>2. CASE InitBegin
  BY <1>2 DEF InitBegin, ListenInv, Running, Between, TypeOK, Loop, DetectionInv, SessionInv,
     Restarted, Busy, Late
<1>3. CASE ReplaceIOThread
  BY <1>3 DEF ReplaceIOThread, ListenInv, Running, Between, TypeOK, Loop, DetectionInv,
     SessionInv, Restarted, Busy, Late
<1>4. CASE StartIOThread
  BY <1>4 DEF StartIOThread, Post, ListenInv, Running, Between, TypeOK, Loop, DetectionInv,
     SessionInv, Restarted, Busy, Late
<1>5. CASE CreateDetectionChannel
  BY <1>5 DEF CreateDetectionChannel, Post, ListenInv, Running, Between, TypeOK, Loop,
     DetectionInv, SessionInv, Restarted, Busy, Late
<1>6. CASE CreateChannel
  BY <1>6 DEF CreateChannel, OpenChannels, Post, ListenInv, Running, Between, TypeOK, Loop,
     DetectionInv, SessionInv, Restarted, Busy, Late
<1>7. CASE StartDetectionThread
  BY <1>7 DEF StartDetectionThread, ListenInv, Running, Between, TypeOK, Loop, DetectionInv,
     SessionInv, Restarted, Busy, Late
<1>8. CASE InitEnd
  BY <1>8 DEF InitEnd, ListenInv, Running, Between, TypeOK, Loop, DetectionInv, SessionInv,
     Restarted, Busy, Late
<1>9. CASE InitFails
  BY <1>9 DEF InitFails, CreateSocketFails, ListenInv, Running, Between, TypeOK, Loop,
     DetectionInv, SessionInv, Restarted, Busy, Late
<1>10. CASE DestoryDelegates
  BY <1>10 DEF DestoryDelegates, Post, DelegatesToRemove, ListenInv, Running, Between, TypeOK,
     Loop, DetectionInv, SessionInv, Restarted, Busy, Late
<1>11. CASE DestorySockets
  BY <1>11 DEF DestorySockets, ListenInv, Running, Between, TypeOK, Loop, DetectionInv,
     SessionInv, Restarted, Busy, Late
<1>12. CASE DestoryStop
  BY <1>12 DEF DestoryStop, ListenInv, Running, Between, TypeOK, Loop, DetectionInv, SessionInv,
     Restarted, Busy, Late
<1>13. CASE DestoryJoin
  BY <1>13 DEF DestoryJoin, ListenInv, Running, Between, TypeOK, Loop, DetectionInv, SessionInv,
     Restarted, Busy, Late
<1>14. CASE DestoryClear
  BY <1>14 DEF DestoryClear, ListenInv, Running, Between, TypeOK, Loop, DetectionInv, SessionInv,
     Restarted, Busy, Late
<1>15. CASE DestoryObservers
  BY <1>15 DEF DestoryObservers, ListenInv, Running, Between, TypeOK, Loop, DetectionInv,
     SessionInv, Restarted, Busy, Late
<1>16. CASE DestoryHandlers
  BY <1>16 DEF DestoryHandlers, ListenInv, Running, Between, TypeOK, Loop, DetectionInv,
     SessionInv, Restarted, Busy, Late
<1>17. CASE AddPointCloudObserver
  BY <1>17 DEF AddPointCloudObserver, ListenInv, Running, Between, TypeOK, Loop, DetectionInv,
     SessionInv, Restarted, Busy, Late
<1>18. CASE RemovePointCloudObserver
  BY <1>18 DEF RemovePointCloudObserver, ListenInv, Running, Between, TypeOK, Loop, DetectionInv,
     SessionInv, Restarted, Busy, Late
<1>19. ASSUME NEW l \in Loop, Poll(l) PROVE ListenInv'
  BY <1>19 DEF Poll, Goto, Readable, ListenInv, Running, Between, TypeOK, Loop, DetectionInv,
     SessionInv, Restarted, Busy, Late
<1>20. ASSUME NEW l \in Loop, Receive(l) PROVE ListenInv'
  BY <1>20 DEF Receive, ListenInv, Running, Between, TypeOK, Loop, DetectionInv, SessionInv,
     Restarted, Busy, Late
<1>21. ASSUME NEW l \in Loop, Handle(l) PROVE ListenInv'
  BY <1>21 DEF Handle, Goto, Leave, ListenInv, Running, Between, TypeOK, Loop, DetectionInv,
     SessionInv, Restarted, Busy, Late
<1>22. ASSUME NEW l \in Loop, Crash(l) PROVE ListenInv'
  BY <1>22 DEF Crash, ListenInv, Running, Between, TypeOK, Loop, DetectionInv, SessionInv,
     Restarted, Busy, Late
<1>23. ASSUME NEW l \in Loop, Command(l) PROVE ListenInv'
  <2>0. /\ loop_session[l] \in 0..MaxSessions /\ {"data"} \in SUBSET {"cmd", "data"}
        /\ {"data", "cmd"} \in SUBSET {"cmd", "data"}
        /\ channel_info_ \subseteq {"cmd", "data"} /\ l_pc[l] \in Busy
    BY <1>23 DEF TypeOK, Command, Register, Busy
  <2>1. UNCHANGED <<session, failures, app, is_initialized, delegate>>
    BY <1>23 DEF Command, appVars
  <2>2. CASE UNCHANGED <<sockVars, tasks, late>>
    BY <2>1, <2>2, Zenon DEF ListenInv, Running, Between, sockVars
  <2>3. CASE OpenChannels({"data"}, loop_session[l]) /\ late' = (late \/ Late(l))
    BY <2>0, <2>1, <2>3, OpenedStillListens, Zenon
  <2> QED BY <1>23, <2>2, <2>3 DEF Command
<1>24. ASSUME NEW l \in Loop, Register(l) PROVE ListenInv'
  <2>0. /\ loop_session[l] \in 0..MaxSessions /\ {"data"} \in SUBSET {"cmd", "data"}
        /\ {"data", "cmd"} \in SUBSET {"cmd", "data"}
        /\ channel_info_ \subseteq {"cmd", "data"} /\ l_pc[l] \in Busy
    BY <1>24 DEF TypeOK, Command, Register, Busy
  <2>1. UNCHANGED <<session, app, is_initialized, delegate>> /\ late' = (late \/ Late(l))
    BY <1>24 DEF Register, appVars
  <2>2. CASE OpenChannels({"data", "cmd"}, loop_session[l]) /\ failures' = failures
    BY <2>0, <2>1, <2>2, OpenedStillListens, Zenon
  <2>3. CASE CreateSocketFails /\ (UNCHANGED <<sockVars, tasks>> \/ OpenChannels({"data"},
     loop_session[l]))
    <3>1. failures' # 0
      BY <2>3 DEF CreateSocketFails, TypeOK
    <3>2. app = "detection" \/ Running => \A m \in Loop : tasks'[m] # "remove"
      <4>1. CASE UNCHANGED <<sockVars, tasks>>
        BY <4>1 DEF ListenInv, sockVars
      <4>2. CASE OpenChannels({"data"}, loop_session[l])
        BY <2>0, <4>2, OpenChannelsFacts DEF ListenInv
      <4> QED BY <2>3, <4>1, <4>2
    <3> QED BY <2>1, <3>1, <3>2 DEF ListenInv, Running
  <2> QED BY <1>24, <2>2, <2>3 DEF Register
<1>25. ASSUME NEW l \in Loop, Observe(l) PROVE ListenInv'
  BY <1>25 DEF Observe, Leave, ListenInv, Running, Between, TypeOK, Loop, DetectionInv,
     SessionInv, Restarted, Busy, Late
<1>26. ASSUME NEW l \in Loop, RunTasks(l) PROVE ListenInv'
  BY <1>26 DEF RunTasks, Goto, Post, ListenInv, Running, Between, TypeOK, Loop, DetectionInv,
     SessionInv, Restarted, Busy, Late
<1>27. CASE DetectionTest
  BY <1>27 DEF DetectionTest, ListenInv, Running, Between, TypeOK, Loop, DetectionInv, SessionInv,
     Restarted, Busy, Late
<1>28. CASE Detection
  BY <1>28 DEF Detection, ListenInv, Running, Between, TypeOK, Loop, DetectionInv, SessionInv,
     Restarted, Busy, Late
<1> QED BY <1>1, <1>2, <1>3, <1>4, <1>5, <1>6, <1>7, <1>8, <1>9, <1>10, <1>11, <1>12, <1>13,
   <1>14, <1>15, <1>16, <1>17, <1>18, <1>19, <1>20, <1>21, <1>22, <1>23, <1>24, <1>25, <1>26,
      <1>27, <1>28 DEF Next, SdkInit, SdkUninit, Serve

-----------------------------------------------------------------------------
LEMMA InitLifecycleInv == Init => LifecycleInv
<1> SUFFICES ASSUME Init PROVE LifecycleInv
  OBVIOUS
<1>1. BoolTypes
  BY Zenon DEF Init, BoolTypes
<1>2. DataTypes
  BY BoundsAssumption DEF Init, DataTypes, Loop
<1>3. SessionInv /\ RemovedIsQuiet
  BY DEF Init, SessionInv, RemovedIsQuiet, Restarted, Busy
<1>4. DetectionInv /\ ListenInv
  BY DEF Init, DetectionInv, ListenInv, Running, Between
<1> QED BY <1>1, <1>2, <1>3, <1>4, TypeSplit DEF LifecycleInv

LEMMA LifecycleInvHolds == Spec => []LifecycleInv
<1>1. LifecycleInv /\ [Next]_vars => LifecycleInv'
  <2> SUFFICES ASSUME LifecycleInv, [Next]_vars PROVE LifecycleInv'
    OBVIOUS
  <2>1. TypeOK'
    BY BoolStep, DataStep, TypeSplit, Zenon DEF TypeOK, BoolTypes, DataTypes
  <2> QED BY <2>1, SessionStep, DetectionStep, RemovedStep, ListenStep DEF LifecycleInv
<1> QED BY <1>1, InitLifecycleInv, PTL DEF Spec

(***************************************************************************)
(* The theorems.                                                           *)
(***************************************************************************)

(* Every variable keeps its type. *)
THEOREM TypeCorrect == Spec => []TypeOK
<1>1. LifecycleInv => TypeOK
  BY DEF LifecycleInv
<1> QED BY <1>1, LifecycleInvHolds, PTL

(* A loop handles only packets of its own session, however often Init and   *)
(* Uninit are called and whatever descriptors are used again.              *)
THEOREM PacketsOfOwnSession == Spec => []OwnSession
<1>1. LifecycleInv => OwnSession
  BY DEF LifecycleInv, SessionInv, OwnSession, Busy
<1> QED BY <1>1, LifecycleInvHolds, PTL

(* The detection thread never uses a socket or a CommPort that is gone.     *)
THEOREM BroadcastIsUsable == Spec => []BroadcastUsable
<1>1. LifecycleInv => BroadcastUsable
  BY DEF LifecycleInv, DetectionInv, BroadcastUsable
<1> QED BY <1>1, LifecycleInvHolds, PTL

(* No loop calls an observer that was removed.                             *)
THEOREM RemovedObserverIsQuiet == Spec => []RemovedIsQuiet
<1>1. LifecycleInv => RemovedIsQuiet
  BY DEF LifecycleInv
<1> QED BY <1>1, LifecycleInvHolds, PTL

(* An initialised SDK listens to all its sockets, if none failed and none   *)
(* was opened for a session that was over.                                 *)
THEOREM InitialisedListens == Spec => []Listens
<1>1. LifecycleInv => Listens
  <2> SUFFICES ASSUME LifecycleInv, is_initialized, app = "idle", failures = 0, ~late,
                      NEW l \in {"detection"} \cup channel_info_
               PROVE  /\ open[l] = session /\ loop_session[l] = session
                      /\ delegate[l] = session \/ tasks[l] = "add"
    BY Zenon DEF Listens
  <2>1. open[l] = session /\ (delegate[l] = session \/ tasks[l] = "add")
    BY DEF LifecycleInv, ListenInv, Running
  <2>2. l \in Loop
    BY DEF LifecycleInv, DetectionInv, Loop
  <2> QED BY <2>1, <2>2 DEF LifecycleInv, SessionInv
<1> QED BY <1>1, LifecycleInvHolds, PTL
=============================================================================
