---------------------------- MODULE LidarBringUp ----------------------------
(***************************************************************************)
(* From the first answer of a lidar to the detection broadcast until the   *)
(* SDK calls the info-change callback for it (GeneralCommandHandler and    *)
(* UpdateLidarCfg, UpdateLidarCallback of the lidar's handler).  The first *)
(* detection asks for the firmware type; a later one sends the network     *)
(* configuration to a lidar that runs its application, or announces a      *)
(* lidar that runs its loader.  The callbacks run on three IO loops; a     *)
(* step ends at each access to the counter or the flags that they share    *)
(* (the flags a detection looks at are loaded in one).                     *)
(*                                                                         *)
(* All lidars are in the user's configuration and the SDK is the master.   *)
(* A command sent gets one verdict or more (CommandTable!VerdictShape), and *)
(* several may be under way to one lidar: queries and cfgs keep only that  *)
(* there is some, and a verdict may be the last or not.                    *)
(***************************************************************************)
EXTENDS Naturals

CONSTANTS
  Loop,          \* the IO threads: detection, cmd and data in the code
  Lidar,         \* handles
  Hap,           \* those that go through HapCommandHandler
  MaxRetry       \* 10: failed queries before the SDK gives up

ASSUME LoopAssumption == {"detection", "cmd"} \subseteq Loop
ASSUME HapAssumption == Hap \subseteq Lidar
ASSUME MaxRetryAssumption == MaxRetry \in Nat

(* Firmware types; GaveUp stands for 1 too, passed after too many retries.  *)
Loader == 0
App    == 1
GaveUp == 2

VARIABLES
  firmware,          \* what each lidar runs
  devices,           \* devices_ of GeneralCommandHandler
  is_get_loader_mode, is_loader_mode, is_update_cfg, is_callback,
                     \* the lidars whose flag is set
  configured,        \* devices_ of the lidar's command handler
  count,             \* the static counter of QueryFwTypeCallback
  info_change_cb,    \* is the info-change callback registered?
  queries, cfgs,     \* the lidars with a command that will get a verdict
  call,              \* what each loop runs
  failed,            \* history: the lidars with a failed query
  told               \* history: calls of the info-change callback

flags   == <<is_get_loader_mode, is_loader_mode, is_update_cfg, is_callback>>
sent    == <<queries, cfgs>>
history == <<failed, told>>
vars    == <<firmware, devices, flags, configured, count, info_change_cb, sent,
             call, history>>

Idle == [do |-> "idle"]
Run(do, h, val) == [do |-> do, lidar |-> h, val |-> val]
Runs(l, do) == call[l] # Idle /\ call[l].do = do
Become(l, c) == call' = [call EXCEPT ![l] = c]

Init ==
  /\ firmware \in [Lidar -> {Loader, App}]
  /\ devices = {} /\ configured = {}
  /\ is_get_loader_mode = {} /\ is_loader_mode = {}
  /\ is_update_cfg = {} /\ is_callback = {}
  /\ count = 0 /\ info_change_cb = FALSE
  /\ queries = {} /\ cfgs = {}
  /\ call = [l \in Loop |-> Idle]
  /\ failed = {} /\ told = [h \in Lidar |-> 0]

(* QueryFwType on loop l.  If sendto fails the callback runs at once, and   *)
(* again when the command, which is in the table all the same, times out.   *)
QueryFwType(l, h) ==
  /\ queries' = queries \cup {h}
  /\ Become(l, Idle) \/ Become(l, Run("query_failed", h, 0))
-----------------------------------------------------------------------------
(* HandleDetectionData, on the detection loop.                              *)

FirstDetection(h) ==
  /\ call["detection"] = Idle /\ h \notin devices
  /\ devices' = devices \cup {h}
  /\ QueryFwType("detection", h)
  /\ UNCHANGED <<firmware, flags, configured, count, info_change_cb, cfgs, history>>

NeedsCfg(h) == /\ h \notin is_update_cfg /\ h \in is_get_loader_mode
               /\ h \notin is_loader_mode

(* UpdateLidarCfg sends the network configuration again on each detection   *)
(* until the lidar accepted it; a failed send is only logged.               *)
LaterDetection(h) ==
  /\ call["detection"] = Idle /\ h \in devices
  /\ cfgs' = IF NeedsCfg(h) /\ h \notin configured THEN cfgs \cup {h} ELSE cfgs
  /\ Become("detection", Run("detected", h, 0))
  /\ UNCHANGED <<firmware, devices, flags, configured, count, info_change_cb,
                 queries, history>>

(* DeviceManager::HandleDetectionData gets the flags, loaded again.         *)
Detected(h) ==
  /\ call["detection"] = Run("detected", h, 0)
  /\ Become("detection", IF h \in is_get_loader_mode \cap is_loader_mode
                         THEN Run("change", h, 0) ELSE Idle)
  /\ UNCHANGED <<firmware, devices, flags, configured, count, info_change_cb,
                 sent, history>>
-----------------------------------------------------------------------------
(* QueryFwTypeCallback and UpdateFwType.                                    *)

(* A verdict for a query, the last one or not.  Answers are read by the cmd *)
(* loop, the timer of any loop may expire the command.                      *)
QueryVerdict(l, h, do) ==
  /\ call[l] = Idle /\ h \in queries
  /\ queries' \in {queries, queries \ {h}}
  /\ Become(l, Run(do, h, 0))
  /\ UNCHANGED <<firmware, devices, flags, configured, count, info_change_cb,
                 cfgs, history>>

(* The answer may also carry an error code or be malformed.                 *)
QueryAnswered(h) == \E do \in {"query_answered", "query_failed"} : QueryVerdict("cmd", h, do)
QueryTimeout(h)  == \E l \in Loop : QueryVerdict(l, h, "query_failed")

(* The retries are tested first, whatever the verdict is.                   *)
QueryFwTypeCallback(l, h) ==
  /\ \E do \in {"query_answered", "query_failed"} :
       /\ call[l] = Run(do, h, 0)
       /\ IF count > MaxRetry
          THEN Become(l, Run("fw", h, GaveUp)) /\ UNCHANGED count
          ELSE IF do = "query_failed"
          THEN Become(l, Run("retry", h, 0)) /\ UNCHANGED count
          ELSE Become(l, Run("fw", h, firmware[h])) /\ count' = 0
       /\ failed' = IF do = "query_failed" THEN failed \cup {h} ELSE failed
  /\ UNCHANGED <<firmware, devices, flags, configured, info_change_cb, sent, told>>

(* Mutant: a failed query is counted, but not sent again. *)
Retry_Nothing(l, h) ==
  /\ call[l] = Run("retry", h, 0)
  /\ count' = count + 1
  /\ Become(l, Idle)
  /\ UNCHANGED <<firmware, devices, flags, configured, info_change_cb, sent, history>>

(* count += 1 is not atomic: of two increments at once one may get lost.    *)
Retry(l, h) ==
  /\ call[l] = Run("retry", h, 0)
  /\ \/ count' = count + 1
     \/ count' = count /\ \E m \in Loop \ {l} : Runs(m, "retry")
  /\ QueryFwType(l, h)
  /\ UNCHANGED <<firmware, devices, flags, configured, info_change_cb, cfgs,
                 history>>

UpdateFwType(l, h) ==
  /\ Runs(l, "fw") /\ call[l].lidar = h
  /\ is_get_loader_mode' = is_get_loader_mode \cup {h}
  /\ Become(l, Run("mode", h, call[l].val))
  /\ UNCHANGED <<firmware, devices, is_loader_mode, is_update_cfg, is_callback,
                 configured, count, info_change_cb, sent, history>>

UpdateLoaderMode(l, h) ==
  /\ Runs(l, "mode") /\ call[l].lidar = h
  /\ is_loader_mode' = IF call[l].val = Loader THEN is_loader_mode \cup {h}
                                               ELSE is_loader_mode \ {h}
  /\ count' = IF call[l].val = GaveUp THEN 0 ELSE count
  /\ Become(l, Idle)
  /\ UNCHANGED <<firmware, devices, is_get_loader_mode, is_update_cfg, is_callback,
                 configured, info_change_cb, sent, history>>
-----------------------------------------------------------------------------
(* UpdateLidarCallback and LivoxLidarInfoChange.                            *)

(* Mutant: a refusal is taken for a success, as with a HAP. *)
CfgAnswered_RefusalCounts(h, accepted) ==
  /\ call["cmd"] = Idle /\ h \in cfgs
  /\ cfgs' \in {cfgs, cfgs \ {h}}
  /\ configured' = IF accepted THEN configured \cup {h} ELSE configured
  /\ Become("cmd", Run("change", h, 0))
  /\ UNCHANGED <<firmware, devices, flags, count, info_change_cb, queries, history>>

CfgAnswered(h, accepted) ==
  /\ call["cmd"] = Idle /\ h \in cfgs
  /\ cfgs' \in {cfgs, cfgs \ {h}}
  /\ configured' = IF accepted THEN configured \cup {h} ELSE configured
  /\ Become("cmd", IF accepted \/ h \in Hap THEN Run("change", h, 0) ELSE Idle)
  /\ UNCHANGED <<firmware, devices, flags, count, info_change_cb, queries, history>>

(* Its callback only logs; the next detection sends the command again.      *)
CfgTimeout(h) ==
  /\ h \in cfgs /\ \E l \in Loop : call[l] = Idle
  /\ cfgs' = cfgs \ {h}
  /\ UNCHANGED <<firmware, devices, flags, configured, count, info_change_cb,
                 queries, call, history>>

(* is_callback is loaded here and stored by the next step; a flag found set *)
(* stays set.                                                               *)
LivoxLidarInfoChange(l, h) ==
  /\ call[l] = Run("change", h, 0)
  /\ is_update_cfg' = is_update_cfg \cup {h}
  /\ Become(l, IF h \in is_callback THEN Idle ELSE Run("announce", h, 0))
  /\ UNCHANGED <<firmware, devices, is_get_loader_mode, is_loader_mode, is_callback,
                 configured, count, info_change_cb, sent, history>>

(* Mutant: is_callback is not stored. *)
Announce_Again(l, h) ==
  /\ call[l] = Run("announce", h, 0)
  /\ told' = IF info_change_cb THEN [told EXCEPT ![h] = @ + 1] ELSE told
  /\ Become(l, Idle)
  /\ UNCHANGED <<firmware, devices, flags, configured, count, info_change_cb, sent,
                 failed>>

Announce(l, h) ==
  /\ call[l] = Run("announce", h, 0)
  /\ told' = IF info_change_cb THEN [told EXCEPT ![h] = @ + 1] ELSE told
  /\ is_callback' = is_callback \cup {h}
  /\ Become(l, Idle)
  /\ UNCHANGED <<firmware, devices, is_get_loader_mode, is_loader_mode,
                 is_update_cfg, configured, count, info_change_cb, sent, failed>>

(* The driver registers its callback after LivoxLidarSdkInit, while the     *)
(* loops are running already.                                               *)
SetLivoxLidarInfoChangeCallback ==
  /\ ~info_change_cb /\ info_change_cb' = TRUE
  /\ UNCHANGED <<firmware, devices, flags, configured, count, sent, call, history>>

Step(l, h) == \/ QueryFwTypeCallback(l, h) \/ Retry(l, h)
              \/ UpdateFwType(l, h) \/ UpdateLoaderMode(l, h)
              \/ LivoxLidarInfoChange(l, h) \/ Announce(l, h)

Next ==
  \/ SetLivoxLidarInfoChangeCallback
  \/ \E h \in Lidar :
       \/ FirstDetection(h) \/ LaterDetection(h) \/ Detected(h)
       \/ QueryAnswered(h) \/ QueryTimeout(h)
       \/ CfgAnswered(h, TRUE) \/ CfgAnswered(h, FALSE) \/ CfgTimeout(h)
       \/ \E l \in Loop : Step(l, h)

Spec == Init /\ [][Next]_vars

(* The loops run; a lidar answers the broadcast of every second, also       *)
(* between the other events of the detection loop; and a lidar that is      *)
(* asked, or configured, again and again answers once; so does sendto,      *)
(* tried again and again, succeed.  Nothing forces the driver to register   *)
(* its callback.                                                            *)
Fairness ==
  \A h \in Lidar :
    /\ \A l \in Loop : WF_vars(Step(l, h)) /\ SF_vars(Retry(l, h) /\ call'[l] = Idle)
    /\ SF_vars(LaterDetection(h)) /\ WF_vars(Detected(h))
    /\ SF_vars(QueryVerdict("cmd", h, "query_answered"))
    /\ []<>(h \in cfgs) => []<><<CfgAnswered(h, TRUE)>>_vars

FairSpec == Spec /\ Fairness
-----------------------------------------------------------------------------
(* Every variable has its type.                                             *)
Calls == {Idle} \cup
  [do : {"detected", "query_answered", "query_failed", "retry", "fw", "mode",
         "change", "announce"}, lidar : Lidar, val : {Loader, App, GaveUp}]

TypeOK ==
  /\ firmware \in [Lidar -> {Loader, App}]
  /\ devices \in SUBSET Lidar /\ configured \in SUBSET Lidar
  /\ is_get_loader_mode \in SUBSET Lidar /\ is_loader_mode \in SUBSET Lidar
  /\ is_update_cfg \in SUBSET Lidar /\ is_callback \in SUBSET Lidar
  /\ count \in Nat /\ info_change_cb \in BOOLEAN
  /\ queries \in SUBSET Lidar /\ cfgs \in SUBSET Lidar
  /\ call \in [Loop -> Calls]
  /\ failed \in SUBSET Lidar /\ told \in [Lidar -> Nat]

(* Only the first detection asks for the firmware type, so the query must   *)
(* never get lost: a detected lidar whose type is not known yet has a query *)
(* under way or a callback about to repeat it, whatever is lost.            *)
Asking(l, h) == /\ call[l] # Idle /\ call[l].lidar = h
                /\ call[l].do \in {"query_answered", "query_failed", "retry", "fw"}

QueryNeverLost ==
  \A h \in devices :
    h \in is_get_loader_mode \/ h \in queries \/ \E l \in Loop : Asking(l, h)

(* The driver is told of a lidar once, although is_callback is tested and   *)
(* set in two steps: for a lidar with an application only the cmd loop gets *)
(* there.  (A lidar in its loader can be announced by two loops at once.)   *)
ToldOnce == \A h \in Lidar : firmware[h] = App => told[h] <= 1

(* A lidar with an application is announced only after it accepted the      *)
(* network configuration, so that its data reach this host; a HAP also      *)
(* after it refused.                                                        *)
ToldMeansConfigured ==
  \A h \in Lidar \ Hap : firmware[h] = App /\ told[h] > 0 => h \in configured

(* Whatever is lost or times out, a lidar with an application is announced  *)
(* in the end, unless it was before the driver registered its callback.     *)
EveryoneTold ==
  \A h \in Lidar :
    (firmware[h] = App /\ h \in devices \ is_callback /\ info_change_cb) ~> (told[h] > 0)

(* "Query livox lidar failed, the retry time more than 10": what is said of *)
(* a lidar when the SDK gives up on it, and takes it for one with an        *)
(* application.  At least one of its queries should have failed by then.    *)
GaveUpAfterRetries ==
  \A l \in Loop : Runs(l, "fw") /\ call[l].val = GaveUp => call[l].lidar \in failed

(* What the test of both flags is for: a lidar in its loader is sent no     *)
(* network configuration, while its firmware query is answered and not      *)
(* given up.                                                                *)
LoaderLeftAlone ==
  \A h \in cfgs : firmware[h] = Loader => h \in failed
=============================================================================
