---------------------------- MODULE LidarConfig ----------------------------
(***************************************************************************)
(* How the driver brings one lidar to Sampling (livox_lidar_callback.cpp). *)
(* LidarInfoChangeCallback, called by the SDK once per lidar, sends one    *)
(* command per setting of the user's configuration, marks each in          *)
(* set_bits, then sends the attitude, the work mode and the IMU switch.    *)
(* The callbacks of the commands run on the IO threads of the SDK and      *)
(* clear the bits; the lidar is Sampling when none is left.                *)
(*                                                                         *)
(* A command sent gets the verdicts CommandTable!VerdictShape allows:      *)
(* normally one, Success or Timeout; if sendto fails SendFailed at once    *)
(* and a Timeout later; through a HAP handler possibly a second one.       *)
(*                                                                         *)
(* Specification, invariant and variables are named Config... here, so     *)
(* that a module can extend this one together with DriverNode.             *)
(***************************************************************************)
EXTENDS Integers

CONSTANTS
  Key,             \* settings the user configured: data type, scan pattern,
                   \*   blind spot, dual emit
  Refused,         \* settings the lidar answers with an error code
  SendMayFail,     \* may sendto return an error?
  MaxOutstanding   \* bound of the model: commands of one kind under way

Others  == {"attitude", "work_mode", "imu"}
Command == Key \cup Others

ASSUME KeyAssumption == Key \cap Others = {} /\ Refused \subseteq Key
ASSUME MaxOutstandingAssumption == MaxOutstanding \in Nat \ {0}

VARIABLES
  known,           \* is the lidar in the user's configuration?
  hap,             \* does it go through HapCommandHandler?
  pc, left,        \* LidarInfoChangeCallback and the settings it has left
  config_mutex,    \* is config_mutex_ held by it?
  set_bits,        \* settings without a Success yet
  connect_state,
  outstanding,     \* per kind: commands that will get (another) verdict
  retry,           \* per kind: callbacks about to send the command again
  crashed,         \* a callback dereferenced a null response
  acked,           \* history: kinds whose callback was called with Success
  applied          \* history: settings the lidar accepted

cbVars  == <<outstanding, retry, crashed>>
icVars  == <<pc, left, config_mutex>>
kindOf  == <<known, hap>>
configVars == <<kindOf, icVars, set_bits, connect_state, cbVars, acked, applied>>

ConfigInit ==
  /\ known \in BOOLEAN /\ hap \in BOOLEAN
  /\ pc = "idle" /\ left = {} /\ config_mutex = FALSE
  /\ set_bits = {} /\ connect_state = "Off"
  /\ outstanding = [k \in Command |-> 0] /\ retry = [k \in Command |-> 0]
  /\ crashed = FALSE /\ acked = {} /\ applied = {}

(* One call of SetLivoxLidar...(): resend says whether it is the retry of a *)
(* callback.  If sendto fails the callback runs at once, with a null        *)
(* response: the Set...Callbacks of the settings print response->ret_code,  *)
(* WorkModeChangedCallback sends again, the others only log.                *)
Send(k, resend) ==
  LET owed == IF resend THEN retry[k] - 1 ELSE retry[k]
  IN  /\ outstanding[k] < MaxOutstanding
      /\ outstanding' = [outstanding EXCEPT ![k] = @ + 1]
      /\ \/ retry' = [retry EXCEPT ![k] = owed] /\ UNCHANGED crashed
         \/ /\ SendMayFail
            /\ retry' = [retry EXCEPT ![k] = IF k = "work_mode" THEN owed + 1 ELSE owed]
            /\ crashed' = (k \in Key)
-----------------------------------------------------------------------------
(* LidarInfoChangeCallback.                                                 *)

(* Mutant: the settings are sent without taking config_mutex_. *)
LidarInfoChangeCallback_NoLock ==
  /\ ~crashed /\ pc = "idle"
  /\ pc' = IF known THEN "set" ELSE "work_mode"
  /\ left' = IF known THEN Key ELSE {}
  /\ UNCHANGED <<kindOf, config_mutex, set_bits, connect_state, cbVars, acked, applied>>

(* A lidar that is not configured gets a slot, but no settings.             *)
LidarInfoChangeCallback ==
  /\ ~crashed /\ pc = "idle" /\ ~config_mutex
  /\ pc' = IF known THEN "set" ELSE "work_mode"
  /\ left' = IF known THEN Key ELSE {}
  /\ config_mutex' = known
  /\ UNCHANGED <<kindOf, set_bits, connect_state, cbVars, acked, applied>>

SetBit(k) ==
  /\ ~crashed /\ pc = "set" /\ k \in left
  /\ left' = left \ {k} /\ set_bits' = set_bits \cup {k}
  /\ Send(k, FALSE)
  /\ UNCHANGED <<kindOf, pc, config_mutex, connect_state, acked, applied>>

(* All settings are sent: nothing configured means Sampling; unlock.        *)
EndSet ==
  /\ ~crashed /\ pc = "set" /\ left = {}
  /\ connect_state' = IF set_bits = {} THEN "Sampling" ELSE connect_state
  /\ pc' = "attitude" /\ config_mutex' = FALSE
  /\ UNCHANGED <<kindOf, left, set_bits, cbVars, acked, applied>>

SendOther(k) ==
  /\ ~crashed /\ pc = k
  /\ pc' = CASE k = "attitude" -> "work_mode" [] k = "work_mode" -> "imu" [] k = "imu" -> "done"
  /\ Send(k, FALSE)
  /\ UNCHANGED <<kindOf, left, config_mutex, set_bits, connect_state, acked, applied>>

InfoChange == \/ LidarInfoChangeCallback \/ EndSet
              \/ \E k \in Key : SetBit(k)
              \/ \E k \in Others : SendOther(k)
-----------------------------------------------------------------------------
(* The callbacks of the commands.                                           *)

(* A verdict for a command of kind k; with a HAP there may come another.    *)
(* (That a command whose send failed gets no Success is left out: if it is  *)
(* a setting, the crash ends the run, and no property is about the others   *)
(* when sends fail.)                                                        *)
Verdict(k) ==
  /\ outstanding[k] > 0
  /\ \/ outstanding' = [outstanding EXCEPT ![k] = @ - 1]
     \/ hap /\ UNCHANGED outstanding

(* The lidar answered, whatever its return code says.  The callback of a    *)
(* setting takes config_mutex_ and clears the bit.                          *)
Success(k) ==
  /\ ~crashed /\ Verdict(k)
  /\ acked' = acked \cup {k}
  /\ applied' = IF k \in Refused THEN applied ELSE applied \cup {k}
  /\ IF k \in Key
     THEN /\ ~config_mutex
          /\ set_bits' = set_bits \ {k}
          /\ connect_state' = IF set_bits' = {} THEN "Sampling" ELSE connect_state
     ELSE UNCHANGED <<set_bits, connect_state>>
  /\ UNCHANGED <<kindOf, icVars, retry, crashed>>

(* Mutant: nobody sends again after a time-out. *)
Timeout_NoRetry(k) ==
  /\ ~crashed /\ Verdict(k)
  /\ UNCHANGED <<kindOf, icVars, set_bits, connect_state, retry, crashed, acked, applied>>

(* Timeout: the command is sent again, except that the callback of the IMU  *)
(* switch returns at the null response first.                               *)
Timeout(k) ==
  /\ ~crashed /\ Verdict(k) /\ retry[k] < MaxOutstanding
  /\ retry' = [retry EXCEPT ![k] = IF k = "imu" THEN @ ELSE @ + 1]
  /\ UNCHANGED <<kindOf, icVars, set_bits, connect_state, crashed, acked, applied>>

Resend(k) ==
  /\ ~crashed /\ retry[k] > 0
  /\ Send(k, TRUE)
  /\ UNCHANGED <<kindOf, icVars, set_bits, connect_state, acked, applied>>

ConfigNext == InfoChange \/ \E k \in Command : Success(k) \/ Timeout(k) \/ Resend(k)

ConfigSpec == ConfigInit /\ [][ConfigNext]_configVars

(* Threads run, a command gets its verdict, and a lidar that is asked again *)
(* and again answers in time once.                                          *)
ConfigFairness ==
  /\ WF_configVars(InfoChange)
  /\ \A k \in Command : /\ WF_configVars(Resend(k)) /\ SF_configVars(Success(k))
                        /\ WF_configVars(Success(k) \/ Timeout(k))

ConfigFairSpec == ConfigSpec /\ ConfigFairness
-----------------------------------------------------------------------------
(* Every variable has its type.                                             *)
ConfigTypeOK ==
  /\ known \in BOOLEAN /\ hap \in BOOLEAN /\ config_mutex \in BOOLEAN /\ crashed \in BOOLEAN
  /\ pc \in {"idle", "set", "done"} \cup Others
  /\ left \in SUBSET Key /\ set_bits \in SUBSET Key
  /\ connect_state \in {"Off", "Sampling"}
  /\ outstanding \in [Command -> 0..MaxOutstanding]
  /\ retry \in [Command -> Nat]
  /\ acked \in SUBSET Command /\ applied \in SUBSET Command

(* A lidar is Sampling, so that its frames are published, only after every  *)
(* setting the user asked for was answered: config_mutex_ keeps a fast      *)
(* answer from emptying set_bits while settings are still to be sent.       *)
SamplingMeansAnswered ==
  connect_state = "Sampling" => known /\ Key \subseteq acked

(* A setting is never under way twice: neither the lock-free retries nor    *)
(* the answers that overtake them multiply the commands (unless sends fail, *)
(* or the handler enters every command twice).                              *)
OneUnderWay ==
  hap \/ SendMayFail \/ \A k \in Command : outstanding[k] + retry[k] <= 1

(* A configured lidar that answers now and then ends up Sampling, oriented  *)
(* and in normal mode, whichever commands are lost.                         *)
EventuallyConfigured ==
  (pc = "done") ~>
    /\ "work_mode" \in acked
    /\ known => connect_state = "Sampling" /\ "attitude" \in acked

(* "successfully set data type": a Sampling lidar has the user's settings.  *)
SamplingMeansApplied == connect_state = "Sampling" => Key \subseteq applied

(* A command that could not be sent is reported, and does no other harm.    *)
NoNullResponse == ~crashed

(* "enable Livox Lidar imu timeout ... try again": the IMU is enabled in    *)
(* the end.                                                                 *)
ImuEventuallyEnabled == (pc = "done") ~> ("imu" \in acked)
=============================================================================
