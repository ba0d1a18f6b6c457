------------------------------ MODULE Upgrader ------------------------------
(***************************************************************************)
(* The firmware upgrade of one lidar (upgrade/livox_lidar_upgrader.cpp):   *)
(* its state machine, run by the callbacks of its commands, against the    *)
(* thread that called UpgradeLivoxLidars and waits in the destructor.      *)
(*                                                                         *)
(* An offset counts blocks of read_length_ bytes.  A callback takes two    *)
(* steps: from the verdict to the state it stores and the command it sends *)
(* (a last state sends none), then the read and the call of observer_,     *)
(* after which it uses the upgrader no more.  A command is handled by the  *)
(* lidar at some time, or never; its callback gets the answer or a         *)
(* time-out on some IO loop, and if the send fails SendFailed at once, on  *)
(* the thread that sends, and a time-out later, as in CommandTable for the *)
(* lidars that are not HAPs.                                               *)
(***************************************************************************)
EXTENDS Integers, FiniteSets

CONSTANTS
  Loop,                      \* the IO loops that call back
  Blocks,                    \* firmware_length, in blocks
  kGeneralTryCountLimit,
  kGetProcessTryCountLimit,
  MaxSendFailures,           \* bound: calls of sendto that fail
  PromptStart                \* BOOLEAN: the thread runs within the first 100 ms

ASSUME LoopAssumption == "upgrade" \notin Loop /\ "none" \notin Loop
ASSUME BlocksAssumption == Blocks \in Nat \ {0}
ASSUME LimitsAssumption == /\ kGeneralTryCountLimit \in Nat \ {0}
                           /\ kGetProcessTryCountLimit \in Nat \ {0}
                           /\ MaxSendFailures \in Nat
ASSUME PromptStartAssumption == PromptStart \in BOOLEAN

VARIABLES
  fsm_state_, read_offset_, try_count_,
  known,      \* does the SDK have a command handler for the lidar?
  pending,    \* commands without their last verdict
  failures,   \* history: calls of sendto that failed
  received,   \* blocks the lidar has of the firmware it is being sent
  calls,      \* calls of FsmEventHandler on each thread that have observer_ to read
  thread,     \* upgrade_thread_: "ran" once the state is stored
  main        \* the caller of UpgradeLivoxLidars

vars == <<fsm_state_, read_offset_, try_count_, known, pending, failures, received, calls, thread, main>>

Thread == Loop \cup {"upgrade"}
State == {"Idle", "Request", "XferFirmware", "CompleteXferFirmware",
          "GetUpgradeProgress", "Complete", "Err"}
Kind  == {"StartUpgrade", "XferFirmware", "CompleteXferFirmware",
          "GetUpgradeProgress", "UpgradeComplete"}
Reply == {"ok", "again", "error"}     \* ret_code 0; busy, erasing or progress < 100; other
(* A failing send leaves two commands behind: itself, and its retry.  `by'  *)
(* is the thread still in the call of FsmEventHandler that sent the command. *)
Id == 1..(MaxSendFailures + 1)
PendingCommand == [id : Id, kind : Kind, offset : Nat, by : Thread \cup {"none"},
                   failed : BOOLEAN, reply : Reply \cup {"none"}]

TypeOK ==
  /\ fsm_state_ \in State
  /\ read_offset_ \in Nat
  /\ try_count_ \in Nat
  /\ known \in BOOLEAN
  /\ pending \in SUBSET PendingCommand
  /\ failures \in 0..MaxSendFailures
  /\ received \in SUBSET Nat
  /\ calls \in [Thread -> Nat]
  /\ thread \in {"none", "started", "ran"}
  /\ main \in {"call", "wait", "join", "freed"}

Row(state, event, handler, next) ==
  [state |-> state, event |-> event, handler |-> handler, next |-> next]

upgrade_event_table ==
  {Row("Idle",                 "RequestUpgrade",       "StartUpgrade",         "Request"),
   Row("Request",              "RequestUpgrade",       "StartUpgrade",         "Request"),
   Row("Request",              "XferFirmware",         "XferFirmware",         "XferFirmware"),
   Row("XferFirmware",         "XferFirmware",         "XferFirmware",         "XferFirmware"),
   Row("XferFirmware",         "CompleteXferFirmware", "CompleteXferFirmware", "CompleteXferFirmware"),
   Row("CompleteXferFirmware", "CompleteXferFirmware", "CompleteXferFirmware", "CompleteXferFirmware"),
   Row("CompleteXferFirmware", "GetUpgradeProgress",   "GetUpgradeProgress",   "GetUpgradeProgress"),
   Row("GetUpgradeProgress",   "GetUpgradeProgress",   "GetUpgradeProgress",   "GetUpgradeProgress"),
   Row("GetUpgradeProgress",   "Complete",             "UpgradeComplete",      "Complete"),
   Row("Complete",             "Complete",             "UpgradeComplete",      "Complete"),
   Row("Complete",             "Reinit",               "none",                 "Idle")}

(* Mutant: the state the lidar's part of the upgrade ends in. *)
IsUpgradeComplete_Early == fsm_state_ \in {"Idle", "Complete"}

IsUpgradeComplete == fsm_state_ = "Idle"
IsUpgradeError == fsm_state_ = "Err"

Init ==
  /\ fsm_state_ = "Idle" /\ read_offset_ = 0 /\ try_count_ = 0
  /\ known \in BOOLEAN
  /\ pending = {} /\ failures = 0 /\ received = {}
  /\ calls = [t \in Thread |-> 0] /\ thread = "none" /\ main = "call"

(***************************************************************************)
(* The handlers send a command; none reaches a lidar without a command     *)
(* handler, and no callback says so.  XferFirmware sends nothing beyond    *)
(* the end of the firmware.                                                *)
(***************************************************************************)
Sent(t, handler, offset, others) ==
  IF handler = "none" \/ ~known \/ (handler = "XferFirmware" /\ offset >= Blocks)
  THEN {}
  ELSE LET free == {i \in Id : \A c \in others : c.id # i}
       IN  {[id |-> CHOOSE i \in free : \A j \in free : i <= j,
             kind |-> handler, offset |-> offset, by |-> t, failed |-> FALSE, reply |-> "none"]}

(* FsmEventHandler on thread t with the offset at that point and the other  *)
(* commands, up to the observer.                                           *)
FsmEventHandler(t, event, offset, others) ==
  /\ calls' = [calls EXCEPT ![t] = @ + 1]
  /\ \/ /\ event = "Err"
        /\ fsm_state_' = "Err"
        /\ read_offset_' = offset /\ pending' = others
     \/ /\ event # "Err"
        /\ ~\E r \in upgrade_event_table : r.state = fsm_state_ /\ r.event = event
        /\ fsm_state_' = fsm_state_
        /\ read_offset_' = offset /\ pending' = others
     \/ /\ event # "Err"
        /\ \E r \in upgrade_event_table :
             /\ r.state = fsm_state_ /\ r.event = event
             /\ fsm_state_' = r.next
             /\ read_offset_' = IF r.handler = "StartUpgrade" THEN 0 ELSE offset
             /\ pending' = others \cup Sent(t, r.handler, read_offset_', others)

(* The end of the innermost call on thread t: observer_ is read, and called. *)
Left(c, t) == [c EXCEPT !.by = IF @ = t THEN "none" ELSE @]

Observe(t) ==
  /\ calls[t] > 0
  /\ calls' = [calls EXCEPT ![t] = @ - 1]
  /\ pending' = {Left(c, t) : c \in pending}
  /\ UNCHANGED <<fsm_state_, read_offset_, try_count_, known, failures, received, thread, main>>

(***************************************************************************)
(* The response handlers: the event each raises for an answer, and for     *)
(* another status.                                                         *)
(***************************************************************************)
EventOfAnswer(c, offset) ==
  CASE c.reply = "error"              -> "Err"
    [] c.kind = "StartUpgrade"        -> IF c.reply = "again" THEN "RequestUpgrade" ELSE "XferFirmware"
    [] c.kind = "XferFirmware"        -> IF offset < Blocks THEN "XferFirmware" ELSE "CompleteXferFirmware"
    [] c.kind = "CompleteXferFirmware" -> "GetUpgradeProgress"
    [] c.kind = "GetUpgradeProgress"  -> IF c.reply = "again" THEN "GetUpgradeProgress" ELSE "Complete"
    [] OTHER                          -> "Reinit"

OffsetAfter(c) ==
  IF c.kind = "XferFirmware" /\ c.reply = "ok" THEN read_offset_ + 1 ELSE read_offset_

OnSuccess(t, c) ==
  /\ try_count_' = 0
  /\ FsmEventHandler(t, EventOfAnswer(c, OffsetAfter(c)), OffsetAfter(c), pending \ {c})

Limit(kind) == IF kind = "GetUpgradeProgress" THEN kGetProcessTryCountLimit
                                              ELSE kGeneralTryCountLimit
RetryEvent(kind) == CASE kind = "StartUpgrade"    -> "RequestUpgrade"
                      [] kind = "UpgradeComplete" -> "Complete"
                      [] OTHER                    -> kind
(* Mutant: an upgrade that cannot even begin waits for another try. *)
GiveUpEvent_NoneYet(kind) == CASE kind = "UpgradeComplete" -> "Reinit"
                               [] kind = "StartUpgrade"    -> "Complete"
                               [] OTHER                    -> "Err"

GiveUpEvent(kind) == IF kind = "UpgradeComplete" THEN "Reinit" ELSE "Err"

(* Mutant: a block that timed out is not sent again. *)
OnFailure_NextBlock(t, c, others) ==
  LET retry == try_count_ + 1 < Limit(c.kind)
  IN  /\ try_count_' = IF retry THEN try_count_ + 1 ELSE 0
      /\ FsmEventHandler(t, IF retry THEN RetryEvent(c.kind) ELSE GiveUpEvent(c.kind),
                         IF c.kind = "XferFirmware" THEN read_offset_ + 1 ELSE read_offset_, others)

OnFailure(t, c, others) ==
  LET retry == try_count_ + 1 < Limit(c.kind)
  IN  /\ try_count_' = IF retry THEN try_count_ + 1 ELSE 0
      /\ FsmEventHandler(t, IF retry THEN RetryEvent(c.kind) ELSE GiveUpEvent(c.kind),
                         read_offset_, others)

(***************************************************************************)
(* The lidar, the command table and the threads.                           *)
(***************************************************************************)
LidarHandles(c, reply) ==
  /\ c.reply = "none" /\ ~c.failed
  /\ reply = "again" => c.kind \in {"StartUpgrade", "GetUpgradeProgress"}
  /\ pending' = (pending \ {c}) \cup {[c EXCEPT !.reply = reply]}
  /\ received' = CASE reply # "ok"              -> received
                   [] c.kind = "StartUpgrade"   -> {}
                   [] c.kind = "XferFirmware"   -> received \cup {c.offset}
                   [] OTHER                     -> received
  /\ UNCHANGED <<fsm_state_, read_offset_, try_count_, known, failures, calls, thread, main>>

(* A loop calls back when it is in no callback. *)
Answer(l, c) ==
  /\ calls[l] = 0 /\ c.reply # "none"
  /\ OnSuccess(l, c)
  /\ UNCHANGED <<known, failures, received, thread, main>>

Timeout(l, c) ==
  /\ calls[l] = 0
  /\ OnFailure(l, c, pending \ {c})
  /\ UNCHANGED <<known, failures, received, thread, main>>

(* The callback of a send that fails runs inside the call that sends. *)
SendFails(c) ==
  /\ c.by # "none" /\ c.reply = "none"
  /\ failures < MaxSendFailures /\ failures' = failures + 1
  /\ OnFailure(c.by, c, (pending \ {c}) \cup {[c EXCEPT !.failed = TRUE, !.by = "none"]})
  /\ UNCHANGED <<known, received, thread, main>>

StartUpgradeLivoxLidar ==
  /\ main = "call"
  /\ main' = "wait" /\ thread' = "started"
  /\ UNCHANGED <<fsm_state_, read_offset_, try_count_, known, pending, failures, received, calls>>

UpgradeThread ==
  /\ thread = "started"
  /\ FsmEventHandler("upgrade", "RequestUpgrade", read_offset_, pending)
  /\ thread' = "ran"
  /\ UNCHANGED <<try_count_, known, failures, received, main>>

(* ~LivoxLidarUpgrader: the poll every 100 ms, then the join.  Nothing waits *)
(* for the calls on the loops.                                             *)
DestructorPoll ==
  /\ main = "wait" /\ (PromptStart => thread = "ran")
  /\ IsUpgradeError \/ IsUpgradeComplete
  /\ main' = "join"
  /\ UNCHANGED <<fsm_state_, read_offset_, try_count_, known, pending, failures, received, calls, thread>>

DestructorJoin ==
  /\ main = "join" /\ thread = "ran" /\ calls["upgrade"] = 0
  /\ main' = "freed"
  /\ UNCHANGED <<fsm_state_, read_offset_, try_count_, known, pending, failures, received, calls, thread>>

Verdict(c) == SendFails(c) \/ \E l \in Loop : Answer(l, c) \/ Timeout(l, c)

Next ==
  \/ StartUpgradeLivoxLidar \/ UpgradeThread \/ DestructorPoll \/ DestructorJoin
  \/ \E t \in Thread : Observe(t)
  \/ \E c \in pending : Verdict(c) \/ \E reply \in Reply : LidarHandles(c, reply)

Spec == Init /\ [][Next]_vars

(* A callback returns, if the observer does; commands get a verdict; a lidar *)
(* asked again and again is ready in the end, and its answer arrives.      *)
FairSpec ==
  /\ Spec
  /\ WF_vars(UpgradeThread) /\ WF_vars(DestructorPoll) /\ WF_vars(DestructorJoin)
  /\ \A t \in Thread : WF_vars(Observe(t))
  /\ WF_vars(\E l \in Loop, c \in pending : Answer(l, c) \/ Timeout(l, c))
  /\ SF_vars(\E c \in pending : LidarHandles(c, "ok"))
  /\ SF_vars(\E l \in Loop, c \in pending : c.reply = "ok" /\ Answer(l, c))

-----------------------------------------------------------------------------
(***************************************************************************)
(* Properties.                                                             *)
(***************************************************************************)

(* While no send fails, the lidar gets the blocks of the firmware in their  *)
(* order, and has them all when it is told that the transfer is complete.  *)
NothingSkipped ==
  failures = 0 =>
    /\ \A b \in received : 0..b \subseteq received
    /\ \A c \in pending :
         c.kind = "CompleteXferFirmware" => 0..(Blocks - 1) \subseteq received

(* "Xfer firmware succ", said before the checksum is sent: the lidar has   *)
(* every block of the firmware.                                            *)
XferSucc ==
  \A c \in pending :
    c.kind = "CompleteXferFirmware" => 0..(Blocks - 1) \subseteq received

(* The upgrader is the client data of its callbacks: when the caller of    *)
(* UpgradeLivoxLidars has destroyed it, no callback is still to begin,     *)
(* while no send fails.  One that has begun may still have observer_ to    *)
(* read.                                                                   *)
NoneToCome == main = "freed" /\ failures = 0 => pending = {}

(* What would make the callbacks of the loops safe, and the code does not  *)
(* give: none of them has the observer_ of a destroyed upgrader to read.   *)
ObserverRead == main = "freed" /\ failures = 0 => \A t \in Thread : calls[t] = 0

(* An upgrade ends, whatever is lost: the caller of UpgradeLivoxLidars, who *)
(* waits for the last state, returns, if the SDK knows the lidar.          *)
UpgradeEnds == main = "wait" /\ known ~> main = "freed"
=============================================================================
