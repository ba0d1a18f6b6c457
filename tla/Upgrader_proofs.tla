--------------------------- MODULE Upgrader_proofs ---------------------------
(***************************************************************************)
(* Proofs about Upgrader, for any number of blocks, any limits and any      *)
(* number of failing sends.                                                *)
(***************************************************************************)
EXTENDS Upgrader, FiniteSetTheorems, WellFoundedInduction, TLAPS

(***************************************************************************)
(* The inductive invariant.                                                *)
(***************************************************************************)

(* A command has its six fields, and an offset that can be compared.      *)
ShapeInv ==
  /\ read_offset_ \in Nat
  /\ \A c \in pending :
       /\ c = [id |-> c.id, kind |-> c.kind, offset |-> c.offset,
               by |-> c.by, failed |-> c.failed, reply |-> c.reply]
       /\ c.offset \in Nat

(* The state in which a command of each kind is under way.                 *)
StateOf(kind) == CASE kind = "StartUpgrade"    -> "Request"
                   [] kind = "UpgradeComplete" -> "Complete"
                   [] OTHER                    -> kind

(* Commands come one after the other, in the state that sent them.         *)
AloneInv ==
  /\ \A c, d \in pending : c = d
  /\ \A c \in pending : c.kind \in Kind /\ fsm_state_ = StateOf(c.kind)

(* Nothing happens before the thread has run.                              *)
StartInv ==
  /\ main = "call" => thread = "none"
  /\ thread # "ran" => fsm_state_ = "Idle" /\ pending = {} /\ received = {}

(* What the lidar has, in each state.                                      *)
Transferred ==
  /\ \A b \in received : 0..b \subseteq received
  /\ fsm_state_ = "Request" => received = {} /\ read_offset_ = 0
  /\ fsm_state_ = "XferFirmware" => 0..(read_offset_ - 1) \subseteq received
  /\ fsm_state_ = "CompleteXferFirmware" => 0..(Blocks - 1) \subseteq received
  /\ \A c \in pending :
       c.kind = "XferFirmware" => /\ c.offset = read_offset_
                                  /\ c.reply = "ok" => read_offset_ \in received

(* Once the destructor has seen the end, it is the end.                    *)
EndInv ==
  PromptStart /\ main \in {"join", "freed"} => thread = "ran" /\ fsm_state_ \in {"Idle", "Err"}

UpgradeInv ==
  /\ failures \in Nat
  /\ failures = 0 => ShapeInv /\ AloneInv /\ StartInv /\ Transferred /\ EndInv

-----------------------------------------------------------------------------
(***************************************************************************)
(* The table and the handlers.                                             *)
(***************************************************************************)

(* A row that sends a command leads to the state of the command.           *)
LEMMA RowFacts ==
  ASSUME NEW r \in upgrade_event_table
  PROVE  /\ r.handler = "none" => r.next = "Idle"
         /\ r.handler # "none" => r.handler \in Kind /\ r.next = StateOf(r.handler)
         /\ r.handler = "StartUpgrade" <=> r.next = "Request"
         /\ r.next = "Request" => r.state \in {"Idle", "Request"}
         /\ r.next = "XferFirmware" =>
              r.state \in {"Request", "XferFirmware"} /\ r.event = "XferFirmware"
         /\ r.next = "CompleteXferFirmware" =>
              /\ r.state \in {"XferFirmware", "CompleteXferFirmware"}
              /\ r.event = "CompleteXferFirmware"
BY DEF upgrade_event_table, Row, Kind, StateOf

(* At most one command is sent, at the offset given.                       *)
LEMMA SentOne ==
  ASSUME NEW t, NEW handler, NEW offset
  PROVE  /\ Sent(t, handler, offset, {}) = {} \/ handler # "none"
         /\ \A c, d \in Sent(t, handler, offset, {}) : c = d
         /\ \A c \in Sent(t, handler, offset, {}) :
              /\ c = [id |-> c.id, kind |-> c.kind, offset |-> c.offset,
                      by |-> c.by, failed |-> c.failed, reply |-> c.reply]
              /\ c.kind = handler /\ c.offset = offset /\ c.reply = "none"
<1> DEFINE free == {i \in Id : \A c \in {} : c.id # i}
           i == CHOOSE j \in free : \A k \in free : j <= k
           sent == [id |-> i, kind |-> handler, offset |-> offset,
                    by |-> t, failed |-> FALSE, reply |-> "none"]
<1>1. Sent(t, handler, offset, {}) \in {{}, {sent}}
  BY DEF Sent
<1>2. handler = "none" => Sent(t, handler, offset, {}) = {}
  BY DEF Sent
<1>3. \A c \in Sent(t, handler, offset, {}) : c = sent
  BY <1>1
<1> HIDE DEF i
<1>4. /\ sent.id = i /\ sent.kind = handler /\ sent.offset = offset
      /\ sent.by = t /\ sent.failed = FALSE /\ sent.reply = "none"
  OBVIOUS
<1>5. sent = [id |-> sent.id, kind |-> sent.kind, offset |-> sent.offset,
              by |-> sent.by, failed |-> sent.failed, reply |-> sent.reply]
  BY <1>4
<1> HIDE DEF sent
<1> QED BY <1>2, <1>3, <1>4, <1>5, Zenon

(* What FsmEventHandler does when no other command is under way.           *)
FsmOutcome(event, offset) ==
  /\ read_offset_' \in Nat
  /\ \A c, d \in pending' : c = d
  /\ \A c \in pending' :
       /\ c = [id |-> c.id, kind |-> c.kind, offset |-> c.offset,
               by |-> c.by, failed |-> c.failed, reply |-> c.reply]
       /\ c.kind \in Kind /\ fsm_state_' = StateOf(c.kind)
       /\ c.offset = read_offset_' /\ c.reply = "none"
  /\ \/ fsm_state_' \in {"Err", fsm_state_} /\ pending' = {} /\ read_offset_' = offset
     \/ fsm_state_' = "Request" /\ fsm_state_ \in {"Idle", "Request"} /\ read_offset_' = 0
     \/ /\ fsm_state_' = "XferFirmware" /\ fsm_state_ \in {"Request", "XferFirmware"}
        /\ event = "XferFirmware" /\ read_offset_' = offset
     \/ /\ fsm_state_' = "CompleteXferFirmware" /\ read_offset_' = offset
        /\ fsm_state_ \in {"XferFirmware", "CompleteXferFirmware"}
        /\ event = "CompleteXferFirmware"
     \/ /\ fsm_state_' \notin {"Request", "XferFirmware", "CompleteXferFirmware"}
        /\ read_offset_' = offset

LEMMA FsmResult ==
  ASSUME NEW t, NEW event, NEW offset \in Nat, FsmEventHandler(t, event, offset, {})
  PROVE  FsmOutcome(event, offset)
<1>1. CASE fsm_state_' \in {"Err", fsm_state_} /\ pending' = {} /\ read_offset_' = offset
  BY <1>1 DEF FsmOutcome
<1>2. ASSUME NEW r \in upgrade_event_table, r.state = fsm_state_, r.event = event,
             fsm_state_' = r.next,
             read_offset_' = IF r.handler = "StartUpgrade" THEN 0 ELSE offset,
             pending' = {} \cup Sent(t, r.handler, read_offset_', {})
      PROVE  FsmOutcome(event, offset)
  <2>1. pending' = Sent(t, r.handler, read_offset_', {})
    BY <1>2
  <2>2. read_offset_' \in Nat
    BY <1>2
  <2>3. /\ \A c, d \in pending' : c = d
        /\ \A c \in pending' :
             /\ c = [id |-> c.id, kind |-> c.kind, offset |-> c.offset,
                     by |-> c.by, failed |-> c.failed, reply |-> c.reply]
             /\ c.kind = r.handler /\ c.kind # "none"
             /\ c.offset = read_offset_' /\ c.reply = "none"
    <3>1. PICK o : o = read_offset_'
      OBVIOUS
    <3> DEFINE sent == Sent(t, r.handler, o, {})
    <3>3. /\ sent = {} \/ r.handler # "none"
          /\ \A c, d \in sent : c = d
          /\ \A c \in sent :
               /\ c = [id |-> c.id, kind |-> c.kind, offset |-> c.offset,
                       by |-> c.by, failed |-> c.failed, reply |-> c.reply]
               /\ c.kind = r.handler /\ c.offset = o /\ c.reply = "none"
      BY SentOne, ZenonT(60)
    <3>4. pending' = sent
      BY <2>1, <3>1
    <3> HIDE DEF sent
    <3> QED BY <3>1, <3>3, <3>4
  <2>4. \A c \in pending' : c.kind \in Kind /\ fsm_state_' = StateOf(c.kind)
    BY <1>2, <2>3, RowFacts
  <2>5. \/ fsm_state_' = "Request" /\ fsm_state_ \in {"Idle", "Request"} /\ read_offset_' = 0
        \/ /\ fsm_state_' = "XferFirmware" /\ fsm_state_ \in {"Request", "XferFirmware"}
           /\ event = "XferFirmware" /\ read_offset_' = offset
        \/ /\ fsm_state_' = "CompleteXferFirmware" /\ read_offset_' = offset
           /\ fsm_state_ \in {"XferFirmware", "CompleteXferFirmware"}
           /\ event = "CompleteXferFirmware"
        \/ /\ fsm_state_' \notin {"Request", "XferFirmware", "CompleteXferFirmware"}
           /\ read_offset_' = offset
    BY <1>2, RowFacts
  <2> QED BY <2>2, <2>3, <2>4, <2>5 DEF FsmOutcome
<1> QED BY <1>1, <1>2 DEF FsmEventHandler
-----------------------------------------------------------------------------
(***************************************************************************)
(* Each step keeps the invariant.                                          *)
(***************************************************************************)

LEMMA InitUpgradeInv == Init => UpgradeInv
BY DEF Init, UpgradeInv, ShapeInv, AloneInv, StartInv, Transferred, EndInv

(* A verdict on the only command, as a step of the state machine.          *)
LEMMA FsmKeepsInv ==
  ASSUME UpgradeInv, failures = 0, NEW c \in pending, NEW event, NEW offset \in Nat,
         NEW t, FsmEventHandler(t, event, offset, {}),
         offset \in {read_offset_, OffsetAfter(c)},
         event = "CompleteXferFirmware" /\ fsm_state_ = "XferFirmware" => offset \in Nat /\ offset >= Blocks,
         UNCHANGED <<failures, received, thread, main>>
  PROVE  UpgradeInv'
<1> USE BlocksAssumption
<1> USE DEF UpgradeInv
<1>1. FsmOutcome(event, offset)
  BY FsmResult
<1>2. ShapeInv'
  BY <1>1, Zenon DEF FsmOutcome, ShapeInv
<1>3. AloneInv'
  BY <1>1, Zenon DEF FsmOutcome, AloneInv
<1>4. thread = "ran" /\ fsm_state_ # "Idle" /\ fsm_state_ # "Err"
  BY DEF StartInv, AloneInv, StateOf, Kind
<1>5. StartInv' /\ EndInv'
  BY <1>4 DEF StartInv, EndInv
<1>6. /\ fsm_state_ = "Request" => offset = 0
      /\ fsm_state_ = "XferFirmware" => 0..(offset - 1) \subseteq received
  <2>1. fsm_state_ = "Request" => c.kind = "StartUpgrade"
    BY DEF AloneInv, StateOf, Kind
  <2>2. fsm_state_ = "XferFirmware" => c.kind = "XferFirmware"
    BY DEF AloneInv, StateOf, Kind
  <2> QED BY <2>1, <2>2 DEF Transferred, OffsetAfter, ShapeInv
<1>7. Transferred'
  <2>1. \A b \in received' : 0..b \subseteq received'
    BY DEF Transferred
  <2>2. fsm_state_' = "Request" => received' = {} /\ read_offset_' = 0
    <3> SUFFICES ASSUME fsm_state_' = "Request" PROVE received = {} /\ read_offset_' = 0
      OBVIOUS
    <3>1. fsm_state_ = "Request"
      BY <1>1, <1>4 DEF FsmOutcome
    <3> QED BY <1>1, <1>6, <3>1 DEF FsmOutcome, Transferred
  <2>3. fsm_state_' = "XferFirmware" => 0..(read_offset_' - 1) \subseteq received'
    <3> SUFFICES ASSUME fsm_state_' = "XferFirmware" PROVE 0..(read_offset_' - 1) \subseteq received
      OBVIOUS
    <3>1. fsm_state_ \in {"Request", "XferFirmware"} /\ read_offset_' = offset
      BY <1>1 DEF FsmOutcome
    <3> QED BY <1>6, <3>1
  <2>4. fsm_state_' = "CompleteXferFirmware" => 0..(Blocks - 1) \subseteq received'
    <3> SUFFICES ASSUME fsm_state_' = "CompleteXferFirmware" PROVE 0..(Blocks - 1) \subseteq received
      OBVIOUS
    <3>1. CASE fsm_state_ = "CompleteXferFirmware"
      BY <3>1 DEF Transferred
    <3>2. CASE fsm_state_ # "CompleteXferFirmware"
      <4>1. fsm_state_ = "XferFirmware" /\ event = "CompleteXferFirmware"
        BY <1>1, <3>2 DEF FsmOutcome
      <4> QED BY <1>6, <4>1
    <3> QED BY <3>1, <3>2
  <2>5. \A d \in pending' : d.offset = read_offset_' /\ d.reply # "ok"
    BY <1>1 DEF FsmOutcome
  <2> QED BY <2>1, <2>2, <2>3, <2>4, <2>5 DEF Transferred
<1> QED BY <1>2, <1>3, <1>5, <1>7

LEMMA OffsetAfterNat ==
  ASSUME UpgradeInv, failures = 0, NEW c \in pending
  PROVE  OffsetAfter(c) \in Nat /\ pending \ {c} = {}
BY DEF UpgradeInv, ShapeInv, AloneInv, OffsetAfter

LEMMA AnswerKeepsInv ==
  ASSUME UpgradeInv, failures = 0, NEW c \in pending, NEW l, Answer(l, c)
  PROVE  UpgradeInv'
<1> USE BlocksAssumption
<1>1. OffsetAfter(c) \in Nat /\ pending \ {c} = {}
  BY OffsetAfterNat
<1> DEFINE event == EventOfAnswer(c, OffsetAfter(c))
<1>2. FsmEventHandler(l, event, OffsetAfter(c), {})
  BY <1>1 DEF Answer, OnSuccess
<1>3. event = "CompleteXferFirmware" /\ fsm_state_ = "XferFirmware" => OffsetAfter(c) >= Blocks
  <2>1. event = "CompleteXferFirmware" => ~(OffsetAfter(c) < Blocks)
    BY DEF EventOfAnswer, UpgradeInv, AloneInv, Kind
  <2> QED BY <1>1, <2>1
<1>4. UNCHANGED <<failures, received, thread, main>>
  BY DEF Answer
<1> QED BY <1>1, <1>2, <1>3, <1>4, FsmKeepsInv

LEMMA TimeoutKeepsInv ==
  ASSUME UpgradeInv, failures = 0, NEW c \in pending, NEW l, Timeout(l, c)
  PROVE  UpgradeInv'
<1>1. read_offset_ \in Nat /\ pending \ {c} = {}
  BY DEF UpgradeInv, ShapeInv, AloneInv
<1> DEFINE retry == try_count_ + 1 < Limit(c.kind)
           event == IF retry THEN RetryEvent(c.kind) ELSE GiveUpEvent(c.kind)
<1>2. FsmEventHandler(l, event, read_offset_, {})
  BY <1>1 DEF Timeout, OnFailure
<1>3. ~(event = "CompleteXferFirmware" /\ fsm_state_ = "XferFirmware")
  <2>1. c.kind \in Kind /\ fsm_state_ = StateOf(c.kind)
    BY DEF UpgradeInv, AloneInv
  <2> QED BY <2>1 DEF StateOf, Kind, RetryEvent, GiveUpEvent
<1>4. UNCHANGED <<failures, received, thread, main>>
  BY DEF Timeout
<1> HIDE DEF event
<1> QED BY <1>1, <1>2, <1>3, <1>4, FsmKeepsInv

LEMMA LidarHandlesKeepsInv ==
  ASSUME UpgradeInv, failures = 0, NEW c \in pending, NEW reply \in Reply, LidarHandles(c, reply)
  PROVE  UpgradeInv'
<1> USE DEF UpgradeInv
<1> DEFINE d == [id |-> c.id, kind |-> c.kind, offset |-> c.offset,
                 by |-> c.by, failed |-> c.failed, reply |-> reply]
<1>1. pending' = {d}
  <2>1. pending \ {c} = {}
    BY DEF AloneInv
  <2>2. [c EXCEPT !.reply = reply] = d
    BY DEF ShapeInv
  <2> QED BY <2>1, <2>2 DEF LidarHandles
<1>2. ShapeInv'
  BY <1>1 DEF ShapeInv, LidarHandles
<1>3. AloneInv'
  BY <1>1 DEF AloneInv, LidarHandles
<1>4. StartInv' /\ EndInv'
  BY DEF StartInv, EndInv, LidarHandles
<1>5. Transferred'
  <2>0. UNCHANGED <<fsm_state_, read_offset_>> /\ fsm_state_ = StateOf(c.kind) /\ c.kind \in Kind
    BY DEF LidarHandles, AloneInv
  <2>1. CASE received' = received /\ (c.kind = "XferFirmware" => reply # "ok")
    BY <1>1, <2>0, <2>1 DEF Transferred
  <2>2. CASE c.kind = "StartUpgrade" /\ received' = {}
    BY <1>1, <2>0, <2>2 DEF Transferred, StateOf
  <2>3. CASE c.kind = "XferFirmware" /\ received' = received \cup {c.offset}
    <3>1. /\ fsm_state_ = "XferFirmware" /\ c.offset = read_offset_ /\ read_offset_ \in Nat
          /\ 0..(read_offset_ - 1) \subseteq received
      BY <2>0, <2>3 DEF Transferred, ShapeInv, StateOf
    <3>2. received' = received \cup {read_offset_}
      BY <2>3, <3>1
    <3>3. 0..read_offset_ \subseteq received'
      BY <3>1, <3>2
    <3>4. \A b \in received' : 0..b \subseteq received'
      BY <3>2, <3>3 DEF Transferred
    <3> QED BY <1>1, <2>0, <3>1, <3>2, <3>4 DEF Transferred
  <2> QED BY <2>1, <2>2, <2>3 DEF LidarHandles
<1>6. failures' = failures
  BY DEF LidarHandles
<1> QED BY <1>2, <1>3, <1>4, <1>5, <1>6

LEMMA ThreadKeepsInv ==
  ASSUME UpgradeInv, failures = 0, UpgradeThread
  PROVE  UpgradeInv'
<1> USE DEF UpgradeInv
<1>0. /\ thread = "started" /\ fsm_state_ = "Idle" /\ pending = {} /\ received = {}
      /\ read_offset_ \in Nat
  BY DEF UpgradeThread, StartInv, ShapeInv
<1>1. FsmEventHandler("upgrade", "RequestUpgrade", read_offset_, {})
  BY <1>0 DEF UpgradeThread
<1>2. FsmOutcome("RequestUpgrade", read_offset_)
  BY <1>0, <1>1, FsmResult
<1>3. ShapeInv'
  BY <1>2, Zenon DEF FsmOutcome, ShapeInv
<1>4. AloneInv'
  BY <1>2, Zenon DEF FsmOutcome, AloneInv
<1>5. /\ thread' = "ran" /\ main' = main /\ received' = {} /\ failures' = failures
  BY <1>0 DEF UpgradeThread
<1>6. StartInv' /\ EndInv'
  BY <1>0, <1>5 DEF StartInv, EndInv
<1>7. Transferred'
  <2>1. fsm_state_' = "Request" => read_offset_' = 0
    BY <1>0, <1>2 DEF FsmOutcome
  <2>2. fsm_state_' # "XferFirmware" /\ fsm_state_' # "CompleteXferFirmware"
    BY <1>0, <1>2 DEF FsmOutcome
  <2>3. \A d \in pending' : d.offset = read_offset_' /\ d.reply # "ok"
    BY <1>2 DEF FsmOutcome
  <2> QED BY <1>5, <2>1, <2>2, <2>3 DEF Transferred
<1> QED BY <1>3, <1>4, <1>5, <1>6, <1>7

(* After a failed send the invariant says nothing more, and it stays failed. *)
LEMMA FailedStays ==
  ASSUME UpgradeInv, failures # 0, [Next]_vars
  PROVE  UpgradeInv'
<1>1. failures' = failures \/ failures' = failures + 1
  <2>1. CASE UNCHANGED vars
    BY <2>1 DEF vars
  <2>2. CASE StartUpgradeLivoxLidar \/ UpgradeThread \/ DestructorPoll \/ DestructorJoin
    BY <2>2 DEF StartUpgradeLivoxLidar, UpgradeThread, DestructorPoll, DestructorJoin
  <2>5. ASSUME NEW t \in Thread, Observe(t) PROVE failures' = failures
    BY <2>5 DEF Observe
  <2>3. ASSUME NEW c \in pending, Verdict(c) PROVE failures' = failures \/ failures' = failures + 1
    BY <2>3 DEF Verdict, Answer, Timeout, SendFails
  <2>4. ASSUME NEW c \in pending, NEW reply \in Reply, LidarHandles(c, reply)
        PROVE  failures' = failures
    BY <2>4 DEF LidarHandles
  <2> QED BY <2>1, <2>2, <2>3, <2>4, <2>5 DEF Next
<1> QED BY <1>1 DEF UpgradeInv

(* The threads alone change nothing the commands and the lidar depend on.   *)
LEMMA UntouchedKeepsInv ==
  ASSUME UpgradeInv, failures = 0,
         UNCHANGED <<fsm_state_, read_offset_, pending, failures, received>>,
         StartInv', EndInv'
  PROVE  UpgradeInv'
<1>1. ShapeInv' /\ AloneInv'
  BY Zenon DEF UpgradeInv, ShapeInv, AloneInv
<1>2. Transferred'
  BY DEF UpgradeInv, Transferred
<1> QED BY <1>1, <1>2 DEF UpgradeInv

(* What is left of a command when the call that sent it has ended.          *)
LEMMA LeftIs ==
  ASSUME NEW t, NEW c,
         c = [id |-> c.id, kind |-> c.kind, offset |-> c.offset,
              by |-> c.by, failed |-> c.failed, reply |-> c.reply]
  PROVE  LET d == Left(c, t)
         IN  /\ d = [id |-> d.id, kind |-> d.kind, offset |-> d.offset,
                     by |-> d.by, failed |-> d.failed, reply |-> d.reply]
             /\ d.id = c.id /\ d.kind = c.kind /\ d.offset = c.offset
             /\ d.failed = c.failed /\ d.reply = c.reply
             /\ d.by \in {c.by, "none"}
BY DEF Left

LEMMA ObserveKeepsInv ==
  ASSUME UpgradeInv, failures = 0, NEW t \in Thread, Observe(t)
  PROVE  UpgradeInv'
<1> USE DEF UpgradeInv
<1>1. UNCHANGED <<fsm_state_, read_offset_, failures, received, thread, main>>
  BY DEF Observe
<1>2. \A d \in pending' : \E c \in pending : d = Left(c, t)
  BY DEF Observe
<1>3. \A d \in pending' : \E c \in pending :
        /\ d = [id |-> d.id, kind |-> d.kind, offset |-> d.offset,
                by |-> d.by, failed |-> d.failed, reply |-> d.reply]
        /\ d.kind = c.kind /\ d.offset = c.offset /\ d.reply = c.reply
  <2> TAKE d \in pending'
  <2>1. PICK c \in pending : d = Left(c, t)
    BY <1>2
  <2>2. c = [id |-> c.id, kind |-> c.kind, offset |-> c.offset,
             by |-> c.by, failed |-> c.failed, reply |-> c.reply]
    BY DEF ShapeInv
  <2>3. /\ d = [id |-> d.id, kind |-> d.kind, offset |-> d.offset,
                by |-> d.by, failed |-> d.failed, reply |-> d.reply]
        /\ d.kind = c.kind /\ d.offset = c.offset /\ d.reply = c.reply
    BY <2>1, <2>2, LeftIs
  <2> QED BY <2>3
<1>4. ShapeInv'
  BY <1>1, <1>3, Zenon DEF ShapeInv
<1>5. AloneInv'
  <2>1. \A d, e \in pending' : d = e
    BY <1>2, Zenon DEF AloneInv
  <2>2. \A d \in pending' : d.kind \in Kind /\ fsm_state_' = StateOf(d.kind)
    BY <1>1, <1>3 DEF AloneInv
  <2> QED BY <2>1, <2>2 DEF AloneInv
<1>6. pending = {} => pending' = {}
  BY <1>2
<1>7. StartInv' /\ EndInv'
  BY <1>1, <1>6 DEF StartInv, EndInv
<1>8. Transferred'
  <2>1. \A d \in pending' :
          d.kind = "XferFirmware" => /\ d.offset = read_offset_
                                     /\ d.reply = "ok" => read_offset_ \in received
    BY <1>3 DEF Transferred
  <2> QED BY <1>1, <2>1 DEF Transferred
<1> QED BY <1>1, <1>4, <1>5, <1>7, <1>8

LEMMA NextUpgradeInv == UpgradeInv /\ [Next]_vars => UpgradeInv'
<1> SUFFICES ASSUME UpgradeInv, failures = 0, [Next]_vars PROVE UpgradeInv'
  BY FailedStays
<1>0. StartInv /\ EndInv
  BY DEF UpgradeInv
<1>1. CASE UNCHANGED vars
  BY <1>0, <1>1, UntouchedKeepsInv DEF vars, StartInv, EndInv
<1>2. CASE StartUpgradeLivoxLidar
  <2>1. StartInv' /\ EndInv'
    BY <1>0, <1>2 DEF StartUpgradeLivoxLidar, StartInv, EndInv
  <2> QED BY <1>2, <2>1, UntouchedKeepsInv, Zenon DEF StartUpgradeLivoxLidar
<1>3. CASE UpgradeThread
  BY <1>3, ThreadKeepsInv
<1>4. CASE DestructorPoll
  <2>1. StartInv'
    BY <1>0, <1>4 DEF DestructorPoll, StartInv
  <2>2. EndInv'
    BY <1>4, Zenon DEF DestructorPoll, IsUpgradeError, IsUpgradeComplete, EndInv
  <2> QED BY <1>4, <2>1, <2>2, UntouchedKeepsInv, Zenon DEF DestructorPoll
<1>5. CASE DestructorJoin
  <2>1. StartInv' /\ EndInv'
    BY <1>0, <1>5 DEF DestructorJoin, StartInv, EndInv
  <2> QED BY <1>5, <2>1, UntouchedKeepsInv, Zenon DEF DestructorJoin
<1>6. ASSUME NEW c \in pending, NEW l \in Loop, Answer(l, c) PROVE UpgradeInv'
  BY <1>6, AnswerKeepsInv
<1>7. ASSUME NEW c \in pending, NEW l \in Loop, Timeout(l, c) PROVE UpgradeInv'
  BY <1>7, TimeoutKeepsInv
<1>8. ASSUME NEW c \in pending, SendFails(c) PROVE UpgradeInv'
  BY <1>8 DEF SendFails, UpgradeInv
<1>9. ASSUME NEW c \in pending, NEW reply \in Reply, LidarHandles(c, reply) PROVE UpgradeInv'
  BY <1>9, LidarHandlesKeepsInv
<1>10. ASSUME NEW t \in Thread, Observe(t) PROVE UpgradeInv'
  BY <1>10, ObserveKeepsInv
<1> QED BY <1>1, <1>2, <1>3, <1>4, <1>5, <1>6, <1>7, <1>8, <1>9, <1>10 DEF Next, Verdict

LEMMA UpgradeInvHolds == Spec => []UpgradeInv
<1> QED BY InitUpgradeInv, NextUpgradeInv, PTL DEF Spec

(***************************************************************************)
(* The theorems.                                                           *)
(***************************************************************************)

(* While no send fails, the lidar gets the blocks in order and is told that *)
(* the transfer is complete when it has them all, however often commands   *)
(* and answers are lost and whatever it answers.                           *)
THEOREM BlocksInOrder == Spec => []NothingSkipped
<1>1. UpgradeInv => NothingSkipped
  <2> SUFFICES ASSUME UpgradeInv, failures = 0
               PROVE  /\ \A b \in received : 0..b \subseteq received
                      /\ \A c \in pending :
                           c.kind = "CompleteXferFirmware" => 0..(Blocks - 1) \subseteq received
    BY Zenon DEF NothingSkipped
  <2>1. \A b \in received : 0..b \subseteq received
    BY DEF UpgradeInv, Transferred
  <2>2. ASSUME NEW c \in pending, c.kind = "CompleteXferFirmware"
        PROVE  0..(Blocks - 1) \subseteq received
    BY <2>2 DEF UpgradeInv, AloneInv, StateOf, Transferred
  <2> QED BY <2>1, <2>2
<1> QED BY <1>1, UpgradeInvHolds, PTL

(* If the thread runs before the destructor first looks, and no send fails, *)
(* no callback begins once the upgrader is destroyed; those that have begun *)
(* on the loops may still have its observer_ to read.                      *)
THEOREM NoCallbackBegins ==
  ASSUME PromptStart
  PROVE  Spec => []NoneToCome
<1>1. UpgradeInv => NoneToCome
  <2> SUFFICES ASSUME UpgradeInv, main = "freed", failures = 0, NEW c \in pending
               PROVE  FALSE
    BY DEF NoneToCome
  <2>1. fsm_state_ \in {"Idle", "Err"}
    BY DEF UpgradeInv, EndInv
  <2>2. c.kind \in Kind /\ fsm_state_ = StateOf(c.kind)
    BY DEF UpgradeInv, AloneInv
  <2> QED BY <2>1, <2>2 DEF Kind, StateOf
<1> QED BY <1>1, UpgradeInvHolds, PTL
-----------------------------------------------------------------------------
(***************************************************************************)
(* The types, with sends that fail.                                        *)
(***************************************************************************)

(* There is never more than one command under way that another one did not *)
(* leave behind by failing, so there is a number for each.                  *)
TypeInv ==
  /\ TypeOK
  /\ main = "call" => thread = "none"
  /\ thread # "ran" => pending = {}
  /\ IsFiniteSet(pending) /\ Cardinality(pending) <= failures + 1

(* Fewer commands than numbers leave a number, and a smallest one.          *)
FreeId(others) == {i \in Id : \A c \in others : c.id # i}

LEMMA FreeIdIs ==
  ASSUME NEW others, IsFiniteSet(others), Cardinality(others) <= MaxSendFailures
  PROVE  (CHOOSE i \in FreeId(others) : \A j \in FreeId(others) : i <= j) \in Id
<1> USE LimitsAssumption
<1> DEFINE ids == {c.id : c \in others}
<1>1. IsFiniteSet(ids) /\ Cardinality(ids) <= Cardinality(others)
  <2> DEFINE f == [c \in others |-> c.id]
  <2>1. f \in Surjection(others, ids)
    BY DEF Surjection
  <2> QED BY <2>1, FS_Surjection DEF ExistsSurjection
<1>2. Cardinality(Id) = MaxSendFailures + 1
  BY FS_Interval DEF Id
<1>3. FreeId(others) # {}
  <2> SUFFICES ASSUME FreeId(others) = {} PROVE FALSE
    OBVIOUS
  <2>1. Id \subseteq ids
    BY DEF FreeId
  <2>2. Cardinality(Id) <= Cardinality(ids)
    BY <1>1, <2>1, FS_Subset
  <2>3. Cardinality(ids) \in Nat /\ Cardinality(others) \in Nat
    BY <1>1, FS_CardinalityType
  <2> QED BY <1>1, <1>2, <2>2, <2>3
<1>4. FreeId(others) \subseteq Id /\ Id \subseteq Nat
  BY DEF FreeId, Id
<1> DEFINE R == OpToRel(<, Nat)
<1>5. IsWellFoundedOn(R, Nat)
  BY NatLessThanWellFounded
<1>6. \A x, y \in Nat : x < y => <<x, y>> \in R
  BY DEF OpToRel
<1> HIDE DEF R
<1>7. PICK i \in FreeId(others) : \A j \in FreeId(others) : ~(<<j, i>> \in R)
  BY <1>3, <1>4, <1>5, WFMin
<1>8. \A j \in FreeId(others) : i <= j
  <2> TAKE j \in FreeId(others)
  <2>1. i \in Nat /\ j \in Nat /\ ~(j < i)
    BY <1>4, <1>6, <1>7
  <2> QED BY <2>1
<1> QED BY <1>4, <1>8

LEMMA SentType ==
  ASSUME NEW t \in Thread, NEW handler \in Kind \cup {"none"}, NEW offset \in Nat, NEW others,
         IsFiniteSet(others), Cardinality(others) <= MaxSendFailures
  PROVE  \/ Sent(t, handler, offset, others) = {}
         \/ \E c \in PendingCommand : Sent(t, handler, offset, others) = {c}
<1> DEFINE i == CHOOSE i \in FreeId(others) : \A j \in FreeId(others) : i <= j
           sent == [id |-> i, kind |-> handler, offset |-> offset,
                    by |-> t, failed |-> FALSE, reply |-> "none"]
<1>1. \/ Sent(t, handler, offset, others) = {}
      \/ handler # "none" /\ Sent(t, handler, offset, others) = {sent}
  BY DEF Sent, FreeId
<1>2. i \in Id
  BY FreeIdIs
<1> HIDE DEF i
<1>3. handler # "none" => sent \in PendingCommand
  BY <1>2 DEF PendingCommand
<1> QED BY <1>1, <1>3

(* A step of the state machine beside the other commands.                   *)
LEMMA FsmType ==
  ASSUME NEW t \in Thread, NEW event, NEW offset \in Nat, NEW others \in SUBSET PendingCommand,
         IsFiniteSet(others), Cardinality(others) <= MaxSendFailures,
         fsm_state_ \in State, calls \in [Thread -> Nat],
         FsmEventHandler(t, event, offset, others)
  PROVE  /\ fsm_state_' \in State /\ read_offset_' \in Nat /\ calls' \in [Thread -> Nat]
         /\ pending' \in SUBSET PendingCommand
         /\ IsFiniteSet(pending') /\ Cardinality(pending') <= Cardinality(others) + 1
<1>0. Cardinality(others) \in Nat
  BY FS_CardinalityType
<1>1. calls' \in [Thread -> Nat]
  BY DEF FsmEventHandler
<1>2. CASE fsm_state_' \in {"Err", fsm_state_} /\ read_offset_' = offset /\ pending' = others
  BY <1>0, <1>1, <1>2 DEF State
<1>3. ASSUME NEW r \in upgrade_event_table, fsm_state_' = r.next,
             read_offset_' = IF r.handler = "StartUpgrade" THEN 0 ELSE offset,
             pending' = others \cup Sent(t, r.handler, read_offset_', others)
      PROVE  /\ fsm_state_' \in State /\ read_offset_' \in Nat
             /\ pending' \in SUBSET PendingCommand
             /\ IsFiniteSet(pending') /\ Cardinality(pending') <= Cardinality(others) + 1
  <2>1. r.next \in State /\ r.handler \in Kind \cup {"none"}
    BY DEF upgrade_event_table, Row, State, Kind
  <2>2. read_offset_' \in Nat
    BY <1>3
  <2>3. CASE Sent(t, r.handler, read_offset_', others) = {}
    BY <1>0, <1>3, <2>1, <2>2, <2>3
  <2>4. ASSUME NEW c \in PendingCommand, Sent(t, r.handler, read_offset_', others) = {c}
        PROVE  /\ pending' \in SUBSET PendingCommand
               /\ IsFiniteSet(pending') /\ Cardinality(pending') <= Cardinality(others) + 1
    <3>1. pending' = others \cup {c}
      BY <1>3, <2>4
    <3>2. /\ IsFiniteSet(others \cup {c})
          /\ Cardinality(others \cup {c}) \in {Cardinality(others), Cardinality(others) + 1}
      BY FS_AddElement
    <3> QED BY <1>0, <3>1, <3>2
  <2>5. \/ Sent(t, r.handler, read_offset_', others) = {}
        \/ \E c \in PendingCommand : Sent(t, r.handler, read_offset_', others) = {c}
    BY <2>1, <2>2, SentType
  <2>6. fsm_state_' \in State
    BY <1>3, <2>1
  <2> QED BY <2>2, <2>3, <2>4, <2>5, <2>6
<1>4. \/ fsm_state_' \in {"Err", fsm_state_} /\ read_offset_' = offset /\ pending' = others
      \/ \E r \in upgrade_event_table :
           /\ fsm_state_' = r.next
           /\ read_offset_' = IF r.handler = "StartUpgrade" THEN 0 ELSE offset
           /\ pending' = others \cup Sent(t, r.handler, read_offset_', others)
  BY DEF FsmEventHandler
<1> QED BY <1>1, <1>2, <1>3, <1>4

(* One command less, and with one more failure one more.                    *)
LEMMA Without ==
  ASSUME TypeInv, NEW c \in pending
  PROVE  /\ IsFiniteSet(pending \ {c}) /\ Cardinality(pending \ {c}) <= failures
         /\ pending \ {c} \in SUBSET PendingCommand /\ thread = "ran"
         /\ Cardinality(pending \ {c}) \in Nat
<1>1. IsFiniteSet(pending) /\ Cardinality(pending) \in Nat /\ failures \in Nat
  BY FS_CardinalityType, LimitsAssumption DEF TypeInv, TypeOK
<1>2. IsFiniteSet(pending \ {c}) /\ Cardinality(pending \ {c}) = Cardinality(pending) - 1
  BY <1>1, FS_RemoveElement
<1>3. Cardinality(pending \ {c}) \in Nat
  BY <1>2, FS_CardinalityType
<1> QED BY <1>1, <1>2, <1>3 DEF TypeInv, TypeOK

LEMMA FailureType ==
  ASSUME TypeInv, NEW c \in pending, NEW others \in SUBSET PendingCommand,
         IsFiniteSet(others), Cardinality(others) <= MaxSendFailures,
         Cardinality(others) <= failures', NEW t \in Thread, OnFailure(t, c, others), failures' \in 0..MaxSendFailures,
         UNCHANGED <<known, received, thread, main>>
  PROVE  TypeInv'
<1>1. /\ fsm_state_' \in State /\ read_offset_' \in Nat /\ calls' \in [Thread -> Nat]
      /\ pending' \in SUBSET PendingCommand
      /\ IsFiniteSet(pending') /\ Cardinality(pending') <= Cardinality(others) + 1
  <2>1. read_offset_ \in Nat /\ fsm_state_ \in State /\ calls \in [Thread -> Nat]
    BY DEF TypeInv, TypeOK
  <2> QED BY <2>1, FsmType DEF OnFailure
<1>2. try_count_' \in Nat
  BY DEF OnFailure, TypeInv, TypeOK
<1>3. Cardinality(others) \in Nat /\ Cardinality(pending') \in Nat /\ failures' \in Nat
  BY <1>1, FS_CardinalityType, LimitsAssumption
<1>4. thread' = "ran"
  BY Without
<1> QED BY <1>4, <1>1, <1>2, <1>3 DEF TypeInv, TypeOK

LEMMA VerdictType ==
  ASSUME TypeInv, NEW c \in pending, Verdict(c)
  PROVE  TypeInv'
<1> USE LimitsAssumption
<1>0. /\ IsFiniteSet(pending \ {c}) /\ Cardinality(pending \ {c}) <= failures
      /\ pending \ {c} \in SUBSET PendingCommand /\ thread = "ran"
      /\ Cardinality(pending \ {c}) \in Nat
      /\ failures \in 0..MaxSendFailures /\ c \in PendingCommand
  BY Without DEF TypeInv, TypeOK
<1>1. ASSUME NEW l \in Loop, Answer(l, c) PROVE TypeInv'
  <2>1. /\ OffsetAfter(c) \in Nat /\ fsm_state_ \in State /\ l \in Thread
        /\ calls \in [Thread -> Nat]
    BY DEF OffsetAfter, TypeInv, TypeOK, Thread
  <2>2. /\ fsm_state_' \in State /\ read_offset_' \in Nat /\ calls' \in [Thread -> Nat]
        /\ pending' \in SUBSET PendingCommand
        /\ IsFiniteSet(pending') /\ Cardinality(pending') <= Cardinality(pending \ {c}) + 1
    BY <1>0, <1>1, <2>1, FsmType DEF Answer, OnSuccess
  <2>3. /\ try_count_' = 0 /\ UNCHANGED <<known, failures, received, thread, main>>
        /\ Cardinality(pending') \in Nat
    BY <1>1, <2>2, FS_CardinalityType DEF Answer, OnSuccess
  <2> QED BY <1>0, <2>2, <2>3 DEF TypeInv, TypeOK
<1>2. ASSUME NEW l \in Loop, Timeout(l, c) PROVE TypeInv'
  BY <1>0, <1>2, FailureType DEF Timeout, Thread
<1>3. CASE SendFails(c)
  <2> DEFINE d == [c EXCEPT !.failed = TRUE, !.by = "none"]
             others == (pending \ {c}) \cup {d}
  <2>1. d \in PendingCommand
    BY <1>0 DEF PendingCommand
  <2>2. failures' = failures + 1 /\ failures' \in 0..MaxSendFailures
    BY <1>0, <1>3 DEF SendFails
  <2> HIDE DEF d
  <2>3. IsFiniteSet(others) /\ Cardinality(others) <= Cardinality(pending \ {c}) + 1
    BY <1>0, FS_AddElement
  <2>4. Cardinality(others) \in Nat
    BY <2>3, FS_CardinalityType
  <2>5. OnFailure(c.by, c, others) /\ UNCHANGED <<known, received, thread, main>>
    BY <1>3 DEF SendFails, d
  <2>6. c.by \in Thread
    BY <1>0, <1>3 DEF SendFails, PendingCommand
  <2> QED BY <1>0, <2>1, <2>2, <2>3, <2>4, <2>5, <2>6, FailureType
<1> QED BY <1>1, <1>2, <1>3 DEF Verdict

LEMMA HandledType ==
  ASSUME TypeInv, NEW c \in pending, NEW reply \in Reply, LidarHandles(c, reply)
  PROVE  TypeInv'
<1> DEFINE d == [c EXCEPT !.reply = reply]
<1>1. c \in PendingCommand
  BY DEF TypeInv, TypeOK
<1>2. d \in PendingCommand
  BY <1>1 DEF PendingCommand
<1>3. c.offset \in Nat
  BY <1>1 DEF PendingCommand
<1>4. received' \in SUBSET Nat
  BY <1>3 DEF LidarHandles, TypeInv, TypeOK
<1>5. pending' = (pending \ {c}) \cup {d}
  BY DEF LidarHandles
<1> HIDE DEF d
<1>6. /\ pending' \in SUBSET PendingCommand /\ IsFiniteSet(pending')
      /\ Cardinality(pending') <= failures + 1 /\ thread = "ran"
  <2>1. IsFiniteSet(pending') /\ Cardinality(pending') <= Cardinality(pending \ {c}) + 1
    BY <1>5, Without, FS_AddElement
  <2>2. failures \in Nat /\ Cardinality(pending') \in Nat
    BY <2>1, FS_CardinalityType, LimitsAssumption DEF TypeInv, TypeOK
  <2>3. /\ pending \ {c} \in SUBSET PendingCommand /\ thread = "ran"
        /\ Cardinality(pending \ {c}) <= failures /\ Cardinality(pending \ {c}) \in Nat
    BY Without
  <2> QED BY <1>2, <1>5, <2>1, <2>2, <2>3
<1>7. UNCHANGED <<fsm_state_, read_offset_, try_count_, known, failures, calls, thread, main>>
  BY DEF LidarHandles
<1> QED BY <1>4, <1>6, <1>7 DEF TypeInv, TypeOK

LEMMA ThreadType ==
  ASSUME TypeInv, UpgradeThread
  PROVE  TypeInv'
<1> USE LimitsAssumption
<1>0. pending = {} /\ IsFiniteSet({}) /\ Cardinality({}) = 0
  BY FS_EmptySet DEF UpgradeThread, TypeInv
<1>1. /\ fsm_state_' \in State /\ read_offset_' \in Nat /\ calls' \in [Thread -> Nat]
      /\ pending' \in SUBSET PendingCommand
      /\ IsFiniteSet(pending') /\ Cardinality(pending') <= 1
  <2>1. /\ read_offset_ \in Nat /\ fsm_state_ \in State /\ calls \in [Thread -> Nat]
        /\ "upgrade" \in Thread
    BY DEF TypeInv, TypeOK, Thread
  <2>2. FsmEventHandler("upgrade", "RequestUpgrade", read_offset_, {})
    BY <1>0 DEF UpgradeThread
  <2> QED BY <1>0, <2>1, <2>2, FsmType
<1>2. /\ thread' = "ran" /\ UNCHANGED <<try_count_, known, failures, received, main>>
      /\ Cardinality(pending') \in Nat
  BY <1>1, FS_CardinalityType DEF UpgradeThread
<1>3. main # "call"
  BY DEF UpgradeThread, TypeInv
<1> QED BY <1>1, <1>2, <1>3 DEF TypeInv, TypeOK

LEMMA ObserveType ==
  ASSUME TypeInv, NEW t \in Thread, Observe(t)
  PROVE  TypeInv'
<1>1. calls' \in [Thread -> Nat]
  BY DEF Observe, TypeInv, TypeOK
<1>2. \A c \in pending : Left(c, t) \in PendingCommand
  BY DEF Left, PendingCommand, TypeInv, TypeOK
<1>3. pending' = {Left(c, t) : c \in pending}
  BY DEF Observe
<1>4. pending' \in SUBSET PendingCommand /\ (pending = {} => pending' = {})
  BY <1>2, <1>3
<1>5. IsFiniteSet(pending') /\ Cardinality(pending') <= Cardinality(pending)
  <2> DEFINE f == [c \in pending |-> Left(c, t)]
  <2>1. f \in Surjection(pending, pending')
    BY <1>3 DEF Surjection
  <2>2. IsFiniteSet(pending)
    BY DEF TypeInv
  <2> HIDE DEF f
  <2> QED BY <2>1, <2>2, FS_Surjection
<1>6. Cardinality(pending') \in Nat /\ Cardinality(pending) \in Nat /\ failures \in Nat
  BY <1>5, FS_CardinalityType, LimitsAssumption DEF TypeInv, TypeOK
<1>7. UNCHANGED <<fsm_state_, read_offset_, try_count_, known, failures, received, thread, main>>
  BY DEF Observe
<1> QED BY <1>1, <1>4, <1>5, <1>6, <1>7 DEF TypeInv, TypeOK

(* The variables of the upgrade keep their types, with sends that fail: the *)
(* commands under way are at most one more than the sends that failed, for  *)
(* only a failing send makes the state machine go on beside a command.      *)
THEOREM TypeCorrect == Spec => []TypeOK
<1>1. Init => TypeInv
  BY FS_EmptySet, LimitsAssumption DEF Init, TypeInv, TypeOK, State
<1>2. TypeInv /\ [Next]_vars => TypeInv'
  <2> SUFFICES ASSUME TypeInv, [Next]_vars PROVE TypeInv'
    OBVIOUS
  <2>1. CASE UNCHANGED vars
    BY <2>1 DEF vars, TypeInv, TypeOK
  <2>2. CASE StartUpgradeLivoxLidar
    BY <2>2 DEF StartUpgradeLivoxLidar, TypeInv, TypeOK
  <2>3. CASE UpgradeThread
    BY <2>3, ThreadType
  <2>4. CASE DestructorPoll \/ DestructorJoin
    BY <2>4 DEF DestructorPoll, DestructorJoin, TypeInv, TypeOK
  <2>5. ASSUME NEW c \in pending, Verdict(c) PROVE TypeInv'
    BY <2>5, VerdictType
  <2>6. ASSUME NEW c \in pending, NEW reply \in Reply, LidarHandles(c, reply) PROVE TypeInv'
    BY <2>6, HandledType
  <2>7. ASSUME NEW t \in Thread, Observe(t) PROVE TypeInv'
    BY <2>7, ObserveType
  <2> QED BY <2>1, <2>2, <2>3, <2>4, <2>5, <2>6, <2>7 DEF Next
<1>3. TypeInv => TypeOK
  BY DEF TypeInv
<1> QED BY <1>1, <1>2, <1>3, PTL DEF Spec
=============================================================================
