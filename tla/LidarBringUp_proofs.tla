------------------------ MODULE LidarBringUp_proofs ------------------------
(***************************************************************************)
(* Proofs about LidarBringUp, for any number of lidars and loops and any   *)
(* number of retries, and about the lidar's parameters (LidarParams), for  *)
(* any configurations, addresses and numbers of requests.                  *)
(***************************************************************************)
EXTENDS LidarBringUp, LidarParams, SequenceTheorems, TLAPS

Doing == {"detected", "query_answered", "query_failed", "retry", "fw", "mode",
          "change", "announce"}

(* What a loop runs, field by field: the other proofs need not look inside. *)
LEMMA RunFields ==
  ASSUME NEW do \in Doing, NEW h, NEW v
  PROVE  /\ Run(do, h, v).do = do /\ Run(do, h, v).lidar = h /\ Run(do, h, v).val = v
         /\ Run(do, h, v) # Idle
BY DEF Doing, Run, Idle

LEMMA CallTypes ==
  /\ Idle \in Calls
  /\ \A do \in Doing, h \in Lidar, v \in {Loader, App, GaveUp} : Run(do, h, v) \in Calls
BY DEF Calls, Doing, Run, Idle

LEMMA CallShape ==
  ASSUME NEW c \in Calls, c # Idle
  PROVE  /\ c.do \in Doing /\ c.lidar \in Lidar /\ c.val \in {Loader, App, GaveUp}
         /\ c = Run(c.do, c.lidar, c.val)
BY DEF Calls, Doing, Run, Idle

(* What becomes of a loop has a type if it is idle or runs a typed step.    *)
LEMMA BecomeType ==
  ASSUME call \in [Loop -> Calls], NEW l \in Loop, NEW c \in Calls, Become(l, c)
  PROVE  /\ call' \in [Loop -> Calls] /\ call'[l] = c
         /\ \A m \in Loop : m # l => call'[m] = call[m]
BY DEF Become

LEMMA InitTypeOK == Init => TypeOK
<1> SUFFICES ASSUME Init PROVE TypeOK
  OBVIOUS
<1>1. call \in [Loop -> Calls]
  BY CallTypes DEF Init
<1>2. info_change_cb \in BOOLEAN
  BY Zenon DEF Init
<1> QED BY <1>1, <1>2 DEF Init, TypeOK

(* A query sent, with or without an error, goes on with a typed step.       *)
LEMMA QueryFwTypeType ==
  ASSUME TypeOK, NEW l \in Loop, NEW h \in Lidar, QueryFwType(l, h)
  PROVE  /\ queries' \in SUBSET Lidar /\ h \in queries' /\ queries \subseteq queries'
         /\ call' \in [Loop -> Calls]
         /\ \A m \in Loop : m # l => call'[m] = call[m]
         /\ call'[l] = Idle \/ call'[l] = Run("query_failed", h, 0)
<1>1. queries' \in SUBSET Lidar /\ h \in queries' /\ queries \subseteq queries'
  BY DEF QueryFwType, TypeOK
<1>2. Idle \in Calls /\ Run("query_failed", h, 0) \in Calls
  BY CallTypes DEF Doing, Loader
<1>3. PICK c \in Calls : /\ Become(l, c)
                         /\ c = Idle \/ c = Run("query_failed", h, 0)
  BY <1>2, Zenon DEF QueryFwType
<1>4. call \in [Loop -> Calls]
  BY DEF TypeOK
<1>5. QED BY <1>1, <1>3, <1>4, BecomeType, Zenon

(* The step that h's own events and the loops take.                         *)
LEMMA NextTypeOK == TypeOK /\ [Next]_vars => TypeOK'
<1> SUFFICES ASSUME TypeOK, [Next]_vars PROVE TypeOK'
  OBVIOUS
<1> USE LoopAssumption
<1>t. call \in [Loop -> Calls]
  BY DEF TypeOK
<1>0. "detection" \in Loop /\ "cmd" \in Loop
  OBVIOUS
<1>1. CASE UNCHANGED vars
  BY <1>1 DEF TypeOK, vars, flags, sent, history
<1>2. CASE SetLivoxLidarInfoChangeCallback
  <2>1. info_change_cb' \in BOOLEAN
    BY <1>2, Zenon DEF SetLivoxLidarInfoChangeCallback
  <2> QED BY <1>2, <2>1 DEF TypeOK, SetLivoxLidarInfoChangeCallback, flags, sent, history
<1>3. ASSUME NEW h \in Lidar, FirstDetection(h) PROVE TypeOK'
  <2>1. QueryFwType("detection", h)
    BY <1>3 DEF FirstDetection
  <2>2. queries' \in SUBSET Lidar /\ call' \in [Loop -> Calls]
    BY <2>1, <1>0, QueryFwTypeType
  <2> QED BY <1>3, <2>2 DEF TypeOK, FirstDetection, flags, history
<1>4. ASSUME NEW h \in Lidar, LaterDetection(h) PROVE TypeOK'
  <2>1. Run("detected", h, 0) \in Calls
    BY CallTypes DEF Doing, Loader
  <2>2. call' \in [Loop -> Calls]
    BY <1>t, <1>0, <1>4, <2>1, BecomeType DEF LaterDetection
  <2> QED BY <1>4, <2>2 DEF TypeOK, LaterDetection, flags, history
<1>5. ASSUME NEW h \in Lidar, Detected(h) PROVE TypeOK'
  <2>1. Run("change", h, 0) \in Calls /\ Idle \in Calls
    BY CallTypes DEF Doing, Loader
  <2>2. call' \in [Loop -> Calls]
    BY <1>t, <1>0, <1>5, <2>1, BecomeType DEF Detected
  <2> QED BY <1>5, <2>2 DEF TypeOK, Detected, flags, sent, history
<1>6. ASSUME NEW h \in Lidar, NEW l \in Loop, NEW do \in Doing, QueryVerdict(l, h, do)
      PROVE  TypeOK'
  <2>1. Run(do, h, 0) \in Calls
    BY CallTypes DEF Loader
  <2>2. call' \in [Loop -> Calls]
    BY <1>t, <1>6, <2>1, BecomeType DEF QueryVerdict
  <2> QED BY <1>6, <2>2 DEF TypeOK, QueryVerdict, flags, history
<1>7. ASSUME NEW h \in Lidar, NEW accepted \in BOOLEAN, CfgAnswered(h, accepted)
      PROVE  TypeOK'
  <2>1. Run("change", h, 0) \in Calls /\ Idle \in Calls
    BY CallTypes DEF Doing, Loader
  <2>2. PICK c \in Calls : Become("cmd", c)
    BY <1>7, <2>1 DEF CfgAnswered
  <2>3. call' \in [Loop -> Calls]
    BY <1>t, <1>0, <2>2, BecomeType
  <2> QED BY <1>7, <2>3 DEF TypeOK, CfgAnswered, flags, history
<1>8. ASSUME NEW h \in Lidar, CfgTimeout(h) PROVE TypeOK'
  BY <1>8 DEF TypeOK, CfgTimeout, flags, history
<1>9. ASSUME NEW h \in Lidar, NEW l \in Loop, Step(l, h) PROVE TypeOK'
  <2>1. CASE QueryFwTypeCallback(l, h)
    <3>1. firmware[h] \in {Loader, App, GaveUp} /\ GaveUp \in {Loader, App, GaveUp}
      BY DEF TypeOK
    <3>2. /\ Run("fw", h, GaveUp) \in Calls /\ Run("fw", h, firmware[h]) \in Calls
          /\ Run("retry", h, 0) \in Calls
      BY <3>1, CallTypes DEF Doing, Loader
    <3>3. PICK c \in Calls : Become(l, c)
      BY <2>1, <3>2, Zenon DEF QueryFwTypeCallback
    <3>4. call' \in [Loop -> Calls]
      BY <1>t, <3>3, BecomeType
    <3>5. count' \in Nat /\ failed' \in SUBSET Lidar
      BY <2>1 DEF TypeOK, QueryFwTypeCallback
    <3> QED BY <2>1, <3>4, <3>5 DEF TypeOK, QueryFwTypeCallback, flags, sent
  <2>2. CASE Retry(l, h)
    <3>1. queries' \in SUBSET Lidar /\ call' \in [Loop -> Calls]
      BY <2>2, QueryFwTypeType DEF Retry
    <3>2. count' \in Nat
      BY <2>2 DEF TypeOK, Retry
    <3> QED BY <2>2, <3>1, <3>2 DEF TypeOK, Retry, flags, history
  <2>3. CASE UpdateFwType(l, h)
    <3>1. call[l].val \in {Loader, App, GaveUp}
      BY <1>t, <2>3, CallShape DEF UpdateFwType, Runs
    <3>2. Run("mode", h, call[l].val) \in Calls
      BY <3>1, CallTypes DEF Doing
    <3>3. call' \in [Loop -> Calls]
      BY <1>t, <2>3, <3>2, BecomeType DEF UpdateFwType
    <3> QED BY <2>3, <3>3 DEF TypeOK, UpdateFwType, sent, history
  <2>4. CASE UpdateLoaderMode(l, h)
    <3>1. call' \in [Loop -> Calls]
      BY <1>t, <2>4, CallTypes, BecomeType DEF UpdateLoaderMode
    <3> QED BY <2>4, <3>1 DEF TypeOK, UpdateLoaderMode, sent, history
  <2>5. CASE LivoxLidarInfoChange(l, h)
    <3>1. Run("announce", h, 0) \in Calls /\ Idle \in Calls
      BY CallTypes DEF Doing, Loader
    <3>2. call' \in [Loop -> Calls]
      BY <1>t, <2>5, <3>1, BecomeType DEF LivoxLidarInfoChange
    <3> QED BY <2>5, <3>2 DEF TypeOK, LivoxLidarInfoChange, sent, history
  <2>6. CASE Announce(l, h)
    <3>1. call' \in [Loop -> Calls]
      BY <1>t, <2>6, CallTypes, BecomeType DEF Announce
    <3>2. told' \in [Lidar -> Nat]
      BY <2>6 DEF TypeOK, Announce
    <3> QED BY <2>6, <3>1, <3>2 DEF TypeOK, Announce, sent
  <2> QED BY <1>9, <2>1, <2>2, <2>3, <2>4, <2>5, <2>6 DEF Step
<1> QED
  BY <1>1, <1>2, <1>3, <1>4, <1>5, <1>6, <1>7, <1>8, <1>9
  DEF Next, QueryAnswered, QueryTimeout, Doing

(* Every variable keeps its type.                                           *)
THEOREM TypeCorrect == Spec => []TypeOK
BY InitTypeOK, NextTypeOK, PTL DEF Spec

(* A detected lidar whose firmware type is unknown is being asked: what a   *)
(* step takes away from one of the three witnesses it hands to another.     *)
LEMMA NextQueryNeverLost ==
  TypeOK /\ QueryNeverLost /\ [Next]_vars => QueryNeverLost'
<1> SUFFICES ASSUME TypeOK, QueryNeverLost, [Next]_vars,
                    NEW g \in Lidar, g \in devices'
             PROVE  g \in is_get_loader_mode' \/ g \in queries' \/ \E l \in Loop : Asking(l, g)'
  BY NextTypeOK DEF QueryNeverLost, TypeOK
<1> DEFINE Goal == g \in is_get_loader_mode' \/ g \in queries' \/ \E l \in Loop : Asking(l, g)'
<1> USE LoopAssumption
<1>t. call \in [Loop -> Calls] /\ is_get_loader_mode \in SUBSET Lidar
  BY DEF TypeOK
<1>0. "detection" \in Loop /\ "cmd" \in Loop
  OBVIOUS
<1>i. g \in devices => \/ g \in is_get_loader_mode \/ g \in queries
                       \/ \E l \in Loop : Asking(l, g)
  BY DEF QueryNeverLost
(* A loop that is not asking about g may become anything.                   *)
<1>f. ASSUME NEW l \in Loop, ~Asking(l, g), \A m \in Loop : m # l => call'[m] = call[m],
             g \in devices, is_get_loader_mode \subseteq is_get_loader_mode',
             queries \subseteq queries'
      PROVE  Goal
  <2>1. \A m \in Loop : Asking(m, g) => Asking(m, g)'
    BY <1>f DEF Asking
  <2> QED BY <1>f, <1>i, <2>1
<1>1. CASE UNCHANGED vars \/ SetLivoxLidarInfoChangeCallback \/ \E h \in Lidar : CfgTimeout(h)
  <2>1. /\ devices' = devices /\ call' = call /\ queries' = queries
        /\ is_get_loader_mode' = is_get_loader_mode
    BY <1>1 DEF vars, flags, sent, SetLivoxLidarInfoChangeCallback, CfgTimeout
  <2> QED BY <1>i, <2>1 DEF Asking
<1>2. ASSUME NEW h \in Lidar, FirstDetection(h) PROVE Goal
  <2>1. QueryFwType("detection", h) /\ devices' = devices \cup {h} /\ call["detection"] = Idle
        /\ is_get_loader_mode' = is_get_loader_mode
    BY <1>2 DEF FirstDetection, flags
  <2>2. /\ h \in queries' /\ queries \subseteq queries'
        /\ \A m \in Loop : m # "detection" => call'[m] = call[m]
    BY <2>1, <1>0, QueryFwTypeType
  <2> QED BY <2>1, <2>2, <1>0, <1>f DEF Asking
<1>3. ASSUME NEW h \in Lidar, LaterDetection(h) \/ Detected(h) PROVE Goal
  <2>1. ~Asking("detection", g)
    BY <1>3, RunFields DEF LaterDetection, Detected, Asking, Doing
  <2>2. PICK c \in Calls : Become("detection", c)
    BY <1>3, CallTypes DEF LaterDetection, Detected, Doing, Loader
  <2> QED BY <1>3, <2>1, <2>2, <1>0, <1>t, <1>f, BecomeType
          DEF LaterDetection, Detected, flags, sent
<1>4. ASSUME NEW h \in Lidar, NEW l \in Loop,
             NEW do \in {"query_answered", "query_failed"}, QueryVerdict(l, h, do)
      PROVE  Goal
  <2>1. Run(do, h, 0) \in Calls /\ do \in Doing
    BY CallTypes DEF Doing, Loader
  <2>2. call'[l] = Run(do, h, 0) /\ \A m \in Loop : m # l => call'[m] = call[m]
    BY <1>4, <2>1, <1>t, BecomeType DEF QueryVerdict
  <2>3. Asking(l, h)'
    BY <2>1, <2>2, RunFields DEF Asking
  <2>4. call[l] = Idle /\ devices' = devices /\ is_get_loader_mode' = is_get_loader_mode
        /\ queries \subseteq queries' \cup {h}
    BY <1>4 DEF QueryVerdict, flags
  <2>5. \A m \in Loop : Asking(m, g) => Asking(m, g)'
    BY <2>2, <2>4 DEF Asking
  <2> QED BY <1>i, <2>3, <2>4, <2>5
<1>5. ASSUME NEW h \in Lidar, NEW accepted \in BOOLEAN, CfgAnswered(h, accepted) PROVE Goal
  <2>1. Run("change", h, 0) \in Calls /\ Idle \in Calls
    BY CallTypes DEF Doing, Loader
  <2>2. PICK c \in Calls : Become("cmd", c)
    BY <1>5, <2>1 DEF CfgAnswered
  <2>3. ~Asking("cmd", g)
    BY <1>5 DEF CfgAnswered, Asking
  <2> QED BY <1>5, <2>2, <2>3, <1>0, <1>t, <1>f, BecomeType DEF CfgAnswered, flags
<1>6. ASSUME NEW h \in Lidar, NEW l \in Loop, Step(l, h) PROVE Goal
  <2>1. CASE QueryFwTypeCallback(l, h)
    <3>1. firmware[h] \in {Loader, App, GaveUp} /\ GaveUp \in {Loader, App, GaveUp}
      BY DEF TypeOK
    <3>2. PICK c \in {Run("fw", h, GaveUp), Run("fw", h, firmware[h]), Run("retry", h, 0)} :
            Become(l, c)
      BY <2>1, Zenon DEF QueryFwTypeCallback
    <3>3. c \in Calls
      BY <3>1, CallTypes DEF Doing, Loader
    <3>4. call'[l] = c /\ \A m \in Loop : m # l => call'[m] = call[m]
      BY <3>2, <3>3, <1>t, BecomeType
    <3>5. Asking(l, h)'
      BY <3>4, RunFields DEF Asking, Doing
    <3>6. Asking(l, g) => g = h
      BY <2>1, RunFields DEF QueryFwTypeCallback, Asking, Doing
    <3> QED BY <2>1, <3>4, <3>5, <3>6, <1>f DEF QueryFwTypeCallback, flags, sent
  <2>2. CASE Retry(l, h)
    <3>1. /\ h \in queries' /\ queries \subseteq queries'
          /\ \A m \in Loop : m # l => call'[m] = call[m]
      BY <2>2, QueryFwTypeType DEF Retry
    <3>2. Asking(l, g) => g = h
      BY <2>2, RunFields DEF Retry, Asking, Doing
    <3> QED BY <2>2, <3>1, <3>2, <1>f DEF Retry, flags
  <2>3. CASE UpdateFwType(l, h)
    <3>1. call[l].val \in {Loader, App, GaveUp}
      BY <1>t, <2>3, CallShape DEF UpdateFwType, Runs
    <3>2. Run("mode", h, call[l].val) \in Calls
      BY <3>1, CallTypes DEF Doing
    <3>3. \A m \in Loop : m # l => call'[m] = call[m]
      BY <1>t, <2>3, <3>2, BecomeType DEF UpdateFwType
    <3>4. Asking(l, g) => g = h
      BY <2>3 DEF UpdateFwType, Asking
    <3> QED BY <2>3, <3>3, <3>4, <1>f DEF UpdateFwType, sent
  <2>4. CASE UpdateLoaderMode(l, h) \/ LivoxLidarInfoChange(l, h) \/ Announce(l, h)
    <3>1. ~Asking(l, g)
      BY <2>4, RunFields
      DEF UpdateLoaderMode, LivoxLidarInfoChange, Announce, Runs, Asking, Doing
    <3>2. Idle \in Calls /\ Run("announce", h, 0) \in Calls
      BY CallTypes DEF Doing, Loader
    <3>3. PICK c \in Calls : Become(l, c)
      BY <2>4, <3>2 DEF UpdateLoaderMode, LivoxLidarInfoChange, Announce
    <3> QED
      BY <2>4, <3>1, <3>3, <1>t, <1>f, BecomeType
      DEF UpdateLoaderMode, LivoxLidarInfoChange, Announce, flags, sent
  <2> QED BY <1>6, <2>1, <2>2, <2>3, <2>4 DEF Step
<1> QED
  BY <1>1, <1>2, <1>3, <1>4, <1>5, <1>6 DEF Next, QueryAnswered, QueryTimeout

(* A lidar detected once is asked for its firmware type until it is known,  *)
(* whatever is lost, fails or expires.                                      *)
THEOREM QueryIsNeverLost == Spec => []QueryNeverLost
<1>1. Init => QueryNeverLost
  BY DEF Init, QueryNeverLost
<1> QED
  BY <1>1, TypeCorrect, NextQueryNeverLost, PTL DEF Spec
-----------------------------------------------------------------------------
(* Who may announce a lidar with an application.                            *)

(* A lidar is taken for one in its loader only if it is.                    *)
LoaderKnown ==
  /\ is_loader_mode \subseteq {h \in Lidar : firmware[h] = Loader}
  /\ \A l \in Loop, h \in Lidar, do \in {"fw", "mode"} :
       call[l] = Run(do, h, Loader) => firmware[h] = Loader

(* So only the cmd loop comes to announce one with an application, after it *)
(* accepted its configuration.                                              *)
CmdAnnounces ==
  \A l \in Loop, h \in Lidar, do \in {"change", "announce"} :
    call[l] = Run(do, h, 0) /\ firmware[h] = App =>
      l = "cmd" /\ (h \in configured \/ h \in Hap)

(* It is not announced again once is_callback is stored.                    *)
ToldOnceStored ==
  \A h \in Lidar : firmware[h] = App =>
    /\ told[h] <= (IF h \in is_callback THEN 1 ELSE 0)
    /\ call["cmd"] = Run("announce", h, 0) => h \notin is_callback

AnnounceInv == LoaderKnown /\ CmdAnnounces /\ ToldOnceStored /\ ToldMeansConfigured

(* Calls that differ in what they do, or in the lidar, differ.              *)
LEMMA RunInjective ==
  ASSUME NEW d \in Doing, NEW e \in Doing, NEW g, NEW h, NEW v, NEW w,
         Run(d, g, v) = Run(e, h, w)
  PROVE  d = e /\ g = h /\ v = w
BY DEF Run

(* A step that changes only what one loop runs, to nothing the invariant    *)
(* speaks of, and at most adds to configured, keeps the invariant.          *)
LEMMA AnnounceFrame ==
  ASSUME TypeOK, AnnounceInv, NEW l \in Loop,
         \A m \in Loop : m # l => call'[m] = call[m],
         \A do \in {"fw", "mode", "change", "announce"}, h \in Lidar,
            v \in {Loader, App, GaveUp} : call'[l] # Run(do, h, v),
         UNCHANGED <<firmware, is_loader_mode, is_callback, told>>,
         configured \subseteq configured'
  PROVE  AnnounceInv'
<1> USE LoopAssumption
<1>1. LoaderKnown'
  BY DEF AnnounceInv, LoaderKnown, Loader
<1>2. CmdAnnounces'
  BY DEF AnnounceInv, CmdAnnounces, Loader
<1>3. ToldOnceStored'
  BY DEF AnnounceInv, ToldOnceStored, Loader
<1>4. ToldMeansConfigured'
  BY DEF AnnounceInv, ToldMeansConfigured
<1> QED BY <1>1, <1>2, <1>3, <1>4 DEF AnnounceInv

LEMMA NextAnnounceInv == TypeOK /\ AnnounceInv /\ [Next]_vars => AnnounceInv'
<1> SUFFICES ASSUME TypeOK, AnnounceInv, [Next]_vars PROVE AnnounceInv'
  OBVIOUS
<1> USE LoopAssumption
<1>t. call \in [Loop -> Calls] /\ firmware \in [Lidar -> {Loader, App}]
      /\ told \in [Lidar -> Nat]
  BY DEF TypeOK
<1>0. "detection" \in Loop /\ "cmd" \in Loop
  OBVIOUS
(* The calls the invariant does not speak of.                               *)
<1>n. ASSUME NEW do \in {"detected", "query_answered", "query_failed", "retry"},
             NEW h, NEW v, NEW e \in {"fw", "mode", "change", "announce"}, NEW g, NEW w
      PROVE  Run(do, h, v) # Run(e, g, w) /\ Idle # Run(e, g, w)
  BY RunInjective, RunFields DEF Doing
<1>1. CASE UNCHANGED vars
  BY <1>1 DEF vars, flags, sent, history, AnnounceInv, LoaderKnown, CmdAnnounces,
              ToldOnceStored, ToldMeansConfigured
<1>2. CASE SetLivoxLidarInfoChangeCallback \/ \E h \in Lidar : CfgTimeout(h)
  BY <1>2 DEF SetLivoxLidarInfoChangeCallback, CfgTimeout, flags, sent, history, AnnounceInv,
              LoaderKnown, CmdAnnounces, ToldOnceStored, ToldMeansConfigured
<1>3. ASSUME NEW h \in Lidar, FirstDetection(h) PROVE AnnounceInv'
  <2>1. QueryFwType("detection", h)
    BY <1>3 DEF FirstDetection
  <2>2. /\ \A m \in Loop : m # "detection" => call'[m] = call[m]
        /\ call'["detection"] = Idle \/ call'["detection"] = Run("query_failed", h, 0)
    BY <2>1, <1>0, QueryFwTypeType
  <2> QED BY <1>3, <2>2, <1>0, <1>n, AnnounceFrame DEF FirstDetection, flags, history
<1>4. ASSUME NEW h \in Lidar, LaterDetection(h) PROVE AnnounceInv'
  <2>1. Run("detected", h, 0) \in Calls
    BY CallTypes DEF Doing, Loader
  <2>2. call'["detection"] = Run("detected", h, 0)
        /\ \A m \in Loop : m # "detection" => call'[m] = call[m]
    BY <1>t, <1>0, <1>4, <2>1, BecomeType DEF LaterDetection
  <2> QED BY <1>4, <2>2, <1>0, <1>n, AnnounceFrame DEF LaterDetection, flags, history
<1>5. ASSUME NEW h \in Lidar, NEW l \in Loop,
             NEW do \in {"query_answered", "query_failed"}, QueryVerdict(l, h, do)
      PROVE  AnnounceInv'
  <2>1. Run(do, h, 0) \in Calls
    BY CallTypes DEF Doing, Loader
  <2>2. call'[l] = Run(do, h, 0) /\ \A m \in Loop : m # l => call'[m] = call[m]
    BY <1>5, <2>1, <1>t, BecomeType DEF QueryVerdict
  <2> QED BY <1>5, <2>2, <1>n, AnnounceFrame DEF QueryVerdict, flags, history
<1>6. ASSUME NEW h \in Lidar, Detected(h) PROVE AnnounceInv'
  <2>1. CASE h \notin is_get_loader_mode \cap is_loader_mode
    <3>1. call'["detection"] = Idle /\ \A m \in Loop : m # "detection" => call'[m] = call[m]
      BY <1>t, <1>0, <1>6, <2>1, CallTypes, BecomeType DEF Detected
    <3> QED BY <1>6, <3>1, <1>0, <1>n, AnnounceFrame DEF Detected, flags, history
  <2>2. CASE h \in is_get_loader_mode \cap is_loader_mode
    <3>1. Run("change", h, 0) \in Calls
      BY CallTypes DEF Doing, Loader
    <3>2. call'["detection"] = Run("change", h, 0)
          /\ \A m \in Loop : m # "detection" => call'[m] = call[m]
      BY <1>t, <1>0, <1>6, <2>2, <3>1, BecomeType DEF Detected
    <3>3. firmware[h] = Loader
      BY <2>2 DEF AnnounceInv, LoaderKnown
    <3>4. UNCHANGED <<firmware, is_loader_mode, is_callback, told, configured>>
      BY <1>6 DEF Detected, flags, history
    <3>5. LoaderKnown'
      BY <3>2, <3>4, RunInjective, <1>0 DEF AnnounceInv, LoaderKnown, Doing
    <3>6. CmdAnnounces'
      <4> SUFFICES ASSUME NEW l \in Loop, NEW g \in Lidar, NEW do \in {"change", "announce"},
                          call'[l] = Run(do, g, 0), firmware[g] = App
                   PROVE  l = "cmd" /\ (g \in configured \/ g \in Hap)
        BY <3>4 DEF CmdAnnounces
      <4>1. l # "detection"
        BY <3>2, <3>3, RunInjective DEF Doing, Loader, App
      <4> QED BY <4>1, <3>2 DEF AnnounceInv, CmdAnnounces
    <3>7. ToldOnceStored'
      BY <3>2, <3>4, <1>0 DEF AnnounceInv, ToldOnceStored
    <3>8. ToldMeansConfigured'
      BY <3>4 DEF AnnounceInv, ToldMeansConfigured
    <3> QED BY <3>5, <3>6, <3>7, <3>8 DEF AnnounceInv
  <2> QED BY <2>1, <2>2
<1>7. ASSUME NEW h \in Lidar, NEW accepted \in BOOLEAN, CfgAnswered(h, accepted)
      PROVE  AnnounceInv'
  <2>1. CASE ~(accepted \/ h \in Hap)
    <3>1. call'["cmd"] = Idle /\ \A m \in Loop : m # "cmd" => call'[m] = call[m]
      BY <1>t, <1>0, <1>7, <2>1, CallTypes, BecomeType DEF CfgAnswered
    <3> QED BY <1>7, <3>1, <1>0, <1>n, AnnounceFrame DEF CfgAnswered, flags, history
  <2>2. CASE accepted \/ h \in Hap
    <3>1. Run("change", h, 0) \in Calls
      BY CallTypes DEF Doing, Loader
    <3>2. call'["cmd"] = Run("change", h, 0) /\ \A m \in Loop : m # "cmd" => call'[m] = call[m]
      BY <1>t, <1>0, <1>7, <2>2, <3>1, BecomeType DEF CfgAnswered
    <3>3. h \in configured' \/ h \in Hap
      BY <1>7, <2>2 DEF CfgAnswered
    <3>4. UNCHANGED <<firmware, is_loader_mode, is_callback, told>> /\ configured \subseteq configured'
      BY <1>7 DEF CfgAnswered, flags, history
    <3>5. LoaderKnown'
      BY <3>2, <3>4, RunInjective, <1>0 DEF AnnounceInv, LoaderKnown, Doing
    <3>6. CmdAnnounces'
      BY <3>2, <3>3, <3>4, RunInjective DEF AnnounceInv, CmdAnnounces, Doing
    <3>7. ToldOnceStored'
      BY <3>2, <3>4, <1>0, RunInjective DEF AnnounceInv, ToldOnceStored, Doing
    <3>8. ToldMeansConfigured'
      BY <3>4 DEF AnnounceInv, ToldMeansConfigured
    <3> QED BY <3>5, <3>6, <3>7, <3>8 DEF AnnounceInv
  <2> QED BY <2>1, <2>2
<1>8. ASSUME NEW h \in Lidar, NEW l \in Loop, Step(l, h) PROVE AnnounceInv'
  <2>1. CASE QueryFwTypeCallback(l, h)
    <3>1. PICK c \in {Run("fw", h, GaveUp), Run("fw", h, firmware[h]), Run("retry", h, 0)} :
            Become(l, c)
      BY <2>1, Zenon DEF QueryFwTypeCallback
    <3>2. c \in Calls
      BY CallTypes, <1>t DEF Doing, Loader, App, GaveUp
    <3>3. call'[l] = c /\ \A m \in Loop : m # l => call'[m] = call[m]
      BY <3>1, <3>2, <1>t, BecomeType
    <3>4. UNCHANGED <<firmware, is_loader_mode, is_callback, told, configured>>
      BY <2>1 DEF QueryFwTypeCallback, flags
    <3>5. \A g \in Lidar, do \in {"change", "announce"} : c # Run(do, g, 0)
      BY RunInjective DEF Doing
    <3>6. \A g \in Lidar, do \in {"fw", "mode"} : c = Run(do, g, Loader) => firmware[g] = Loader
      BY RunInjective DEF Doing, Loader, GaveUp
    <3>7. LoaderKnown'
      BY <3>3, <3>4, <3>6 DEF AnnounceInv, LoaderKnown
    <3>8. CmdAnnounces' /\ ToldOnceStored'
      BY <3>3, <3>4, <3>5, <1>0 DEF AnnounceInv, CmdAnnounces, ToldOnceStored
    <3>9. ToldMeansConfigured'
      BY <3>4 DEF AnnounceInv, ToldMeansConfigured
    <3> QED BY <3>7, <3>8, <3>9 DEF AnnounceInv
  <2>2. CASE Retry(l, h)
    <3>1. /\ \A m \in Loop : m # l => call'[m] = call[m]
          /\ call'[l] = Idle \/ call'[l] = Run("query_failed", h, 0)
      BY <2>2, QueryFwTypeType DEF Retry
    <3> QED BY <2>2, <3>1, <1>n, AnnounceFrame DEF Retry, flags, history
  <2>3. CASE UpdateFwType(l, h)
    <3> DEFINE v == call[l].val
    <3>1. v \in {Loader, App, GaveUp} /\ call[l] = Run("fw", h, v)
      BY <1>t, <2>3, CallShape DEF UpdateFwType, Runs
    <3>2. Run("mode", h, v) \in Calls
      BY <3>1, CallTypes DEF Doing
    <3>3. call'[l] = Run("mode", h, v) /\ \A m \in Loop : m # l => call'[m] = call[m]
      BY <1>t, <2>3, <3>2, BecomeType DEF UpdateFwType
    <3>4. UNCHANGED <<firmware, is_loader_mode, is_callback, told, configured>>
      BY <2>3 DEF UpdateFwType, history
    <3>5. v = Loader => firmware[h] = Loader
      BY <3>1 DEF AnnounceInv, LoaderKnown
    <3> HIDE DEF v
    <3>6. LoaderKnown'
      BY <3>3, <3>4, <3>5, RunInjective DEF AnnounceInv, LoaderKnown, Doing
    <3>7. CmdAnnounces'
      BY <3>3, <3>4, RunInjective DEF AnnounceInv, CmdAnnounces, Doing
    <3>8. ToldOnceStored'
      BY <3>3, <3>4, <1>0, RunInjective DEF AnnounceInv, ToldOnceStored, Doing
    <3>9. ToldMeansConfigured'
      BY <3>4 DEF AnnounceInv, ToldMeansConfigured
    <3> QED BY <3>6, <3>7, <3>8, <3>9 DEF AnnounceInv
  <2>4. CASE UpdateLoaderMode(l, h)
    <3> DEFINE v == call[l].val
    <3>1. v \in {Loader, App, GaveUp} /\ call[l] = Run("mode", h, v)
      BY <1>t, <2>4, CallShape DEF UpdateLoaderMode, Runs
    <3>2. v = Loader => firmware[h] = Loader
      BY <3>1 DEF AnnounceInv, LoaderKnown
    <3>3. call'[l] = Idle /\ \A m \in Loop : m # l => call'[m] = call[m]
      BY <1>t, <2>4, CallTypes, BecomeType DEF UpdateLoaderMode
    <3>4. UNCHANGED <<firmware, is_callback, told, configured>>
      BY <2>4 DEF UpdateLoaderMode, history
    <3>5. is_loader_mode' \subseteq {g \in Lidar : firmware[g] = Loader}
      BY <2>4, <3>2 DEF UpdateLoaderMode, AnnounceInv, LoaderKnown
    <3>6. \A g \in Lidar, e \in {"fw", "mode", "change", "announce"}, w \in {0} :
            call'[l] # Run(e, g, w)
      BY <3>3, <1>n
    <3>7. LoaderKnown' /\ CmdAnnounces' /\ ToldOnceStored'
      BY <3>3, <3>4, <3>5, <3>6, <1>0
      DEF AnnounceInv, LoaderKnown, CmdAnnounces, ToldOnceStored, Loader
    <3>8. ToldMeansConfigured'
      BY <3>4 DEF AnnounceInv, ToldMeansConfigured
    <3> QED BY <3>7, <3>8 DEF AnnounceInv
  <2>5. CASE LivoxLidarInfoChange(l, h)
    <3>1. UNCHANGED <<firmware, is_loader_mode, is_callback, told, configured>>
      BY <2>5 DEF LivoxLidarInfoChange, history
    <3>2. CASE h \in is_callback
      <4>1. call'[l] = Idle /\ \A m \in Loop : m # l => call'[m] = call[m]
        BY <1>t, <2>5, <3>2, CallTypes, BecomeType DEF LivoxLidarInfoChange
      <4> QED BY <3>1, <4>1, <1>n, AnnounceFrame
    <3>3. CASE h \notin is_callback
      <4>1. Run("announce", h, 0) \in Calls
        BY CallTypes DEF Doing, Loader
      <4>2. call'[l] = Run("announce", h, 0) /\ \A m \in Loop : m # l => call'[m] = call[m]
        BY <1>t, <2>5, <3>3, <4>1, BecomeType DEF LivoxLidarInfoChange
      <4>3. firmware[h] = App => l = "cmd" /\ (h \in configured \/ h \in Hap)
        BY <2>5 DEF LivoxLidarInfoChange, AnnounceInv, CmdAnnounces
      <4>4. LoaderKnown'
        BY <3>1, <4>2, RunInjective DEF AnnounceInv, LoaderKnown, Doing
      <4>5. CmdAnnounces'
        BY <3>1, <4>2, <4>3, RunInjective DEF AnnounceInv, CmdAnnounces, Doing
      <4>6. ToldOnceStored'
        BY <3>1, <3>3, <4>2, <1>0, RunInjective DEF AnnounceInv, ToldOnceStored, Doing
      <4>7. ToldMeansConfigured'
        BY <3>1 DEF AnnounceInv, ToldMeansConfigured
      <4> QED BY <4>4, <4>5, <4>6, <4>7 DEF AnnounceInv
    <3> QED BY <3>2, <3>3
  <2>6. CASE Announce(l, h)
    <3>1. call'[l] = Idle /\ \A m \in Loop : m # l => call'[m] = call[m]
      BY <1>t, <2>6, CallTypes, BecomeType DEF Announce
    <3>2. /\ UNCHANGED <<firmware, is_loader_mode, configured>>
          /\ is_callback' = is_callback \cup {h} /\ call[l] = Run("announce", h, 0)
      BY <2>6 DEF Announce
    <3>3. firmware[h] = App =>
            l = "cmd" /\ (h \in configured \/ h \in Hap) /\ told[h] = 0
      BY <3>2, <1>t, <1>0 DEF AnnounceInv, CmdAnnounces, ToldOnceStored
    <3>4. told'[h] <= told[h] + 1 /\ told' \in [Lidar -> Nat]
          /\ \A g \in Lidar : g # h => told'[g] = told[g]
      BY <2>6, <1>t DEF Announce
    <3>5. LoaderKnown'
      BY <3>1, <3>2, <1>n DEF AnnounceInv, LoaderKnown
    <3>6. CmdAnnounces'
      BY <3>1, <3>2, <1>n DEF AnnounceInv, CmdAnnounces
    <3>7. ToldOnceStored'
      <4> SUFFICES ASSUME NEW g \in Lidar, firmware[g] = App
                   PROVE  /\ told'[g] <= (IF g \in is_callback' THEN 1 ELSE 0)
                          /\ call'["cmd"] = Run("announce", g, 0) => g \notin is_callback'
        BY <3>2 DEF ToldOnceStored
      <4>1. told'[g] <= (IF g \in is_callback' THEN 1 ELSE 0)
        BY <3>2, <3>3, <3>4, <1>t DEF AnnounceInv, ToldOnceStored
      <4>2. ASSUME call'["cmd"] = Run("announce", g, 0) PROVE g \notin is_callback'
        <5>1. l # "cmd"
          BY <3>1, <4>2, <1>n
        <5>2. call["cmd"] = Run("announce", g, 0) /\ g # h
          BY <5>1, <4>2, <3>1, <3>3, <1>0
        <5> QED BY <5>2, <3>2 DEF AnnounceInv, ToldOnceStored
      <4> QED BY <4>1, <4>2
    <3>8. ToldMeansConfigured'
      <4> SUFFICES ASSUME NEW g \in Lidar \ Hap, firmware[g] = App, told'[g] > 0
                   PROVE  g \in configured
        BY <3>2 DEF ToldMeansConfigured
      <4> QED BY <3>3, <3>4 DEF AnnounceInv, ToldMeansConfigured
    <3> QED BY <3>5, <3>6, <3>7, <3>8 DEF AnnounceInv
  <2> QED BY <1>8, <2>1, <2>2, <2>3, <2>4, <2>5, <2>6 DEF Step
<1> QED
  BY <1>1, <1>2, <1>3, <1>4, <1>5, <1>6, <1>7, <1>8 DEF Next, QueryAnswered, QueryTimeout

LEMMA AnnounceInvHolds == Spec => []AnnounceInv
<1>1. Init => AnnounceInv
  <2> SUFFICES ASSUME Init PROVE AnnounceInv
    OBVIOUS
  <2>1. \A l \in Loop, h \in Lidar, do \in Doing : call[l] # Run(do, h, 0)
    BY RunFields DEF Init
  <2>2. "cmd" \in Loop
    BY LoopAssumption
  <2>3. LoaderKnown /\ CmdAnnounces /\ ToldOnceStored
    BY <2>1, <2>2 DEF Init, LoaderKnown, CmdAnnounces, ToldOnceStored, Loader, Doing
  <2> QED BY <2>3 DEF AnnounceInv, ToldMeansConfigured, Init
<1> QED BY <1>1, TypeCorrect, NextAnnounceInv, PTL DEF Spec

(* The driver is told of a lidar with an application at most once.          *)
THEOREM IsToldOnce == Spec => []ToldOnce
<1>1. TypeOK /\ AnnounceInv => ToldOnce
  BY DEF TypeOK, AnnounceInv, ToldOnceStored, ToldOnce
<1> QED BY <1>1, TypeCorrect, AnnounceInvHolds, PTL

(* And, but for a HAP, only after it accepted its network configuration.    *)
THEOREM ToldIsConfigured == Spec => []ToldMeansConfigured
<1>1. AnnounceInv => ToldMeansConfigured
  BY DEF AnnounceInv
<1> QED BY <1>1, AnnounceInvHolds, PTL
-----------------------------------------------------------------------------
(* LidarParams.                                                             *)

(* Messages and parameters come in sequences; of their members only what    *)
(* the properties need is known.                                            *)
Listing(s) == s \in Seq({s[j] : j \in DOMAIN s})

LEMMA SeqIsListing ==
  ASSUME NEW S, NEW t \in Seq(S)
  PROVE  Listing(t) /\ \A k \in DOMAIN t : t[k] \in S
<1>1. t \in [1..Len(t) -> {t[j] : j \in DOMAIN t}] /\ Len(t) \in Nat
  OBVIOUS
<1> QED BY <1>1 DEF Listing

LEMMA AppendedOne ==
  ASSUME NEW s, Listing(s), NEW m
  PROVE  /\ Listing(Append(s, m))
         /\ \A k \in DOMAIN Append(s, m) :
              Append(s, m)[k] = m \/ \E j \in DOMAIN s : Append(s, m)[k] = s[j]
<1> DEFINE S == {s[j] : j \in DOMAIN s} \cup {m}
<1>1. s \in Seq(S)
  BY SeqMonotonic DEF Listing
<1>2. Append(s, m) \in Seq(S)
  BY <1>1
<1> HIDE DEF S
<1>3. Listing(Append(s, m)) /\ \A k \in DOMAIN Append(s, m) : Append(s, m)[k] \in S
  BY <1>2, SeqIsListing
<1> QED BY <1>3 DEF S

LEMMA RemovedOne ==
  ASSUME NEW s, Listing(s), NEW i \in DOMAIN s
  PROVE  /\ Listing(RemoveAt(s, i))
         /\ \A k \in DOMAIN RemoveAt(s, i) : \E j \in DOMAIN s : RemoveAt(s, i)[k] = s[j]
<1> DEFINE S == {s[j] : j \in DOMAIN s}
<1>1. s \in Seq(S) /\ DOMAIN s = 1..Len(s) /\ Len(s) \in Nat
  BY DEF Listing
<1>2. SubSeq(s, 1, i - 1) \in Seq(S) /\ SubSeq(s, i + 1, Len(s)) \in Seq(S)
  BY <1>1
<1>3. RemoveAt(s, i) \in Seq(S)
  BY <1>2, ConcatProperties DEF RemoveAt
<1> HIDE DEF S
<1>4. Listing(RemoveAt(s, i)) /\ \A k \in DOMAIN RemoveAt(s, i) : RemoveAt(s, i)[k] \in S
  BY <1>3, SeqIsListing
<1> QED BY <1>4 DEF S

LEMMA FirstOnes ==
  ASSUME NEW s, Listing(s), NEW n \in 0..Len(s)
  PROVE  /\ DOMAIN SubSeq(s, 1, n) = 1..n
         /\ \A k \in 1..n : SubSeq(s, 1, n)[k] = s[k] /\ k \in DOMAIN s
  BY DEF Listing

-----------------------------------------------------------------------------
(* The sockets.  A socket once open stays as it is bound.                   *)
LEMMA OpenAdds ==
  ASSUME NEW channels, NEW host, NEW port, NEW bound
  PROVE  /\ DOMAIN Open(channels, host, port, bound) = DOMAIN channels \cup {<<host, port>>}
         /\ \A ch \in DOMAIN channels : Open(channels, host, port, bound)[ch] = channels[ch]
         /\ <<host, port>> \notin DOMAIN channels =>
              Open(channels, host, port, bound)[<<host, port>>] = bound
  BY DEF Open

(* Without multicast every socket is bound to its own address.              *)
OwnAddress(channels) == \A ch \in DOMAIN channels : channels[ch] = ch[1]

LEMMA OpenOwn ==
  ASSUME NEW channels, OwnAddress(channels), NEW host, NEW port
  PROVE  OwnAddress(Open(channels, host, port, host))
  BY DEF OwnAddress, Open

LEMMA DetectionChannel ==
  ASSUME NEW host
  PROVE  /\ OwnAddress(CreateDetectionChannel(host))
         /\ DOMAIN CreateDetectionChannel(host)
              = {<<host, kDetectionPort>>, <<Broadcast, kDetectionPort>>}
<1> DEFINE one == Open(<<>>, host, kDetectionPort, host)
           two == Open(one, Broadcast, kDetectionPort, Broadcast)
<1>1. DOMAIN <<>> = {} /\ OwnAddress(<<>>)
  BY DEF OwnAddress
<1>2. OwnAddress(one) /\ DOMAIN one = {<<host, kDetectionPort>>}
  BY <1>1, OpenOwn DEF Open
<1> HIDE DEF one
<1>3. OwnAddress(two) /\ DOMAIN two = DOMAIN one \cup {<<Broadcast, kDetectionPort>>}
  BY <1>2, OpenOwn DEF Open
<1> QED BY <1>2, <1>3 DEF CreateDetectionChannel, one

(* What the creation of a socket adds.                                      *)
Grown(channels, more) ==
  /\ DOMAIN channels \subseteq DOMAIN more
  /\ \A ch \in DOMAIN channels : more[ch] = channels[ch]

DataAdded(channels, more, multicast) ==
  /\ Grown(channels, more)
  /\ \A ch \in DOMAIN more \ DOMAIN channels :
       more[ch] = IF multicast = <<>> THEN ch[1] ELSE InetAddr(multicast)

LEMMA DataSocketAdds ==
  ASSUME NEW channels, NEW host, NEW port, NEW multicast, NEW more,
         more = CreateDataSocket(channels, host, port, multicast)
  PROVE  /\ DataAdded(channels, more, multicast)
         /\ port \notin {0, kDetectionPort} => <<host, port>> \in DOMAIN more
<1>1. CASE port \in {0, kDetectionPort}
  BY <1>1 DEF CreateDataSocket, DataAdded, Grown
<1>2. CASE port \notin {0, kDetectionPort}
  <2> DEFINE bound == IF multicast = <<>> THEN host ELSE InetAddr(multicast)
  <2>1. more = Open(channels, host, port, bound)
    BY <1>2 DEF CreateDataSocket
  <2> HIDE DEF bound
  <2>2. /\ Grown(channels, more) /\ <<host, port>> \in DOMAIN more
        /\ \A ch \in DOMAIN more \ DOMAIN channels : ch = <<host, port>> /\ more[ch] = bound
    BY <2>1 DEF Open, Grown
  <2> QED BY <1>2, <2>2 DEF bound, DataAdded
<1> QED BY <1>1, <1>2

LEMMA CmdSocketAdds ==
  ASSUME NEW channels, NEW host, NEW port, NEW more,
         more = CreateCmdSocket(channels, host, port)
  PROVE  /\ Grown(channels, more)
         /\ OwnAddress(channels) => OwnAddress(more)
         /\ port # 0 => <<host, port>> \in DOMAIN more
<1>1. more = channels \/ more = Open(channels, host, port, host)
  BY DEF CreateCmdSocket
<1>2. Grown(channels, more) /\ (port # 0 => <<host, port>> \in DOMAIN more)
  BY DEF CreateCmdSocket, Open, Grown
<1> QED BY <1>1, <1>2, OpenOwn

LEMMA CommandChannelAdds ==
  ASSUME NEW channels, NEW c, NEW more, more = CreateCommandChannel(channels, c)
  PROVE  /\ Grown(channels, more)
         /\ OwnAddress(channels) => OwnAddress(more)
         /\ HostPort(c, "push_msg_port") # 0 =>
              <<InetAddr(HostIp(c)), HostPort(c, "push_msg_port")>> \in DOMAIN more
<1> DEFINE host == InetAddr(HostIp(c))
           push == HostPort(c, "push_msg_port")
           cmd == HostPort(c, "cmd_data_port")
           one == CreateCmdSocket(channels, host, cmd)
           two == CreateCmdSocket(one, host, push)
<1>0. one = CreateCmdSocket(channels, host, cmd) /\ two = CreateCmdSocket(one, host, push)
  OBVIOUS
<1>1. more = two \/ more = Open(two, Broadcast, push, Broadcast)
  BY DEF CreateCommandChannel
<1> HIDE DEF one, two, host, push, cmd
<1>2. Grown(channels, one) /\ (OwnAddress(channels) => OwnAddress(one))
  BY <1>0, CmdSocketAdds
<1>3. /\ Grown(one, two) /\ (OwnAddress(one) => OwnAddress(two))
      /\ push # 0 => <<host, push>> \in DOMAIN two
  BY <1>0, CmdSocketAdds
<1>4. Grown(two, more)
  BY <1>1 DEF Open, Grown
<1>5. OwnAddress(two) => OwnAddress(more)
  BY <1>1, OpenOwn
<1> QED BY <1>2, <1>3, <1>4, <1>5 DEF Grown, host, push

(* The sockets of a configuration: each flow has one, bound to its address; *)
(* but what is pushed goes to the host, and a multicast flow to the         *)
(* detection port has none.                                                 *)
LEMMA ChannelsListen ==
  ASSUME NEW c
  PROVE  LET host == InetAddr(HostIp(c))
             open == CreateChannel(c)
         IN /\ MulticastIp(c) = <<>> =>
                 /\ OwnAddress(open)
                 /\ \A name \in {"push_msg_port", "point_data_port", "imu_data_port"} :
                      HostPort(c, name) # 0 => <<host, HostPort(c, name)>> \in DOMAIN open
            /\ MulticastIp(c) # <<>> =>
                 \A name \in {"point_data_port", "imu_data_port"} :
                   HostPort(c, name) \notin {0, kDetectionPort} =>
                     /\ <<host, HostPort(c, name)>> \in DOMAIN open
                     /\ open[<<host, HostPort(c, name)>>] = InetAddr(MulticastIp(c))
<1> DEFINE host == InetAddr(HostIp(c))
           m == MulticastIp(c)
           point == HostPort(c, "point_data_port")
           imu == HostPort(c, "imu_data_port")
           push == HostPort(c, "push_msg_port")
           d0 == CreateDetectionChannel(host)
           d1 == CreateDataSocket(d0, host, point, m)
           d2 == CreateDataSocket(d1, host, imu, m)
           d3 == CreateDataSocket(d2, host, kHostDebugPointCloudPort, m)
           open == CreateChannel(c)
<1>1. open = CreateCommandChannel(d3, c)
  BY DEF CreateChannel, CreateDataChannel
<1>2. OwnAddress(d0) /\ DOMAIN d0 = {<<host, kDetectionPort>>, <<Broadcast, kDetectionPort>>}
  BY DetectionChannel
<1>3. /\ d1 = CreateDataSocket(d0, host, point, m)
      /\ d2 = CreateDataSocket(d1, host, imu, m)
      /\ d3 = CreateDataSocket(d2, host, kHostDebugPointCloudPort, m)
  OBVIOUS
<1>4. /\ Grown(d3, open)
      /\ OwnAddress(d3) => OwnAddress(open)
      /\ push # 0 => <<host, push>> \in DOMAIN open
  BY <1>1, CommandChannelAdds
<1> HIDE DEF d0, d1, d2, d3, open, host, point, imu, push, m
<1>5. DataAdded(d0, d1, m) /\ (point \notin {0, kDetectionPort} => <<host, point>> \in DOMAIN d1)
  BY <1>3, DataSocketAdds
<1>6. DataAdded(d1, d2, m) /\ (imu \notin {0, kDetectionPort} => <<host, imu>> \in DOMAIN d2)
  BY <1>3, DataSocketAdds
<1>7. DataAdded(d2, d3, m)
  BY <1>3, DataSocketAdds
<1>8. CASE m = <<>>
  <2>1. OwnAddress(d3)
    BY <1>2, <1>5, <1>6, <1>7, <1>8 DEF OwnAddress, DataAdded, Grown
  <2>2. /\ point # 0 => <<host, point>> \in DOMAIN d3
        /\ imu # 0 => <<host, imu>> \in DOMAIN d3
    BY <1>2, <1>5, <1>6, <1>7 DEF DataAdded, Grown
  <2> QED BY <1>4, <1>8, <2>1, <2>2 DEF Grown, host, point, imu, push, m, open
<1>9. CASE m # <<>>
  <2>1. \A ch \in DOMAIN d3 : ch[2] # kDetectionPort => d3[ch] = InetAddr(m)
    <3>1. \A ch \in DOMAIN d0 : ch[2] = kDetectionPort
      BY <1>2
    <3> QED BY <1>5, <1>6, <1>7, <1>9, <3>1 DEF DataAdded, Grown
  <2>2. /\ point \notin {0, kDetectionPort} => <<host, point>> \in DOMAIN d3
        /\ imu \notin {0, kDetectionPort} => <<host, imu>> \in DOMAIN d3
    BY <1>5, <1>6, <1>7 DEF DataAdded, Grown
  <2> QED BY <1>4, <1>9, <2>1, <2>2 DEF Grown, host, point, imu, m, open
<1> QED BY <1>8, <1>9

-----------------------------------------------------------------------------
(* An address without a 256 is the same for the lidar and for the sockets.  *)
LEMMA OctetsKept ==
  ASSUME NEW text \in Seq(Nat), IpIsGood(text), 256 \notin Range(text)
  PROVE  IpToU8(text) = text
<1>1. DOMAIN text = 1..4 /\ text = [i \in DOMAIN text |-> text[i]]
  BY DEF IpIsGood
<1>2. ASSUME NEW i \in DOMAIN text PROVE text[i] % 256 = text[i]
  <2>1. text[i] \in 0..256
    BY <1>1 DEF IpIsGood
  <2>2. text[i] \in Range(text)
    BY DEF Range
  <2>3. text[i] \in 0..255
    BY <2>1, <2>2
  <2>4. \A x \in 0..255 : x % 256 = x
    OBVIOUS
  <2> QED BY <2>3, <2>4
<1> QED BY <1>1, <1>2 DEF IpToU8

LEMMA SameAddress ==
  ASSUME NEW text \in Seq(Nat), IpIsGood(text), 256 \notin Range(text)
  PROVE  InetAddr(text) = IpToU8(text)
  BY OctetsKept DEF InetAddr

-----------------------------------------------------------------------------
(* The flows.  FlowHeard says of one parameter what FlowsReachHost says of  *)
(* those the lidar holds: a flow the SDK has set reaches a socket, and what *)
(* comes from its port is taken for what it is.                             *)
DataFlow == {"LidarPointDataHostIpCfg", "LidarImuHostIpCfg"}

FlowHeard(kv) ==
  kv.by = "sdk" /\ kv.value[2] # 0 =>
    /\ kv.key \in DataFlow /\ AsDocumented =>
         /\ MulticastIp(cfg) = <<>> \/ kv.value[2] # kDetectionPort => Arrives(kv.value)
         /\ Dispatch(kv.value[3]) = "data"
    /\ kv.key = "StateInfoHostIpCfg" /\ MulticastIp(cfg) = <<>> /\ AsDocumented =>
         /\ Arrives(kv.value)
         /\ Dispatch(kv.value[3]) = "command"
         /\ Accepts(cfg.dev_type, kv.value[3])

(* A request announces no more parameters than it has, all of one sender.   *)
RequestInv(m) ==
  /\ Listing(m.kvs) /\ m.key_num \in 0..Len(m.kvs)
  /\ m.by \in {"sdk", "app"}
  /\ \A j \in DOMAIN m.kvs : m.kvs[j].by = m.by /\ FlowHeard(m.kvs[j])

WireInv ==
  /\ Listing(wire)
  /\ \A i \in DOMAIN wire :
       /\ wire[i].kind \in {"set", "info", "push"}
       /\ wire[i].kind = "set" => RequestInv(wire[i])
       /\ wire[i].kind = "info" => cfg.is_view

HeldInv ==
  \A key \in DOMAIN held :
    /\ held[key].key = key /\ held[key].by \in {"factory", "sdk", "app"}
    /\ FlowHeard(held[key])

(* The SDK has set nothing, and asks for nothing.                           *)
NothingSet ==
  /\ \A i \in DOMAIN wire : wire[i].kind = "set" => wire[i].by # "sdk"
  /\ \A key \in DOMAIN held : held[key].by # "sdk"

(* The addresses the SDK came up with.                                      *)
AddressesGood ==
  /\ HostIp(cfg) \in Seq(Nat) /\ IpIsGood(HostIp(cfg))
  /\ \/ cfg.is_view
     \/ MulticastIp(cfg) = <<>>
     \/ MulticastIp(cfg) \in Seq(Nat) /\ IpIsGood(MulticastIp(cfg))

(* What is open: nothing before the SDK is up, then what the file asks for, *)
(* or, when a lidar is only viewed, sockets of the host's own.              *)
SocketInv ==
  /\ cfg \in Configs /\ phase \in {"off", "up", "refused"}
  /\ DOMAIN lidar_net_info = PortName
  /\ phase # "up" => wire = <<>> /\ channel_info_ = <<>> /\ NothingSet
  /\ phase = "up" => AddressesGood
  /\ phase = "up" /\ ~cfg.is_view =>
       /\ lidar_net_info = CheckPort(cfg.dev_type, cfg.lidar)
       /\ channel_info_ = CreateChannel(cfg)
  /\ phase = "up" /\ cfg.is_view =>
       /\ OwnAddress(channel_info_)
       /\ view = <<>> => NothingSet

CountInv == calls \in 0..MaxCalls /\ updates \in 0..MaxUpdates /\ pushes \in 0..MaxPushes

ParamsInv == SocketInv /\ WireInv /\ HeldInv /\ CountInv /\ devices_ \in BOOLEAN

LEMMA BoundsAreNat == MaxCalls \in Nat /\ MaxUpdates \in Nat /\ MaxPushes \in Nat
  BY BoundsAssumption

LEMMA ParamsInvInit == ParamsInit => ParamsInv
<1> SUFFICES ASSUME ParamsInit PROVE ParamsInv
  OBVIOUS
<1>1. \A key \in DOMAIN held : held[key].key = key /\ held[key].by = "factory"
  BY DEF ParamsInit, Factory, KeyValue
<1>2. wire = <<>> /\ DOMAIN wire = {} /\ Listing(wire)
  BY DEF ParamsInit, Listing
<1>3. HeldInv
  BY <1>1 DEF HeldInv, FlowHeard
<1>4. WireInv
  BY <1>2 DEF WireInv
<1>5. SocketInv
  BY <1>1, <1>2 DEF ParamsInit, SocketInv, NothingSet
<1>6. CountInv
  <2>1. calls = 0 /\ updates = 0 /\ pushes = 0
    BY DEF ParamsInit
  <2> QED BY <2>1, BoundsAreNat DEF CountInv
<1> QED BY <1>3, <1>4, <1>5, <1>6 DEF ParamsInv, ParamsInit

(* The requests the SDK builds from the file.                               *)
FlowPort == [StateInfoHostIpCfg      |-> "push_msg_port",
             LidarPointDataHostIpCfg |-> "point_data_port",
             LidarImuHostIpCfg       |-> "imu_data_port"]

FromFile(c, kv) ==
  \E key \in DOMAIN FlowPort :
    /\ key = "StateInfoHostIpCfg" => c.dev_type # "HAP"
    /\ kv = Flow(key, ToHost(c), HostPort(c, FlowPort[key]), LidarPort[c.dev_type][FlowPort[key]])

LEMMA TupleListing ==
  /\ \A a : Listing(<<a>>) /\ Len(<<a>>) = 1
  /\ \A a, b : Listing(<<a, b>>) /\ Len(<<a, b>>) = 2
  /\ \A a, b, c : Listing(<<a, b, c>>) /\ Len(<<a, b, c>>) = 3
<1>1. ASSUME NEW a PROVE Listing(<<a>>) /\ Len(<<a>>) = 1
  <2>1. <<a>> \in Seq({a})
    OBVIOUS
  <2> QED BY <2>1, SeqIsListing
<1>2. ASSUME NEW a, NEW b PROVE Listing(<<a, b>>) /\ Len(<<a, b>>) = 2
  <2>1. <<a, b>> \in Seq({a, b})
    OBVIOUS
  <2> QED BY <2>1, SeqIsListing
<1>3. ASSUME NEW a, NEW b, NEW c PROVE Listing(<<a, b, c>>) /\ Len(<<a, b, c>>) = 3
  <2>1. <<a, b, c>> \in Seq({a, b, c})
    OBVIOUS
  <2> QED BY <2>1, SeqIsListing
<1> QED BY <1>1, <1>2, <1>3

LEMMA UpdateFlows ==
  ASSUME NEW c \in Configs
  PROVE  LET m == BuildUpdate(c)
         IN /\ m.kind = "set" /\ m.by = "sdk"
            /\ Listing(m.kvs) /\ m.key_num \in 0..Len(m.kvs)
            /\ \A j \in DOMAIN m.kvs : FromFile(c, m.kvs[j])
<1> DEFINE m == BuildUpdate(c)
<1>0. /\ DOMAIN FlowPort = {"StateInfoHostIpCfg"} \cup DataFlow
      /\ FlowPort["StateInfoHostIpCfg"] = "push_msg_port"
      /\ FlowPort["LidarPointDataHostIpCfg"] = "point_data_port"
      /\ FlowPort["LidarImuHostIpCfg"] = "imu_data_port"
  BY DEF FlowPort, DataFlow
<1>1. c.dev_type \in DevType
  BY ConfigsAssumption DEF Config
<1>2. CASE c.dev_type \in {"Mid360", "Mid360s", "Avia2"}
  <2> DEFINE f(key) == Flow(key, ToHost(c), HostPort(c, FlowPort[key]), LidarPort[c.dev_type][FlowPort[key]])
  <2>1. m = Request(3, <<f("StateInfoHostIpCfg"), f("LidarPointDataHostIpCfg"),
                         f("LidarImuHostIpCfg")>>, "sdk")
    <3>1. /\ LidarPort[c.dev_type]["push_msg_port"] = 56200
          /\ LidarPort[c.dev_type]["point_data_port"] = 56300
          /\ LidarPort[c.dev_type]["imu_data_port"] = 56400
          /\ LidarPort.Avia2 = LidarPort.Mid360
          /\ LidarPort.Avia2.push_msg_port = 56200
          /\ LidarPort.Avia2.point_data_port = 56300
          /\ LidarPort.Avia2.imu_data_port = 56400
      BY <1>2 DEF LidarPort, Ports
    <3> QED BY <1>0, <1>2, <3>1
            DEF BuildUpdate, BuildUpdateMid360LidarCfgRequest, BuildUpdateAvia2LidarCfgRequest
  <2>2. \A key \in DOMAIN FlowPort : FromFile(c, f(key))
    BY <1>2 DEF FromFile
  <2> HIDE DEF f, m
  <2>3. /\ m.kind = "set" /\ m.by = "sdk" /\ m.key_num = 3
        /\ m.kvs = <<f("StateInfoHostIpCfg"), f("LidarPointDataHostIpCfg"), f("LidarImuHostIpCfg")>>
    BY <2>1 DEF Request
  <2>4. Listing(m.kvs) /\ Len(m.kvs) = 3
    BY <2>3, TupleListing
  <2>5. \A j \in DOMAIN m.kvs : FromFile(c, m.kvs[j])
    BY <1>0, <2>2, <2>3 DEF DataFlow
  <2> QED BY <2>3, <2>4, <2>5 DEF m
<1>3. CASE c.dev_type = "HAP"
  <2> DEFINE f(key) == Flow(key, ToHost(c), HostPort(c, FlowPort[key]), LidarPort[c.dev_type][FlowPort[key]])
  <2>1. m = Request(2, <<f("LidarPointDataHostIpCfg"), f("LidarImuHostIpCfg")>>, "sdk")
    <3>1. LidarPort[c.dev_type]["point_data_port"] = LidarPort[c.dev_type].point_data_port
      OBVIOUS
    <3> QED BY <1>0, <1>3, <3>1 DEF BuildUpdate, BuildUpdateLidarCfgRequest
  <2>2. \A key \in DataFlow : FromFile(c, f(key))
    BY <1>0, <1>3 DEF FromFile, DataFlow
  <2> HIDE DEF f, m
  <2>3. /\ m.kind = "set" /\ m.by = "sdk" /\ m.key_num = 2
        /\ m.kvs = <<f("LidarPointDataHostIpCfg"), f("LidarImuHostIpCfg")>>
    BY <2>1 DEF Request
  <2>4. Listing(m.kvs) /\ Len(m.kvs) = 2
    BY <2>3, TupleListing
  <2>5. \A j \in DOMAIN m.kvs : FromFile(c, m.kvs[j])
    BY <2>2, <2>3 DEF DataFlow
  <2> QED BY <2>3, <2>4, <2>5 DEF m
<1> QED BY <1>1, <1>2, <1>3 DEF DevType

(* What the file says is heard by the sockets opened for it.                *)
LEMMA FileHeard ==
  ASSUME SocketInv, phase = "up", ~cfg.is_view, NEW kv, FromFile(cfg, kv)
  PROVE  FlowHeard(kv)
<1> DEFINE host == InetAddr(HostIp(cfg))
           m == MulticastIp(cfg)
<1>1. cfg \in Configs /\ cfg.dev_type \in DevType
  BY ConfigsAssumption DEF SocketInv, Config
<1>2. PICK key \in DOMAIN FlowPort :
        /\ key = "StateInfoHostIpCfg" => cfg.dev_type # "HAP"
        /\ kv = Flow(key, ToHost(cfg), HostPort(cfg, FlowPort[key]), LidarPort[cfg.dev_type][FlowPort[key]])
  BY DEF FromFile
<1> DEFINE port == HostPort(cfg, FlowPort[key])
           from == LidarPort[cfg.dev_type][FlowPort[key]]
<1>3. kv.key = key /\ kv.value = <<IpToU8(ToHost(cfg)), port, from>>
  BY <1>2 DEF Flow, KeyValue
<1>4. /\ key \in {"StateInfoHostIpCfg"} \cup DataFlow
      /\ key = "StateInfoHostIpCfg" => FlowPort[key] = "push_msg_port"
      /\ key \in DataFlow => FlowPort[key] \in {"point_data_port", "imu_data_port"}
  BY DEF FlowPort, DataFlow
<1> HIDE DEF port, from, host, m
<1>5. kv.value[1] = IpToU8(ToHost(cfg)) /\ kv.value[2] = port /\ kv.value[3] = from
  BY <1>3
<1>6. ASSUME AsDocumented,
             port # 0, key \in DataFlow \/ m = <<>>, m = <<>> \/ port # kDetectionPort
      PROVE  Arrives(kv.value)
  <2>1. channel_info_ = CreateChannel(cfg)
    BY DEF SocketInv
  <2>2. CASE m = <<>>
    <3>1. OwnAddress(channel_info_) /\ <<host, port>> \in DOMAIN channel_info_
      BY <1>4, <1>6, <2>1, <2>2, ChannelsListen DEF m, host, port
    <3>2. IpToU8(ToHost(cfg)) = host
      <4>1. /\ HostIp(cfg) \in Seq(Nat) /\ IpIsGood(HostIp(cfg))
            /\ 256 \notin Range(HostIp(cfg)) /\ ToHost(cfg) = HostIp(cfg)
        BY <1>6, <2>2 DEF SocketInv, AddressesGood, AsDocumented, ToHost, m
      <4> QED BY <4>1, SameAddress DEF host
    <3> QED BY <1>5, <3>1, <3>2 DEF Arrives, Reaches, OwnAddress
  <2>3. CASE m # <<>>
    <3>1. /\ <<host, port>> \in DOMAIN channel_info_
          /\ channel_info_[<<host, port>>] = InetAddr(m)
      BY <1>4, <1>6, <2>1, <2>3, ChannelsListen DEF m, host, port
    <3>2. IpToU8(ToHost(cfg)) = InetAddr(m)
      <4>1. m \in Seq(Nat) /\ IpIsGood(m) /\ 256 \notin Range(m) /\ ToHost(cfg) = m
        BY <1>6, <2>3 DEF SocketInv, AddressesGood, AsDocumented, ToHost, m
      <4> QED BY <4>1, SameAddress
    <3> QED BY <1>5, <3>1, <3>2 DEF Arrives, Reaches
  <2> QED BY <2>2, <2>3
<1>7. ASSUME AsDocumented
      PROVE  /\ key \in DataFlow => Dispatch(from) = "data"
             /\ key = "StateInfoHostIpCfg" => Dispatch(from) = "command" /\ Accepts(cfg.dev_type, from)
  <2>1. lidar_net_info = LidarPort[cfg.dev_type]
    <3>1. lidar_net_info = CheckPort(cfg.dev_type, cfg.lidar)
      BY DEF SocketInv
    <3>2. CASE cfg.dev_type \in {"Mid360", "Mid360s"}
      BY <3>1, <3>2 DEF CheckPort
    <3>3. CASE cfg.dev_type \notin {"Mid360", "Mid360s"}
      <4>1. lidar_net_info = [name \in PortName |-> LidarPort[cfg.dev_type][name] % 65536]
        BY <1>7, <3>1, <3>3 DEF CheckPort, AsDocumented
      <4>2. cfg.dev_type \in {"HAP", "Avia2"}
        BY <1>1, <3>3 DEF DevType
      <4> QED BY <4>1, <4>2 DEF LidarPort, Ports, PortName
    <3> QED BY <3>2, <3>3
  <2>2. key \in DataFlow => from \in {lidar_net_info.point_data_port, lidar_net_info.imu_data_port}
    BY <1>4, <2>1 DEF from
  <2>3. key = "StateInfoHostIpCfg" =>
          /\ from = LidarPort[cfg.dev_type].push_msg_port
          /\ from = lidar_net_info.push_msg_port
          /\ from \notin {lidar_net_info.point_data_port, lidar_net_info.imu_data_port}
    BY <1>1, <1>2, <1>4, <2>1 DEF from, LidarPort, Ports, DevType
  <2> QED BY <2>2, <2>3 DEF Dispatch, Accepts
<1> QED BY <1>3, <1>5, <1>6, <1>7 DEF FlowHeard, m, DataFlow

LEMMA HeardSame ==
  ASSUME UNCHANGED <<cfg, lidar_net_info, channel_info_, view>>
  PROVE  \A kv : FlowHeard(kv)' <=> FlowHeard(kv)
  BY DEF FlowHeard, Arrives, Reaches, Dispatch, AsDocumented

LEMMA RequestSame ==
  ASSUME UNCHANGED <<cfg, lidar_net_info, channel_info_, view>>
  PROVE  \A m : RequestInv(m)' <=> RequestInv(m)
  BY HeardSame DEF RequestInv

(* A message more, or one less.                                             *)
LEMMA WireAppends ==
  ASSUME WireInv, UNCHANGED <<cfg, lidar_net_info, channel_info_, view>>,
         NEW m, wire' = Append(wire, m), m.kind \in {"set", "info", "push"},
         m.kind = "set" => RequestInv(m), m.kind = "info" => cfg.is_view
  PROVE  WireInv'
<1>1. /\ Listing(wire')
      /\ \A k \in DOMAIN wire' : wire'[k] = m \/ \E j \in DOMAIN wire : wire'[k] = wire[j]
  BY AppendedOne DEF WireInv
<1> QED BY <1>1, RequestSame DEF WireInv, Listing

LEMMA WireLoses ==
  ASSUME WireInv, UNCHANGED <<cfg, lidar_net_info, channel_info_, view>>,
         NEW i \in DOMAIN wire, wire' = RemoveAt(wire, i)
  PROVE  WireInv'
<1>1. /\ Listing(wire')
      /\ \A k \in DOMAIN wire' : \E j \in DOMAIN wire : wire'[k] = wire[j]
  BY RemovedOne DEF WireInv
<1> QED BY <1>1, RequestSame DEF WireInv, Listing

LEMMA NothingAppended ==
  ASSUME WireInv, NothingSet, NEW m, wire' = Append(wire, m), m.kind = "set" => m.by # "sdk",
         UNCHANGED held
  PROVE  NothingSet'
<1>1. \A k \in DOMAIN wire' : wire'[k] = m \/ \E j \in DOMAIN wire : wire'[k] = wire[j]
  BY AppendedOne DEF WireInv
<1> QED BY <1>1 DEF NothingSet

LEMMA NothingLost ==
  ASSUME WireInv, NothingSet, NEW i \in DOMAIN wire, wire' = RemoveAt(wire, i),
         \A key \in DOMAIN held' : held'[key].by # "sdk"
  PROVE  NothingSet'
<1>1. \A k \in DOMAIN wire' : \E j \in DOMAIN wire : wire'[k] = wire[j]
  BY RemovedOne DEF WireInv
<1> QED BY <1>1 DEF NothingSet

(* Messages travel only when the SDK is up.                                 *)
LEMMA TravelsWhenUp ==
  ASSUME SocketInv, wire # <<>> \/ DOMAIN wire # {} \/ \E a, p : Reaches(a, p)
  PROVE  phase = "up"
<1>1. DOMAIN <<>> = {}
  OBVIOUS
<1> QED BY <1>1 DEF SocketInv, Reaches

LEMMA SdkInitStep == ASSUME ParamsInv, LivoxLidarSdkInit PROVE ParamsInv'
<1>0. cfg \in Configs /\ cfg.dev_type \in DevType /\ cfg.is_view \in BOOLEAN
  BY ConfigsAssumption DEF ParamsInv, SocketInv, Config
<1>1. NothingSet /\ wire = <<>> /\ DOMAIN wire = {} /\ channel_info_ = <<>>
  BY DEF ParamsInv, SocketInv, LivoxLidarSdkInit
<1>2. UNCHANGED <<cfg, view, devices_, held, wire, calls, updates, pushes>>
  BY DEF LivoxLidarSdkInit
<1>3. NothingSet'
  BY <1>1, <1>2 DEF NothingSet
<1>4. HeldInv' /\ WireInv' /\ CountInv' /\ devices_' \in BOOLEAN
  BY <1>1, <1>2 DEF ParamsInv, HeldInv, WireInv, CountInv, NothingSet, FlowHeard, Listing
<1>8. phase' = "up" => AddressesGood'
  <2> SUFFICES ASSUME phase' = "up" PROVE AddressesGood
    BY <1>2 DEF AddressesGood
  <2>1. /\ \A name \in DOMAIN cfg.address : cfg.address[name] \in Seq(Nat)
        /\ DOMAIN cfg.address \subseteq {"host_ip", "cmd_data_ip", "multicast_ip"}
        /\ cfg.is_view => "host_ip" \in DOMAIN cfg.address
    BY <1>0, ConfigsAssumption DEF Config
  <2>2. /\ IpIsGood(HostIp(cfg))
        /\ cfg.is_view \/ (ParseHostNetInfo(cfg) /\ CheckLidarMulticastIp(MulticastIp(cfg)))
    BY DEF LivoxLidarSdkInit
  <2>3. HostIp(cfg) \in Seq(Nat)
    BY <2>1, <2>2 DEF HostIp, ParseHostNetInfo
  <2>4. MulticastIp(cfg) = <<>> \/ MulticastIp(cfg) \in Seq(Nat)
    BY <2>1 DEF MulticastIp
  <2> QED BY <2>2, <2>3, <2>4 DEF AddressesGood, CheckLidarMulticastIp
<1>5. CASE cfg.is_view /\ IpIsGood(HostIp(cfg))
  <2>1. OwnAddress(channel_info_')
    BY <1>5, DetectionChannel DEF LivoxLidarSdkInit
  <2>2. phase' = "up" /\ lidar_net_info' = lidar_net_info
    BY <1>5 DEF LivoxLidarSdkInit
  <2>3. SocketInv'
    BY <1>0, <1>2, <1>3, <1>5, <1>8, <2>1, <2>2 DEF ParamsInv, SocketInv
  <2> QED BY <1>4, <2>3 DEF ParamsInv
<1>6. CASE ~cfg.is_view /\ phase' = "up"
  <2>1. /\ lidar_net_info' = CheckPort(cfg.dev_type, cfg.lidar)
        /\ channel_info_' = CreateChannel(cfg)
    BY <1>6 DEF LivoxLidarSdkInit
  <2>2. DOMAIN lidar_net_info' = PortName
    BY <1>0, <2>1 DEF CheckPort, LidarPort, Ports, PortName
  <2>3. SocketInv'
    BY <1>0, <1>2, <1>6, <1>8, <2>1, <2>2 DEF SocketInv
  <2> QED BY <1>4, <2>3 DEF ParamsInv
<1>7. CASE /\ phase' = "refused" /\ UNCHANGED <<lidar_net_info, channel_info_>>
  <2>1. SocketInv'
    BY <1>0, <1>1, <1>2, <1>3, <1>7 DEF ParamsInv, SocketInv
  <2> QED BY <1>4, <2>1 DEF ParamsInv
<1> QED BY <1>0, <1>5, <1>6, <1>7 DEF LivoxLidarSdkInit

(* A step that leaves the sockets and the settings alone.                   *)
LEMMA Quiet ==
  ASSUME ParamsInv, phase = "up", UNCHANGED <<cfg, phase, lidar_net_info, channel_info_, view, held>>,
         devices_' \in BOOLEAN,
         cfg.is_view /\ view = <<>> /\ NothingSet => NothingSet',
         WireInv', CountInv'
  PROVE  ParamsInv'
<1>1. SocketInv'
  BY DEF ParamsInv, SocketInv, AddressesGood
<1>2. HeldInv'
  BY HeardSame DEF ParamsInv, HeldInv
<1> QED BY <1>1, <1>2 DEF ParamsInv

LEMMA CallSetterStep == ASSUME ParamsInv, CallSetter PROVE ParamsInv'
<1>0. PICK name \in DOMAIN Setters : \E arg \in Setters[name].args :
        wire' = Append(wire, Request(1, <<SetLivoxLidar(name, arg)>>, "app"))
  BY DEF CallSetter
<1>1. PICK arg \in Setters[name].args :
        wire' = Append(wire, Request(1, <<SetLivoxLidar(name, arg)>>, "app"))
  BY <1>0
<1> DEFINE kv == SetLivoxLidar(name, arg)
           m == Request(1, <<kv>>, "app")
<1>2. kv.by = "app"
  BY DEF SetLivoxLidar, KeyValue
<1> HIDE DEF kv
<1>3. /\ m.kind = "set" /\ m.by = "app" /\ m.key_num = 1 /\ m.kvs = <<kv>>
  BY DEF Request
<1>4. Listing(m.kvs) /\ Len(m.kvs) = 1 /\ \A j \in DOMAIN m.kvs : m.kvs[j] = kv
  BY <1>3, TupleListing
<1> HIDE DEF m
<1>5. wire' = Append(wire, m)
  BY <1>1 DEF kv, m
<1>6. RequestInv(m)
  BY <1>2, <1>3, <1>4 DEF RequestInv, FlowHeard
<1>7. /\ UNCHANGED <<cfg, phase, lidar_net_info, channel_info_, view, devices_, held, updates, pushes>>
      /\ phase = "up" /\ calls < MaxCalls /\ calls' = calls + 1
  BY DEF CallSetter
<1>8. WireInv'
  BY <1>3, <1>5, <1>6, <1>7, WireAppends DEF ParamsInv
<1>9. NothingSet => NothingSet'
  BY <1>3, <1>5, <1>7, NothingAppended DEF ParamsInv
<1>10. CountInv'
  <2>1. calls < MaxCalls /\ calls' = calls + 1 /\ updates' = updates /\ pushes' = pushes
    BY <1>7
  <2>2. CountInv
    BY DEF ParamsInv
  <2> QED BY <2>1, <2>2, BoundsAreNat DEF CountInv
<1> QED BY <1>7, <1>8, <1>9, <1>10, Quiet DEF ParamsInv

LEMMA UpdateStep == ASSUME ParamsInv, UpdateLidarCfg PROVE ParamsInv'
<1> DEFINE m == BuildUpdate(cfg)
<1>1. /\ UNCHANGED <<cfg, phase, lidar_net_info, channel_info_, view, devices_, held, calls, pushes>>
      /\ phase = "up" /\ ~cfg.is_view /\ updates < MaxUpdates /\ updates' = updates + 1
      /\ wire' = Append(wire, m)
  BY DEF UpdateLidarCfg
<1>2. /\ m.kind = "set" /\ m.by = "sdk"
      /\ Listing(m.kvs) /\ m.key_num \in 0..Len(m.kvs)
      /\ \A j \in DOMAIN m.kvs : FromFile(cfg, m.kvs[j])
  BY UpdateFlows DEF ParamsInv, SocketInv
<1> HIDE DEF m
<1>3. ASSUME NEW j \in DOMAIN m.kvs PROVE m.kvs[j].by = "sdk" /\ FlowHeard(m.kvs[j])
  <2>1. m.kvs[j].by = "sdk"
    <3>1. PICK key \in DOMAIN FlowPort :
            m.kvs[j] = Flow(key, ToHost(cfg), HostPort(cfg, FlowPort[key]),
                            LidarPort[cfg.dev_type][FlowPort[key]])
      BY <1>2 DEF FromFile
    <3> QED BY <3>1 DEF Flow, KeyValue
  <2> QED BY <1>1, <1>2, <2>1, FileHeard DEF ParamsInv
<1>4. RequestInv(m)
  BY <1>2, <1>3 DEF RequestInv
<1>5. WireInv'
  BY <1>1, <1>2, <1>4, WireAppends DEF ParamsInv
<1>6. CountInv'
  <2>1. updates < MaxUpdates /\ updates' = updates + 1 /\ calls' = calls /\ pushes' = pushes
    BY <1>1
  <2>2. CountInv
    BY DEF ParamsInv
  <2> QED BY <2>1, <2>2, BoundsAreNat DEF CountInv
<1> QED BY <1>1, <1>5, <1>6, Quiet DEF ParamsInv

LEMMA QueryStep == ASSUME ParamsInv, QueryLivoxLidarInternalInfo PROVE ParamsInv'
<1> DEFINE m == [kind |-> "info", kvs |-> Listed(InternalInfoKeys[cfg.dev_type])]
<1>1. /\ UNCHANGED <<cfg, phase, lidar_net_info, channel_info_, view, devices_, held, calls, pushes>>
      /\ phase = "up" /\ cfg.is_view /\ updates < MaxUpdates /\ updates' = updates + 1
      /\ wire' = Append(wire, m)
  BY DEF QueryLivoxLidarInternalInfo
<1>2. m.kind = "info"
  OBVIOUS
<1> HIDE DEF m
<1>3. WireInv'
  BY <1>1, <1>2, WireAppends DEF ParamsInv
<1>4. NothingSet => NothingSet'
  BY <1>1, <1>2, NothingAppended DEF ParamsInv
<1>5. CountInv'
  <2>1. updates < MaxUpdates /\ updates' = updates + 1 /\ calls' = calls /\ pushes' = pushes
    BY <1>1
  <2>2. CountInv
    BY DEF ParamsInv
  <2> QED BY <2>1, <2>2, BoundsAreNat DEF CountInv
<1> QED BY <1>1, <1>3, <1>4, <1>5, Quiet DEF ParamsInv

LEMMA InfoStep == ASSUME ParamsInv, InfoArrives PROVE ParamsInv'
<1>1. PICK i \in DOMAIN wire : wire[i].kind = "info" /\ AddViewLidar(wire[i].kvs, RemoveAt(wire, i))
  BY DEF InfoArrives
<1>2. UNCHANGED <<cfg, phase, lidar_net_info, devices_, held, calls, updates, pushes>>
  BY DEF InfoArrives
<1>3. phase = "up" /\ cfg.is_view
  BY <1>1, TravelsWhenUp DEF ParamsInv, WireInv
<1>4. CountInv' /\ devices_' \in BOOLEAN
  BY <1>2 DEF ParamsInv, CountInv
<1> DEFINE rest == RemoveAt(wire, i)
<1>5. Listing(rest) /\ \A k \in DOMAIN rest : \E j \in DOMAIN wire : rest[k] = wire[j]
  BY RemovedOne DEF ParamsInv, WireInv
<1> HIDE DEF rest
<1>6. CASE view # <<>>
  <2>1. UNCHANGED <<view, channel_info_>> /\ wire' = RemoveAt(wire, i)
    BY <1>1, <1>6 DEF AddViewLidar
  <2>2. WireInv'
    BY <1>2, <2>1, WireLoses DEF ParamsInv
  <2> QED BY <1>2, <1>3, <1>4, <1>6, <2>1, <2>2, Quiet
<1>7. CASE view = <<>>
  <2>1. PICK v, host, m, open : /\ v = ViewInfo(cfg, wire[i].kvs) /\ host = InetAddr(HostIp(cfg))
                                /\ m = BuildUpdateViewLidarCfgRequest(cfg, v)
                                /\ open = CreateViewDataChannel(channel_info_, host, v)
    OBVIOUS
  <2>2. view' = v /\ channel_info_' = open /\ wire' = Append(rest, m)
    BY <1>1, <1>7, <2>1 DEF AddViewLidar, rest
  <2>3. v # <<>>
    <3>1. \E a, b, c, d : v = [host_point_port |-> a, lidar_point_port |-> b,
                              host_imu_data_port |-> c, lidar_imu_data_port |-> d]
      BY <2>1 DEF ViewInfo
    <3>2. "host_point_port" \in DOMAIN v
      BY <3>1
    <3>3. DOMAIN <<>> = {}
      OBVIOUS
    <3> QED BY <3>2, <3>3
  <2>4. PICK point, imu :
          /\ point = Flow("LidarPointDataHostIpCfg", HostIp(cfg), v.host_point_port, v.lidar_point_port)
          /\ imu = Flow("LidarImuHostIpCfg", HostIp(cfg), v.host_imu_data_port, v.lidar_imu_data_port)
    OBVIOUS
  <2>5. /\ m.kind = "set" /\ m.by = "sdk" /\ m.key_num = 2 /\ m.kvs = <<point, imu>>
    BY <2>1, <2>4 DEF BuildUpdateViewLidarCfgRequest, Request
  <2>6. /\ point.by = "sdk" /\ point.key = "LidarPointDataHostIpCfg"
        /\ point.value = <<IpToU8(HostIp(cfg)), v.host_point_port, v.lidar_point_port>>
        /\ imu.by = "sdk" /\ imu.key = "LidarImuHostIpCfg"
        /\ imu.value = <<IpToU8(HostIp(cfg)), v.host_imu_data_port, v.lidar_imu_data_port>>
    BY <2>1, <2>4 DEF Flow, KeyValue
  <2>7. /\ OwnAddress(open) /\ <<host, v.host_point_port>> \in DOMAIN open
        /\ <<host, v.host_imu_data_port>> \in DOMAIN open
    <3>1. PICK one : one = Open(channel_info_, host, v.host_point_port, host)
      OBVIOUS
    <3>2. OwnAddress(one) /\ <<host, v.host_point_port>> \in DOMAIN one
      BY <1>3, <3>1, OpenOwn DEF ParamsInv, SocketInv, Open
    <3>3. open = Open(one, host, v.host_imu_data_port, host)
      BY <2>1, <3>1 DEF CreateViewDataChannel
    <3>4. OwnAddress(open)
      BY <3>2, <3>3, OpenOwn
    <3>5. DOMAIN open = DOMAIN one \cup {<<host, v.host_imu_data_port>>}
      BY <3>3 DEF Open
    <3> QED BY <3>2, <3>4, <3>5
  <2>8. AsDocumented => Arrives(point.value)' /\ Arrives(imu.value)'
    <3> SUFFICES ASSUME AsDocumented PROVE Arrives(point.value)' /\ Arrives(imu.value)'
      OBVIOUS
    <3>1. /\ HostIp(cfg) \in Seq(Nat) /\ IpIsGood(HostIp(cfg))
          /\ 256 \notin Range(HostIp(cfg))
      BY <1>3 DEF ParamsInv, SocketInv, AddressesGood, AsDocumented
    <3>2. IpToU8(HostIp(cfg)) = host
      BY <2>1, <3>1, SameAddress
    <3> QED BY <2>2, <2>6, <2>7, <3>2 DEF Arrives, Reaches, OwnAddress
  <2>9. Dispatch(point.value[3])' = "data" /\ Dispatch(imu.value[3])' = "data"
    BY <1>2, <1>3, <2>2, <2>3, <2>6 DEF Dispatch
  <2>10. RequestInv(m)'
    <3>0. AsDocumented' <=> AsDocumented
      BY <1>2 DEF AsDocumented
    <3>1. FlowHeard(point)' /\ FlowHeard(imu)'
      BY <2>6, <2>8, <2>9, <3>0 DEF FlowHeard
    <3>2. Listing(m.kvs) /\ Len(m.kvs) = 2 /\ \A j \in DOMAIN m.kvs : m.kvs[j] \in {point, imu}
      BY <2>5, TupleListing
    <3> QED BY <2>5, <2>6, <3>1, <3>2 DEF RequestInv
  <2>11. NothingSet
    BY <1>3, <1>7 DEF ParamsInv, SocketInv
  <2>12. \A n : RequestInv(n) /\ n.by # "sdk" => RequestInv(n)'
    BY DEF RequestInv, FlowHeard
  <2>13. WireInv'
    <3>1. /\ Listing(wire')
          /\ \A k \in DOMAIN wire' : wire'[k] = m \/ \E j \in DOMAIN wire : wire'[k] = wire[j]
      BY <1>5, <2>2, AppendedOne
    <3>2. \A n : (\E j \in DOMAIN wire : n = wire[j]) /\ n.kind = "set" => RequestInv(n)'
      BY <2>11, <2>12 DEF ParamsInv, WireInv, NothingSet
    <3> QED BY <1>2, <1>3, <2>5, <2>10, <3>1, <3>2 DEF ParamsInv, WireInv, Listing
  <2>14. HeldInv'
    BY <1>2, <2>11 DEF ParamsInv, HeldInv, NothingSet, FlowHeard
  <2>15. SocketInv'
    BY <1>2, <1>3, <2>2, <2>3, <2>7 DEF ParamsInv, SocketInv, AddressesGood
  <2> QED BY <1>4, <2>13, <2>14, <2>15 DEF ParamsInv
<1> QED BY <1>6, <1>7

LEMMA AppliesStep == ASSUME ParamsInv, LidarApplies PROVE ParamsInv'
<1>1. PICK i \in DOMAIN wire :
        /\ wire[i].kind = "set" /\ wire' = RemoveAt(wire, i)
        /\ held' = Stored(SubSeq(wire[i].kvs, 1, wire[i].key_num))
        /\ devices_' \in {devices_, devices_ \/ wire[i].by = "sdk"}
  BY DEF LidarApplies
<1> DEFINE m == wire[i]
           kvs == SubSeq(m.kvs, 1, m.key_num)
<1>2. /\ UNCHANGED <<cfg, phase, lidar_net_info, channel_info_, view, calls, updates, pushes>>
      /\ phase = "up"
  BY <1>1, TravelsWhenUp DEF LidarApplies, ParamsInv
<1>3. RequestInv(m)
  BY <1>1 DEF ParamsInv, WireInv
<1>4. \A j \in DOMAIN kvs : kvs[j].by = m.by /\ FlowHeard(kvs[j])
  BY <1>3, FirstOnes DEF RequestInv
<1>5. held' = Stored(kvs)
  BY <1>1
<1> HIDE DEF kvs
<1>6. \A key \in DOMAIN held' :
        \/ key \in DOMAIN held /\ held'[key] = held[key]
        \/ \E j \in DOMAIN kvs : kvs[j].key = key /\ held'[key] = kvs[j]
  <2> SUFFICES ASSUME NEW key \in DOMAIN held'
               PROVE  \/ key \in DOMAIN held /\ held'[key] = held[key]
                      \/ \E j \in DOMAIN kvs : kvs[j].key = key /\ held'[key] = kvs[j]
    OBVIOUS
  <2> DEFINE first == CHOOSE j \in DOMAIN kvs : kvs[j].key = key
  <2>1. /\ key \in DOMAIN held \cup {kvs[j].key : j \in DOMAIN kvs}
        /\ held'[key] = IF \E j \in DOMAIN kvs : kvs[j].key = key THEN kvs[first] ELSE held[key]
    BY <1>5 DEF Stored
  <2>2. (\E j \in DOMAIN kvs : kvs[j].key = key) => first \in DOMAIN kvs /\ kvs[first].key = key
    OBVIOUS
  <2> QED BY <2>1, <2>2
<1>7. HeldInv'
  <2>1. m.by \in {"sdk", "app"}
    BY <1>3 DEF RequestInv
  <2> QED BY <1>2, <1>4, <1>6, <2>1, HeardSame DEF ParamsInv, HeldInv
<1>8. WireInv'
  BY <1>1, <1>2, WireLoses DEF ParamsInv
<1>9. SocketInv'
  <2>1. ASSUME NothingSet PROVE NothingSet'
    <3>1. \A key \in DOMAIN held' : held'[key].by # "sdk"
      BY <1>1, <1>4, <1>6, <2>1 DEF NothingSet
    <3> QED BY <1>1, <2>1, <3>1, NothingLost DEF ParamsInv
  <2> QED BY <1>2, <2>1 DEF ParamsInv, SocketInv, AddressesGood
<1>10. CountInv'
  BY <1>2 DEF ParamsInv, CountInv
<1>11. devices_' \in BOOLEAN
  BY <1>1 DEF ParamsInv
<1> QED BY <1>7, <1>8, <1>9, <1>10, <1>11 DEF ParamsInv

LEMMA LossStep ==
  ASSUME ParamsInv, NEW i \in DOMAIN wire, wire' = RemoveAt(wire, i),
         UNCHANGED <<cfg, phase, lidar_net_info, channel_info_, view, devices_, held, calls, updates, pushes>>
  PROVE  ParamsInv'
<1>1. phase = "up"
  BY TravelsWhenUp DEF ParamsInv
<1>2. WireInv'
  BY WireLoses DEF ParamsInv
<1>3. NothingSet => NothingSet'
  <2>1. SUFFICES ASSUME NothingSet PROVE NothingSet'
    OBVIOUS
  <2>2. \A key \in DOMAIN held' : held'[key].by # "sdk"
    BY <2>1 DEF NothingSet
  <2> QED BY <2>1, <2>2, NothingLost DEF ParamsInv
<1>4. CountInv' /\ devices_' \in BOOLEAN
  BY DEF ParamsInv, CountInv
<1> QED BY <1>1, <1>2, <1>3, <1>4, Quiet

LEMMA PushStep == ASSUME ParamsInv, Push PROVE ParamsInv'
<1>1. PICK keys \in {DOMAIN held \cap Status, DOMAIN held \ Status} :
        wire' = Append(wire, [kind |-> "push", kvs |-> Listed(keys), port |-> StateFlow[3]])
  BY DEF Push
<1> DEFINE m == [kind |-> "push", kvs |-> Listed(keys), port |-> StateFlow[3]]
<1>2. m.kind = "push" /\ wire' = Append(wire, m)
  BY <1>1
<1> HIDE DEF m
<1>3. /\ UNCHANGED <<cfg, phase, lidar_net_info, channel_info_, view, devices_, held, calls, updates>>
      /\ pushes < MaxPushes /\ pushes' = pushes + 1 /\ Reaches(StateFlow[1], StateFlow[2])
  BY DEF Push
<1>4. phase = "up"
  BY <1>3, TravelsWhenUp DEF ParamsInv
<1>5. WireInv'
  BY <1>2, <1>3, WireAppends DEF ParamsInv
<1>6. NothingSet => NothingSet'
  BY <1>2, <1>3, NothingAppended DEF ParamsInv
<1>7. CountInv'
  <2>1. pushes < MaxPushes /\ pushes' = pushes + 1 /\ calls' = calls /\ updates' = updates
    BY <1>3
  <2>2. CountInv
    BY DEF ParamsInv
  <2> QED BY <2>1, <2>2, BoundsAreNat DEF CountInv
<1>8. devices_' \in BOOLEAN
  BY <1>3 DEF ParamsInv
<1> QED BY <1>3, <1>4, <1>5, <1>6, <1>7, <1>8, Quiet

LEMMA ParamsInvStep == ParamsInv /\ [ParamsNext]_paramsVars => ParamsInv'
<1> SUFFICES ASSUME ParamsInv, [ParamsNext]_paramsVars PROVE ParamsInv'
  OBVIOUS
<1>1. ASSUME Lose \/ OnData PROVE ParamsInv'
  <2>1. PICK i \in DOMAIN wire : wire' = RemoveAt(wire, i)
    BY <1>1 DEF Lose, OnData
  <2> QED BY <1>1, <2>1, LossStep DEF Lose, OnData
<1>2. CASE UNCHANGED paramsVars
  <2>1. UNCHANGED <<cfg, phase, lidar_net_info, channel_info_, view, devices_, held, wire,
                    calls, updates, pushes>>
    BY <1>2 DEF paramsVars
  <2>2. NothingSet' <=> NothingSet
    BY <2>1 DEF NothingSet
  <2>3. SocketInv'
    BY <2>1, <2>2 DEF ParamsInv, SocketInv, AddressesGood
  <2>4. WireInv' /\ HeldInv'
    BY <2>1, HeardSame, RequestSame DEF ParamsInv, WireInv, HeldInv, Listing
  <2> QED BY <2>1, <2>3, <2>4 DEF ParamsInv, CountInv
<1> QED
  BY <1>1, <1>2, SdkInitStep, CallSetterStep, UpdateStep, QueryStep, InfoStep, AppliesStep, PushStep
  DEF ParamsNext

(* For any file, ports and addresses: the flows the SDK sets reach a socket *)
(* it has opened, and what they carry is taken for what it is.              *)
THEOREM FlowsAreHeard == ParamsSpec => []FlowsReachHost
<1>1. ParamsInv => FlowsReachHost
  BY DEF ParamsInv, HeldInv, FlowHeard, DataFlow, FlowsReachHost, Ours, PushArrives
<1> QED BY <1>1, ParamsInvInit, ParamsInvStep, PTL DEF ParamsSpec

-----------------------------------------------------------------------------
(* The tables of the parser and the printer.                                *)

LEMMA JoinedLooksUp ==
  ASSUME NEW f, NEW g
  PROVE  LET h == Joined(f, g)
         IN /\ DOMAIN h = DOMAIN f \cup DOMAIN g
            /\ \A x \in DOMAIN h : \/ x \in DOMAIN f /\ h[x] = f[x]
                                   \/ x \in DOMAIN g /\ h[x] = g[x]
BY DEF Joined

(* What the parser copies to a field, the printer prints from that field.   *)
LEMMA PrintedAsParsed ==
  \A key \in DOMAIN FieldOf : key \in DOMAIN PrintedFrom /\ PrintedFrom[key] = FieldOf[key]
<1> DEFINE Upper == Joined(PrintedAddresses, PrintedSettings)
           Lower == Joined(PrintedModes, PrintedStatus)
           Same(f, g) == \A key \in DOMAIN f \cap DOMAIN g : f[key] = g[key]
           Covers(f) == DOMAIN f \subseteq DOMAIN PrintedAddresses \cup DOMAIN PrintedSettings
                                             \cup DOMAIN PrintedModes \cup DOMAIN PrintedStatus
<1>1. /\ Same(PrintedAddresses, ConfigFields) /\ Same(PrintedSettings, ConfigFields)
      /\ Same(PrintedModes, ConfigFields) /\ Same(PrintedStatus, ConfigFields)
      /\ Covers(ConfigFields)
  BY DEF ConfigFields, PrintedAddresses, PrintedSettings, PrintedModes, PrintedStatus
<1>2. /\ Same(PrintedAddresses, StatusFields) /\ Same(PrintedSettings, StatusFields)
      /\ Same(PrintedModes, StatusFields) /\ Same(PrintedStatus, StatusFields)
      /\ Covers(StatusFields)
  BY DEF StatusFields, PrintedAddresses, PrintedSettings, PrintedModes, PrintedStatus
<1>3. ASSUME NEW key \in DOMAIN FieldOf
      PROVE  key \in DOMAIN PrintedFrom /\ PrintedFrom[key] = FieldOf[key]
  <2>1. \/ key \in DOMAIN ConfigFields /\ FieldOf[key] = ConfigFields[key]
        \/ key \in DOMAIN StatusFields /\ FieldOf[key] = StatusFields[key]
    BY JoinedLooksUp DEF FieldOf
  <2>2. /\ DOMAIN Upper = DOMAIN PrintedAddresses \cup DOMAIN PrintedSettings
        /\ DOMAIN Lower = DOMAIN PrintedModes \cup DOMAIN PrintedStatus
        /\ DOMAIN PrintedFrom = DOMAIN Upper \cup DOMAIN Lower
    BY JoinedLooksUp DEF PrintedFrom
  <2>3. key \in DOMAIN PrintedFrom
    BY <1>1, <1>2, <2>1, <2>2
  <2>4. \/ key \in DOMAIN PrintedAddresses /\ PrintedFrom[key] = PrintedAddresses[key]
        \/ key \in DOMAIN PrintedSettings /\ PrintedFrom[key] = PrintedSettings[key]
        \/ key \in DOMAIN PrintedModes /\ PrintedFrom[key] = PrintedModes[key]
        \/ key \in DOMAIN PrintedStatus /\ PrintedFrom[key] = PrintedStatus[key]
    <3>1. \/ key \in DOMAIN Upper /\ PrintedFrom[key] = Upper[key]
          \/ key \in DOMAIN Lower /\ PrintedFrom[key] = Lower[key]
      BY <2>3, JoinedLooksUp DEF PrintedFrom
    <3>2. ASSUME key \in DOMAIN Upper
          PROVE  \/ key \in DOMAIN PrintedAddresses /\ Upper[key] = PrintedAddresses[key]
                 \/ key \in DOMAIN PrintedSettings /\ Upper[key] = PrintedSettings[key]
      BY <3>2, JoinedLooksUp
    <3>3. ASSUME key \in DOMAIN Lower
          PROVE  \/ key \in DOMAIN PrintedModes /\ Lower[key] = PrintedModes[key]
                 \/ key \in DOMAIN PrintedStatus /\ Lower[key] = PrintedStatus[key]
      BY <3>3, JoinedLooksUp
    <3> HIDE DEF Upper, Lower
    <3> QED BY <3>1, <3>2, <3>3
  <2> QED BY <1>1, <1>2, <2>1, <2>3, <2>4
<1> QED BY <1>3

(* No field is the field of two parameters.                                 *)
KeyOf ==
  [pcl_data_type |-> "PclDataType", pattern_mode |-> "PatternMode", dual_emit_en |-> "DualEmitEn",
   point_send_en |-> "PointSendEn", lidar_ipcfg |-> "LidarIpCfg",
   host_state_info |-> "StateInfoHostIpCfg", pointcloud_host_ipcfg |-> "LidarPointDataHostIpCfg",
   imu_host_ipcfg |-> "LidarImuHostIpCfg", ctl_host_ipcfg |-> "CtlHostIpCfg",
   log_host_ipcfg |-> "LogHostIpCfg", vehicle_speed |-> "VehicleSpeed",
   environment_temp |-> "EnvironmentTemp", install_attitude |-> "InstallAttitude",
   blind_spot_set |-> "BlindSpotSet", frame_rate |-> "FrameRate", fov_cfg0 |-> "FovCfg0",
   fov_cfg1 |-> "FovCfg1", fov_cfg_en |-> "FovCfgEn", detect_mode |-> "DetectMode",
   func_io_cfg |-> "FuncIoCfg", work_tgt_mode |-> "WorkMode", glass_heat |-> "GlassHeat",
   imu_data_en |-> "ImuDataEn", fusa_en |-> "FusaEn", sn |-> "Sn", product_info |-> "ProductInfo",
   version_app |-> "VersionApp", version_loader |-> "VersionLoader",
   version_hardware |-> "VersionHardware", mac |-> "Mac", cur_work_state |-> "CurWorkState",
   core_temp |-> "CoreTemp", powerup_cnt |-> "PowerUpCnt", local_time_now |-> "LocalTimeNow",
   last_sync_time |-> "LastSyncTime", time_offset |-> "TimeOffset",
   time_sync_type |-> "TimeSyncType", status_code |-> "StatusCode",
   lidar_diag_status |-> "LidarDiagStatus", lidar_flash_status |-> "LidarFlashStatus",
   fw_type |-> "FwType", hms_code |-> "HmsCode", ROI_Mode |-> "RoiMode",
   esc_mode |-> "SetEscMode", fov_mode |-> "SetFovMode", echo_mode |-> "SetEchoMode",
   ntp_server_ip |-> "SetNTPServerIp", ito_mode |-> "SetITOCtrl",
   fog_noise_filter |-> "SetFogNoiseFilter", imu_range |-> "SetImuRange"]

LEMMA OneKeyPerField == \A key \in DOMAIN FieldOf : KeyOf[FieldOf[key]] = key
<1>1. \A key \in DOMAIN ConfigFields : KeyOf[ConfigFields[key]] = key
  BY DEF ConfigFields, KeyOf
<1>2. \A key \in DOMAIN StatusFields : KeyOf[StatusFields[key]] = key
  BY DEF StatusFields, KeyOf
<1>3. ASSUME NEW key \in DOMAIN FieldOf PROVE KeyOf[FieldOf[key]] = key
  <2>1. \/ key \in DOMAIN ConfigFields /\ FieldOf[key] = ConfigFields[key]
        \/ key \in DOMAIN StatusFields /\ FieldOf[key] = StatusFields[key]
    BY JoinedLooksUp DEF FieldOf
  <2> QED BY <1>1, <1>2, <2>1
<1> QED BY <1>3

(* So what was parsed is printed, under its own name, if it has the length  *)
(* of its field.                                                            *)
LEMMA PrintedIsParsed ==
  ASSUME NEW kvs, NEW key \in DOMAIN kvs \cap DOMAIN FieldOf,
         kvs[key].length = FieldSize[FieldOf[key]]
  PROVE  LET json == LivoxLidarStateInfoToJson(ParseStateInfo(kvs))
         IN key \in DOMAIN json /\ json[key] = Printed(key, kvs[key].value)
<1> DEFINE mask == DOMAIN kvs \cap DOMAIN FieldOf
           field == FieldOf[key]
           from == CHOOSE k \in mask : FieldOf[k] = field
           info == ParseStateInfo(kvs)
<1>1. from \in mask /\ FieldOf[from] = field
  OBVIOUS
<1>2. from = key
  BY <1>1, OneKeyPerField
<1>3. /\ info.key_mask = mask
      /\ field \in DOMAIN info.fields
      /\ info.fields[field] = CopyTo(field, kvs[from])
  BY DEF ParseStateInfo
<1>4. CopyTo(field, kvs[from]) = kvs[key].value
  BY <1>2 DEF CopyTo
<1>5. key \in info.key_mask \cap DOMAIN PrintedFrom /\ PrintedFrom[key] = field
  BY <1>3, PrintedAsParsed
<1> HIDE DEF info, field, from, mask
<1>6. /\ key \in DOMAIN LivoxLidarStateInfoToJson(info)
      /\ LivoxLidarStateInfoToJson(info)[key] = Printed(key, info.fields[field])
  BY <1>3, <1>5 DEF LivoxLidarStateInfoToJson
<1> QED BY <1>3, <1>4, <1>6 DEF info
-----------------------------------------------------------------------------
(* The parameters that are set.                                             *)

(* What the properties need of a parameter on its way or held by the lidar: *)
(* its value fills its field, and is what was given, if it can be.          *)
Sound(kv) ==
  /\ kv.key \in ParamKeyName
  /\ kv.key \in DOMAIN FieldOf =>
       /\ kv.length = FieldSize[FieldOf[kv.key]]
       /\ Faithful(kv) => Printed(kv.key, kv.value) = kv.arg

(* What a setter writes is as long as what the parser copies, and its      *)
(* addresses are texts.                                                     *)
Args(s) ==
  \A arg \in s.args :
    /\ arg = [i \in DOMAIN arg |-> arg[i]]
    /\ \A i \in s.addresses : i \in DOMAIN arg /\ arg[i] \in Seq(Nat)
    /\ s.key = "InstallAttitude" => DOMAIN arg = {1} /\ arg[1] \in Int

SetterFits(s) ==
  /\ s.key \in ParamKeyName
  /\ s.key \in DOMAIN FieldOf => s.length = FieldSize[FieldOf[s.key]]
  /\ s.key = "InstallAttitude" => s.addresses = {}
  /\ Args(s)

LEMMA ModeSettersFit == \A name \in DOMAIN ModeSetters : SetterFits(ModeSetters[name])
<1>1. \A s \in {ModeSetters[name] : name \in DOMAIN ModeSetters} :
        /\ s.key \in ParamKeyName /\ s.key # "InstallAttitude" /\ s.addresses = {}
        /\ s.key \in DOMAIN FieldOf => s.length = FieldSize[FieldOf[s.key]]
  BY DEF ModeSetters, Byte,
         Setter, FieldOf, Joined, ConfigFields, StatusFields, FieldSize, ParamKeyName
<1>2. \A s \in {ModeSetters[name] : name \in DOMAIN ModeSetters} :
        \A arg \in s.args : arg = [i \in DOMAIN arg |-> arg[i]]
  BY DEF ModeSetters, Byte, Setter
<1> QED BY <1>1, <1>2 DEF SetterFits, Args

LEMMA AddressSettersFit == \A name \in DOMAIN AddressSetters : SetterFits(AddressSetters[name])
<1>1. \A s \in {AddressSetters[name] : name \in DOMAIN AddressSetters} :
        /\ s.key \in ParamKeyName /\ s.key # "InstallAttitude"
        /\ s.key \in DOMAIN FieldOf => s.length = FieldSize[FieldOf[s.key]]
  BY DEF AddressSetters,
         Setter, FieldOf, Joined, ConfigFields, StatusFields, FieldSize, ParamKeyName
<1>2. ASSUME NEW t \in Texts, NEW u \in Texts, NEW arg, arg = <<t, u, t>>
      PROVE  /\ arg = [i \in DOMAIN arg |-> arg[i]]
             /\ \A i \in {1, 2, 3} : i \in DOMAIN arg /\ arg[i] \in Seq(Nat)
  BY <1>2, TextsAssumption
<1>3. ASSUME NEW t \in Texts, NEW h \in HostPorts, NEW l \in LidarPorts, NEW arg, arg = <<t, h, l>>
      PROVE  arg = [i \in DOMAIN arg |-> arg[i]] /\ 1 \in DOMAIN arg /\ arg[1] \in Seq(Nat)
  BY <1>3, TextsAssumption
<1>4. ASSUME NEW name \in DOMAIN AddressSetters PROVE Args(AddressSetters[name])
  <2>1. \/ /\ AddressSetters[name].addresses = {1, 2, 3}
           /\ AddressSetters[name].args = {<<t, u, t>> : t, u \in Texts}
        \/ /\ AddressSetters[name].addresses = {1}
           /\ AddressSetters[name].args = {<<t, h, l>> : t \in Texts, h \in HostPorts, l \in LidarPorts}
    BY DEF AddressSetters, Setter
  <2>2. \A arg \in AddressSetters[name].args :
           \/ AddressSetters[name].addresses = {1, 2, 3} /\ \E t, u \in Texts : arg = <<t, u, t>>
           \/ /\ AddressSetters[name].addresses = {1}
              /\ \E t \in Texts, h \in HostPorts, l \in LidarPorts : arg = <<t, h, l>>
    BY <2>1
  <2> QED BY <1>1, <1>2, <1>3, <2>2 DEF Args
<1> QED BY <1>1, <1>4 DEF SetterFits

LEMMA GeometrySettersFit == \A name \in DOMAIN GeometrySetters : SetterFits(GeometrySetters[name])
<1>1. \A s \in {GeometrySetters[name] : name \in DOMAIN GeometrySetters} :
        /\ s.key \in ParamKeyName /\ s.addresses = {}
        /\ s.key \in DOMAIN FieldOf => s.length = FieldSize[FieldOf[s.key]]
  BY DEF GeometrySetters, Byte, Struct,
         Setter, FieldOf, Joined, ConfigFields, StatusFields, FieldSize, ParamKeyName
<1>2. \A s \in {GeometrySetters[name] : name \in DOMAIN GeometrySetters} :
        \A arg \in s.args : arg = [i \in DOMAIN arg |-> arg[i]] /\ DOMAIN arg = {1} /\ arg[1] \in Int
  BY DEF GeometrySetters, Byte, Struct, Setter, Switch
<1> QED BY <1>1, <1>2 DEF SetterFits, Args

LEMMA DetectSettersFit == \A name \in DOMAIN DetectSetters : SetterFits(DetectSetters[name])
<1>1. \A s \in {DetectSetters[name] : name \in DOMAIN DetectSetters} :
        /\ s.key \in ParamKeyName /\ s.key # "InstallAttitude" /\ s.addresses = {}
        /\ s.key \in DOMAIN FieldOf => s.length = FieldSize[FieldOf[s.key]]
  BY DEF DetectSetters, Byte, Struct,
         Setter, FieldOf, Joined, ConfigFields, StatusFields, FieldSize, ParamKeyName
<1>2. \A s \in {DetectSetters[name] : name \in DOMAIN DetectSetters} :
        \A arg \in s.args : arg = [i \in DOMAIN arg |-> arg[i]]
  BY DEF DetectSetters, Byte, Struct, Setter
<1> QED BY <1>1, <1>2 DEF SetterFits, Args

LEMMA HeatSettersFit == \A name \in DOMAIN HeatSetters : SetterFits(HeatSetters[name])
<1>1. \A s \in {HeatSetters[name] : name \in DOMAIN HeatSetters} :
        /\ s.key \in ParamKeyName /\ s.key # "InstallAttitude" /\ s.addresses = {}
        /\ s.key \in DOMAIN FieldOf => s.length = FieldSize[FieldOf[s.key]]
  BY DEF HeatSetters, Byte,
         Setter, FieldOf, Joined, ConfigFields, StatusFields, FieldSize, ParamKeyName
<1>2. \A s \in {HeatSetters[name] : name \in DOMAIN HeatSetters} :
        \A arg \in s.args : arg = [i \in DOMAIN arg |-> arg[i]]
  BY DEF HeatSetters, Byte, Setter
<1> QED BY <1>1, <1>2 DEF SetterFits, Args

LEMMA RangeSettersFit == \A name \in DOMAIN RangeSetters : SetterFits(RangeSetters[name])
<1>1. \A s \in {RangeSetters[name] : name \in DOMAIN RangeSetters} :
        /\ s.key \in ParamKeyName /\ s.key # "InstallAttitude" /\ s.addresses = {}
        /\ s.key \in DOMAIN FieldOf => s.length = FieldSize[FieldOf[s.key]]
  BY DEF RangeSetters, Byte, Struct,
         Setter, FieldOf, Joined, ConfigFields, StatusFields, FieldSize, ParamKeyName
<1>2. \A s \in {RangeSetters[name] : name \in DOMAIN RangeSetters} :
        \A arg \in s.args : arg = [i \in DOMAIN arg |-> arg[i]]
  BY DEF RangeSetters, Byte, Struct, Setter
<1> QED BY <1>1, <1>2 DEF SetterFits, Args

LEMMA LaterSettersFit == \A name \in DOMAIN LaterSetters : SetterFits(LaterSetters[name])
<1>1. \A s \in {LaterSetters[name] : name \in DOMAIN LaterSetters} :
        /\ s.key \in ParamKeyName /\ s.key # "InstallAttitude"
        /\ s.key \in DOMAIN FieldOf => s.length = FieldSize[FieldOf[s.key]]
  BY DEF LaterSetters, Byte,
         Setter, FieldOf, Joined, ConfigFields, StatusFields, FieldSize, ParamKeyName
<1>2. \A s \in {LaterSetters[name] : name \in DOMAIN LaterSetters} :
        /\ s.addresses \subseteq {1}
        /\ \A arg \in s.args : /\ arg = [i \in DOMAIN arg |-> arg[i]] /\ DOMAIN arg = {1}
                               /\ s.addresses # {} => arg[1] \in Texts
  BY DEF LaterSetters, Byte, Setter
<1> QED BY <1>1, <1>2, TextsAssumption DEF SetterFits, Args

LEMMA AllSettersFit == \A name \in DOMAIN Setters : SetterFits(Setters[name])
<1> DEFINE Fit(f) == \A name \in DOMAIN f : SetterFits(f[name])
<1>1. ASSUME NEW f, NEW g, Fit(f), Fit(g) PROVE Fit(Joined(f, g))
  BY <1>1, JoinedLooksUp
<1> HIDE DEF Fit
<1>2. /\ Fit(ModeSetters) /\ Fit(AddressSetters) /\ Fit(GeometrySetters) /\ Fit(DetectSetters)
      /\ Fit(HeatSetters) /\ Fit(LaterSetters) /\ Fit(RangeSetters)
  BY ModeSettersFit, AddressSettersFit, GeometrySettersFit, DetectSettersFit, HeatSettersFit,
     LaterSettersFit, RangeSettersFit DEF Fit
<1>3. Fit(Joined(Joined(ModeSetters, AddressSetters), Joined(GeometrySetters, DetectSetters)))
  BY <1>1, <1>2
<1>4. Fit(Joined(HeatSetters, Joined(LaterSetters, RangeSetters)))
  BY <1>1, <1>2
<1>5. Fit(Setters)
  BY <1>1, <1>3, <1>4 DEF Setters
<1> QED BY <1>5 DEF Fit

(* What a setter sends is sound.                                            *)
LEMMA SetIsSound ==
  ASSUME NEW name \in DOMAIN Setters, NEW arg \in Setters[name].args,
         \A i \in Setters[name].addresses : IpIsGood(arg[i])
  PROVE  Sound(SetLivoxLidar(name, arg))
<1>1. CASE name = "SetLivoxLidarPclDataType" /\ arg = <<0>>
  <2>1. SetLivoxLidar(name, arg) = KeyValue("ImuDataEn", 1, <<1>>, "app", <<1>>)
    <3>1. Setters.EnableLivoxLidarImuData.key = "ImuDataEn"
      <4> DEFINE imu == "EnableLivoxLidarImuData"
      <4>1. /\ imu \notin DOMAIN ModeSetters /\ imu \notin DOMAIN AddressSetters
            /\ imu \notin DOMAIN GeometrySetters /\ imu \notin DOMAIN DetectSetters
            /\ imu \in DOMAIN HeatSetters
        BY DEF ModeSetters, AddressSetters, GeometrySetters, DetectSetters, HeatSetters
      <4>2. HeatSetters[imu].key = "ImuDataEn"
        BY DEF HeatSetters, Byte, Setter
      <4>3. Setters[imu] = HeatSetters[imu]
        BY <4>1 DEF Setters, Joined
      <4> QED BY <4>2, <4>3
    <3> QED BY <1>1, <3>1 DEF SetLivoxLidar
  <2>2. "ImuDataEn" \in ParamKeyName /\ FieldSize[FieldOf["ImuDataEn"]] = 1
    BY DEF ParamKeyName, FieldOf, Joined, ConfigFields, FieldSize
  <2> QED BY <2>1, <2>2 DEF Sound, KeyValue, Printed
<1>2. CASE ~(name = "SetLivoxLidarPclDataType" /\ arg = <<0>>)
  <2> DEFINE s == Setters[name]
             value == [i \in DOMAIN arg |-> IF i \in s.addresses THEN IpToU8(arg[i]) ELSE arg[i]]
             kv == SetLivoxLidar(name, arg)
  <2>1. kv = KeyValue(s.key, s.length, value, "app", arg)
    BY <1>2 DEF SetLivoxLidar
  <2>2. SetterFits(s)
    BY AllSettersFit
  <2>3. s.addresses \subseteq Addresses(s.key)
    BY DEF Addresses
  <2>4. ASSUME Faithful(kv) PROVE Printed(s.key, value) = arg
    <3>1. /\ s.key = "InstallAttitude" => arg[1] \in 0..(UintModulus - 1)
          /\ \A i \in Addresses(s.key) : 256 \notin Range(arg[i])
      BY <2>1, <2>4 DEF Faithful, KeyValue
    <3>2. \A i \in s.addresses : IpToU8(arg[i]) = arg[i]
      BY <2>2, <2>3, <3>1, OctetsKept DEF SetterFits, Args
    <3>3. value = arg
      BY <2>2, <3>2 DEF SetterFits, Args
    <3>4. CASE s.key = "InstallAttitude"
      <4>1. DOMAIN arg = {1} /\ arg[1] \in 0..(UintModulus - 1) /\ arg = [i \in DOMAIN arg |-> arg[i]]
        BY <2>2, <3>1, <3>4 DEF SetterFits, Args
      <4>2. arg[1] % UintModulus = arg[1]
        <5>1. ASSUME NEW x \in 0..(UintModulus - 1) PROVE x % UintModulus = x
          BY <5>1, BoundsAssumption
        <5> QED BY <4>1, <5>1
      <4>3. [i \in DOMAIN arg |-> arg[i] % UintModulus] = arg
        BY <4>1, <4>2
      <4> QED BY <3>3, <3>4, <4>3 DEF Printed
    <3>5. CASE s.key # "InstallAttitude"
      BY <3>3, <3>5 DEF Printed
    <3> QED BY <3>4, <3>5
  <2> HIDE DEF value, s, kv
  <2>5. kv.key = s.key /\ kv.length = s.length /\ kv.value = value /\ kv.arg = arg
    BY <2>1 DEF KeyValue
  <2>6. Sound(kv)
    BY <2>2, <2>4, <2>5 DEF Sound, SetterFits
  <2> QED BY <2>6 DEF kv
<1> QED BY <1>1, <1>2

(* So is a flow of the configuration.                                       *)
LEMMA FlowIsSound ==
  ASSUME NEW key \in {"StateInfoHostIpCfg", "LidarPointDataHostIpCfg", "LidarImuHostIpCfg"},
         NEW address \in Seq(Nat), IpIsGood(address), NEW host_port, NEW lidar_port
  PROVE  Sound(Flow(key, address, host_port, lidar_port))
<1> DEFINE kv == Flow(key, address, host_port, lidar_port)
<1>1. /\ kv.key = key /\ kv.length = 8 /\ kv.by = "sdk"
      /\ kv.value = <<IpToU8(address), host_port, lidar_port>>
      /\ kv.arg = <<address, host_port, lidar_port>>
  BY DEF Flow, KeyValue
<1>2. key \in ParamKeyName /\ FieldSize[FieldOf[key]] = 8 /\ key # "InstallAttitude"
  <2>1. key \in ParamKeyName /\ key # "InstallAttitude"
    BY DEF ParamKeyName
  <2>2. key \in DOMAIN ConfigFields /\ FieldSize[ConfigFields[key]] = 8
    BY DEF ConfigFields, FieldSize
  <2> QED BY <2>1, <2>2 DEF FieldOf, Joined
<1>3. 1 \in Addresses(key)
  <2>1. PICK name \in DOMAIN AddressSetters :
          AddressSetters[name].key = key /\ AddressSetters[name].addresses = {1}
    <3>1. /\ AddressSetters.SetLivoxLidarStateInfoHostIPCfg.key = "StateInfoHostIpCfg"
          /\ AddressSetters.SetLivoxLidarPointDataHostIPCfg.key = "LidarPointDataHostIpCfg"
          /\ AddressSetters.SetLivoxLidarImuDataHostIPCfg.key = "LidarImuHostIpCfg"
      BY DEF AddressSetters, Setter
    <3>2. \A name \in {"SetLivoxLidarStateInfoHostIPCfg", "SetLivoxLidarPointDataHostIPCfg",
                       "SetLivoxLidarImuDataHostIPCfg"} :
             name \in DOMAIN AddressSetters /\ AddressSetters[name].addresses = {1}
      BY DEF AddressSetters, Setter
    <3> QED BY <3>1, <3>2
  <2>2. name \in DOMAIN Setters /\ Setters[name] = AddressSetters[name]
    <3>1. name \notin DOMAIN ModeSetters
      BY DEF ModeSetters, AddressSetters
    <3> QED BY <3>1 DEF Setters, Joined
  <2> QED BY <2>1, <2>2 DEF Addresses
<1> HIDE DEF kv
<1>4. ASSUME Faithful(kv) PROVE Printed(key, kv.value) = kv.arg
  <2>1. 256 \notin Range(kv.arg[1])
    BY <1>1, <1>3, <1>4 DEF Faithful
  <2>2. kv.arg[1] = address
    BY <1>1
  <2>3. IpToU8(address) = address
    BY <2>1, <2>2, OctetsKept
  <2> QED BY <1>1, <1>2, <2>3 DEF Printed
<1>5. Sound(kv)
  BY <1>1, <1>2, <1>4 DEF Sound
<1> QED BY <1>5 DEF kv

-----------------------------------------------------------------------------
(* What travels and what the lidar holds is sound, and so is the report.    *)
MessageSound(m) ==
  /\ m.kind = "set" => \A j \in DOMAIN m.kvs : Sound(m.kvs[j])
  /\ m.kind = "push" => \A key \in DOMAIN m.kvs : Sound(m.kvs[key]) /\ m.kvs[key].key = key

SoundInv ==
  /\ phase = "up" => HostIp(cfg) \in Seq(Nat) /\ IpIsGood(HostIp(cfg))
  /\ \A key \in DOMAIN held : Sound(held[key])
  /\ \A i \in DOMAIN wire : MessageSound(wire[i])
  /\ ReportIsWhatWasSet

LEMMA SoundInit == ParamsInit => SoundInv
<1> SUFFICES ASSUME ParamsInit PROVE SoundInv
  OBVIOUS
<1>1. cfg.dev_type \in DevType
  BY ConfigsAssumption DEF ParamsInit, Config
<1>2. InternalInfoKeys[cfg.dev_type] \subseteq ParamKeyName
  BY <1>1 DEF InternalInfoKeys, ParamKeyName, Status, DevType
<1>3. ASSUME NEW key \in DOMAIN held PROVE Sound(held[key])
  <2> DEFINE port == [StateInfoHostIpCfg |-> "push_msg_port", LidarPointDataHostIpCfg |-> "point_data_port",
                      LidarImuHostIpCfg |-> "imu_data_port", LogHostIpCfg |-> "log_data_port"]
             flow == <<Broadcast, FactoryPort, LidarPort[cfg.dev_type][port[key]]>>
             size == IF key \in DOMAIN FieldOf THEN FieldSize[FieldOf[key]] ELSE 1
  <2>1. /\ key \in ParamKeyName
        /\ held[key] = KeyValue(key, size, IF key \in DOMAIN port THEN flow ELSE <<0>>, "factory",
                                IF key \in DOMAIN port THEN flow ELSE <<0>>)
    BY <1>2 DEF ParamsInit, Factory
  <2>2. key = "InstallAttitude" => key \notin DOMAIN port
    OBVIOUS
  <2>3. key \in DOMAIN FieldOf => size = FieldSize[FieldOf[key]]
    OBVIOUS
  <2> HIDE DEF port, flow, size
  <2>4. PICK v : /\ held[key] = KeyValue(key, size, v, "factory", v)
                 /\ key = "InstallAttitude" => v = <<0>>
    BY <2>1, <2>2
  <2>5. Printed(key, v) = v
    <3>1. [i \in DOMAIN <<0>> |-> <<0>>[i] % UintModulus] = <<0>>
      <4>1. 0 % UintModulus = 0
        BY BoundsAssumption
      <4> QED BY <4>1
    <3> QED BY <2>4, <3>1 DEF Printed
  <2> QED BY <2>1, <2>3, <2>4, <2>5 DEF Sound, KeyValue
<1>4. wire = <<>> /\ DOMAIN wire = {} /\ report.of = <<>> /\ DOMAIN <<>> = {} /\ phase = "off"
  BY DEF ParamsInit
<1> QED BY <1>3, <1>4 DEF SoundInv, ReportIsWhatWasSet

LEMMA SoundAppended ==
  ASSUME Listing(wire), \A i \in DOMAIN wire : MessageSound(wire[i]),
         NEW m, wire' = Append(wire, m), MessageSound(m)
  PROVE  \A i \in DOMAIN wire' : MessageSound(wire'[i])
BY AppendedOne

LEMMA SoundLost ==
  ASSUME Listing(wire), \A i \in DOMAIN wire : MessageSound(wire[i]),
         NEW i \in DOMAIN wire, wire' = RemoveAt(wire, i)
  PROVE  \A k \in DOMAIN wire' : MessageSound(wire'[k])
BY RemovedOne

(* Where a step leaves the rest alone. *)
LEMMA SoundRest ==
  ASSUME SoundInv, UNCHANGED <<cfg, phase>>, \A i \in DOMAIN wire' : MessageSound(wire'[i])
  PROVE  /\ UNCHANGED <<held, report>> => SoundInv'
         /\ UNCHANGED held /\ ReportIsWhatWasSet' => SoundInv'
         /\ UNCHANGED report /\ (\A key \in DOMAIN held' : Sound(held'[key])) => SoundInv'
<1>1. UNCHANGED report => ReportIsWhatWasSet'
  BY DEF SoundInv, ReportIsWhatWasSet
<1> QED BY <1>1 DEF SoundInv

(* Of a usable file, both addresses are texts of four numbers.             *)
LEMMA HostIsText ==
  ASSUME NEW c \in Configs, c.is_view \/ ParseHostNetInfo(c)
  PROVE  HostIp(c) \in Seq(Nat) /\ MulticastIp(c) \in Seq(Nat)
BY ConfigsAssumption DEF Config, ParseHostNetInfo, HostIp, MulticastIp

LEMMA SoundSdkInit == ASSUME ParamsInv, SoundInv, LivoxLidarSdkInit PROVE SoundInv'
<1>1. UNCHANGED <<cfg, held, wire, report>> /\ cfg \in Configs
  BY DEF LivoxLidarSdkInit, ParamsInv, SocketInv
<1>2. phase' = "up" => HostIp(cfg) \in Seq(Nat) /\ IpIsGood(HostIp(cfg))
  <2>1. ASSUME phase' = "up"
        PROVE  (cfg.is_view \/ ParseHostNetInfo(cfg)) /\ IpIsGood(HostIp(cfg))
    BY <2>1 DEF LivoxLidarSdkInit
  <2> QED BY <1>1, <2>1, HostIsText
<1>3. ReportIsWhatWasSet'
  BY <1>1 DEF SoundInv, ReportIsWhatWasSet
<1> QED BY <1>1, <1>2, <1>3 DEF SoundInv

LEMMA SoundCallSetter == ASSUME ParamsInv, SoundInv, CallSetter PROVE SoundInv'
<1>1. PICK name \in DOMAIN Setters : \E arg \in Setters[name].args :
        /\ \A i \in Setters[name].addresses : IpIsGood(arg[i])
        /\ wire' = Append(wire, Request(1, <<SetLivoxLidar(name, arg)>>, "app"))
  BY DEF CallSetter
<1>2. PICK arg \in Setters[name].args :
        /\ \A i \in Setters[name].addresses : IpIsGood(arg[i])
        /\ wire' = Append(wire, Request(1, <<SetLivoxLidar(name, arg)>>, "app"))
  BY <1>1
<1>3. PICK kv, m : kv = SetLivoxLidar(name, arg) /\ m = Request(1, <<kv>>, "app")
  OBVIOUS
<1>4. Sound(kv)
  BY <1>2, <1>3, SetIsSound
<1>5. m.kind = "set" /\ \A j \in DOMAIN m.kvs : m.kvs[j] = kv
  BY <1>3 DEF Request
<1>6. MessageSound(m)
  BY <1>4, <1>5 DEF MessageSound
<1>7. \A i \in DOMAIN wire' : MessageSound(wire'[i])
  BY <1>2, <1>3, <1>6, SoundAppended DEF SoundInv, ParamsInv, WireInv
<1> QED BY <1>7, SoundRest DEF CallSetter

LEMMA SoundUpdate == ASSUME ParamsInv, SoundInv, UpdateLidarCfg PROVE SoundInv'
<1>1. phase = "up" /\ ~cfg.is_view /\ CanBuild(cfg) /\ cfg \in Configs
  BY DEF UpdateLidarCfg, ParamsInv, SocketInv
<1>2. PICK m : m = BuildUpdate(cfg) /\ wire' = Append(wire, m)
  BY DEF UpdateLidarCfg
<1>3. m.kind = "set" /\ \A j \in DOMAIN m.kvs : FromFile(cfg, m.kvs[j])
  BY <1>1, <1>2, UpdateFlows
<1>4. ToHost(cfg) \in Seq(Nat) /\ IpIsGood(ToHost(cfg))
  <2>1. HostIp(cfg) \in Seq(Nat) /\ MulticastIp(cfg) \in Seq(Nat)
    BY <1>1, ConfigsAssumption DEF SoundInv, MulticastIp, Config
  <2> QED BY <1>1, <2>1 DEF CanBuild, ToHost
<1>5. \A j \in DOMAIN m.kvs : Sound(m.kvs[j])
  <2>1. DOMAIN FlowPort = {"StateInfoHostIpCfg", "LidarPointDataHostIpCfg", "LidarImuHostIpCfg"}
    BY DEF FlowPort
  <2> QED BY <1>3, <1>4, <2>1, FlowIsSound DEF FromFile
<1>6. MessageSound(m)
  BY <1>3, <1>5 DEF MessageSound
<1>7. \A i \in DOMAIN wire' : MessageSound(wire'[i])
  BY <1>2, <1>6, SoundAppended DEF SoundInv, ParamsInv, WireInv
<1> QED BY <1>7, SoundRest DEF UpdateLidarCfg

LEMMA SoundQuery == ASSUME ParamsInv, SoundInv, QueryLivoxLidarInternalInfo PROVE SoundInv'
<1>1. PICK m : /\ m = [kind |-> "info", kvs |-> Listed(InternalInfoKeys[cfg.dev_type])]
               /\ wire' = Append(wire, m)
  BY DEF QueryLivoxLidarInternalInfo
<1>2. MessageSound(m)
  <2>1. m.kind = "info"
    BY <1>1
  <2> QED BY <2>1 DEF MessageSound
<1>3. \A i \in DOMAIN wire' : MessageSound(wire'[i])
  BY <1>1, <1>2, SoundAppended DEF SoundInv, ParamsInv, WireInv
<1> QED BY <1>3, SoundRest DEF QueryLivoxLidarInternalInfo

LEMMA SoundInfo == ASSUME ParamsInv, SoundInv, InfoArrives PROVE SoundInv'
<1>1. PICK i \in DOMAIN wire : wire[i].kind = "info" /\ AddViewLidar(wire[i].kvs, RemoveAt(wire, i))
  BY DEF InfoArrives
<1>2. UNCHANGED <<cfg, phase, held, report>> /\ phase = "up"
  BY <1>1, TravelsWhenUp DEF InfoArrives, ParamsInv
<1>3. PICK rest : rest = RemoveAt(wire, i)
  OBVIOUS
<1>4. Listing(rest) /\ \A k \in DOMAIN rest : MessageSound(rest[k])
  BY <1>3, RemovedOne DEF SoundInv, ParamsInv, WireInv
<1>5. CASE view # <<>>
  BY <1>1, <1>2, <1>3, <1>4, <1>5, SoundRest DEF AddViewLidar
<1>6. CASE view = <<>>
  <2>1. PICK m : m = BuildUpdateViewLidarCfgRequest(cfg, view') /\ wire' = Append(rest, m)
    BY <1>1, <1>3, <1>6 DEF AddViewLidar
  <2>2. PICK point, imu :
          /\ point = Flow("LidarPointDataHostIpCfg", HostIp(cfg),
                          view'.host_point_port, view'.lidar_point_port)
          /\ imu = Flow("LidarImuHostIpCfg", HostIp(cfg),
                        view'.host_imu_data_port, view'.lidar_imu_data_port)
    OBVIOUS
  <2>3. m.kind = "set" /\ m.kvs = <<point, imu>>
    BY <2>1, <2>2 DEF BuildUpdateViewLidarCfgRequest, Request
  <2>4. Sound(point) /\ Sound(imu)
    BY <1>2, <2>2, FlowIsSound DEF SoundInv
  <2>5. MessageSound(m)
    BY <2>3, <2>4 DEF MessageSound
  <2>6. \A k \in DOMAIN wire' : MessageSound(wire'[k])
    BY <1>4, <2>1, <2>5, AppendedOne
  <2> QED BY <1>2, <2>6, SoundRest
<1> QED BY <1>5, <1>6

LEMMA SoundApplies == ASSUME ParamsInv, SoundInv, LidarApplies PROVE SoundInv'
<1>1. PICK i \in DOMAIN wire :
        /\ wire[i].kind = "set" /\ wire' = RemoveAt(wire, i)
        /\ held' = Stored(SubSeq(wire[i].kvs, 1, wire[i].key_num))
  BY DEF LidarApplies
<1>2. PICK m, kvs : m = wire[i] /\ kvs = SubSeq(m.kvs, 1, m.key_num)
  OBVIOUS
<1>3. \A j \in DOMAIN kvs : Sound(kvs[j])
  <2>1. Listing(m.kvs) /\ m.key_num \in 0..Len(m.kvs) /\ \A j \in DOMAIN m.kvs : Sound(m.kvs[j])
    BY <1>1, <1>2 DEF ParamsInv, WireInv, RequestInv, SoundInv, MessageSound
  <2> QED BY <1>2, <2>1, FirstOnes
<1>4. ASSUME NEW key \in DOMAIN held' PROVE Sound(held'[key])
  <2> DEFINE first == CHOOSE j \in DOMAIN kvs : kvs[j].key = key
  <2>1. /\ key \in DOMAIN held \cup {kvs[j].key : j \in DOMAIN kvs}
        /\ held'[key] = IF \E j \in DOMAIN kvs : kvs[j].key = key THEN kvs[first] ELSE held[key]
    BY <1>1, <1>2 DEF Stored
  <2>2. (\E j \in DOMAIN kvs : kvs[j].key = key) => first \in DOMAIN kvs
    OBVIOUS
  <2> HIDE DEF first
  <2> QED BY <1>3, <2>1, <2>2 DEF SoundInv
<1>5. \A k \in DOMAIN wire' : MessageSound(wire'[k])
  BY <1>1, SoundLost DEF SoundInv, ParamsInv, WireInv
<1> QED BY <1>4, <1>5, SoundRest DEF LidarApplies

LEMMA SoundPush == ASSUME ParamsInv, SoundInv, Push PROVE SoundInv'
<1>1. PICK keys : wire' = Append(wire, [kind |-> "push", kvs |-> Listed(keys), port |-> StateFlow[3]])
  BY DEF Push
<1>2. PICK m : m = [kind |-> "push", kvs |-> Listed(keys), port |-> StateFlow[3]]
  OBVIOUS
<1>3. m.kind = "push" /\ m.kvs = Listed(keys)
  BY <1>2
<1>4. \A key \in DOMAIN Listed(keys) : key \in DOMAIN held /\ Listed(keys)[key] = held[key]
  BY DEF Listed, Restrict
<1>5. MessageSound(m)
  BY <1>3, <1>4 DEF MessageSound, SoundInv, ParamsInv, HeldInv
<1>6. \A k \in DOMAIN wire' : MessageSound(wire'[k])
  BY <1>1, <1>2, <1>5, SoundAppended DEF SoundInv, ParamsInv, WireInv
<1> QED BY <1>6, SoundRest DEF Push

LEMMA SoundOnData == ASSUME ParamsInv, SoundInv, OnData PROVE SoundInv'
<1>1. PICK i \in DOMAIN wire :
        /\ wire[i].kind = "push" /\ wire' = RemoveAt(wire, i)
        /\ \/ report' = report
           \/ report' = [told |-> LivoxLidarStateInfoToJson(ParseStateInfo(wire[i].kvs)), of |-> wire[i].kvs]
  BY DEF OnData
<1>2. \A k \in DOMAIN wire' : MessageSound(wire'[k])
  BY <1>1, SoundLost DEF SoundInv, ParamsInv, WireInv
<1>3. CASE report' = report
  BY <1>2, <1>3, SoundRest DEF OnData
<1>4. ASSUME report' = [told |-> LivoxLidarStateInfoToJson(ParseStateInfo(wire[i].kvs)), of |-> wire[i].kvs]
      PROVE  ReportIsWhatWasSet'
  <2>1. PICK kvs, json : kvs = wire[i].kvs /\ json = LivoxLidarStateInfoToJson(ParseStateInfo(kvs))
    OBVIOUS
  <2>2. report'.of = kvs /\ report'.told = json
    BY <1>4, <2>1
  <2>3. ASSUME NEW key \in DOMAIN kvs \cap DOMAIN FieldOf
        PROVE  key \in DOMAIN json /\ (Faithful(kvs[key]) => json[key] = kvs[key].arg)
    <3>1. Sound(kvs[key]) /\ kvs[key].key = key
      BY <1>1, <2>1 DEF SoundInv, MessageSound
    <3>2. kvs[key].length = FieldSize[FieldOf[key]]
      BY <3>1 DEF Sound
    <3>3. key \in DOMAIN json /\ json[key] = Printed(key, kvs[key].value)
      BY <2>1, <3>2, PrintedIsParsed
    <3> QED BY <3>1, <3>3 DEF Sound
  <2> QED BY <2>2, <2>3 DEF ReportIsWhatWasSet
<1> QED BY <1>1, <1>2, <1>3, <1>4, SoundRest DEF OnData

LEMMA SoundLose == ASSUME ParamsInv, SoundInv, Lose PROVE SoundInv'
<1>1. PICK i \in DOMAIN wire : wire' = RemoveAt(wire, i)
  BY DEF Lose
<1>2. \A k \in DOMAIN wire' : MessageSound(wire'[k])
  BY <1>1, SoundLost DEF SoundInv, ParamsInv, WireInv
<1> QED BY <1>2, SoundRest DEF Lose

LEMMA SoundStep == ParamsInv /\ SoundInv /\ [ParamsNext]_paramsVars => SoundInv'
<1> SUFFICES ASSUME ParamsInv, SoundInv, [ParamsNext]_paramsVars PROVE SoundInv'
  OBVIOUS
<1>1. CASE UNCHANGED paramsVars
  BY <1>1, SoundRest DEF paramsVars, SoundInv
<1> QED
  BY <1>1, SoundSdkInit, SoundCallSetter, SoundUpdate, SoundQuery, SoundInfo, SoundApplies, SoundLose,
     SoundPush, SoundOnData DEF ParamsNext

(* Every variable of LidarParams keeps its type.                            *)
THEOREM ParamsTypeCorrect == ParamsSpec => []ParamsTypeOK
<1>1. ParamsInv /\ SoundInv => ParamsTypeOK
  BY DEF ParamsInv, SocketInv, WireInv, HeldInv, CountInv, SoundInv, Sound, ParamsTypeOK
<1> QED BY <1>1, ParamsInvInit, ParamsInvStep, SoundInit, SoundStep, PTL DEF ParamsSpec


(* For any file, any addresses and any arguments of the setters: what the   *)
(* application is told of a lidar is what was set, through request, lidar,  *)
(* parser and printer.                                                      *)
THEOREM ReportIsFaithful == ParamsSpec => []ReportIsWhatWasSet
<1>1. SoundInv => ReportIsWhatWasSet
  BY DEF SoundInv
<1> QED BY <1>1, ParamsInvInit, ParamsInvStep, SoundInit, SoundStep, PTL DEF ParamsSpec
=============================================================================
