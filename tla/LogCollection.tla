--------------------------- MODULE LogCollection ---------------------------
(***************************************************************************)
(* The log a lidar pushes to the host (logger_handler/): the cmd loop      *)
(* queues the packets, a writer thread per lidar puts them into files, a   *)
(* cleaner thread deletes the oldest files when the directory is too big,  *)
(* and Destory ends it all while the cmd loop is still running.            *)
(*                                                                         *)
(* One lidar, one type of log.  A file of the lidar is a packet that       *)
(* creates it (trans_index 0), packets of data and one that ends it; the   *)
(* network loses, repeats and reorders.  A packet fills one unit of disk.  *)
(***************************************************************************)
EXTENDS Integers, Sequences, FiniteSetsExt


CONSTANTS
  Files,            \* numbers of the files the lidar writes (file_index)
  LastTrans,        \* trans_index of the packet that ends each file
  MaxCache,         \* max_realtimelog_cache_size_
  MaxDeliveries,    \* bound: packets that reach the host
  MaxTime           \* bound: seconds of the clock

ASSUME LogAssumption == /\ Files \subseteq Nat
                        /\ LastTrans \in [Files -> Nat \ {0}] /\ MaxCache \in Nat
                        /\ MaxDeliveries \in Nat /\ MaxTime \in Nat \ {0}

NoFile == [time |-> 0, index |-> 0]
Name   == [time : 0..MaxTime, index : Files]        \* of a file; the serial number is left out
Packet == UNION {[file_index : {f}, trans_index : 0..LastTrans[f]] : f \in Files}
NoPacket == [file_index |-> 0, trans_index |-> 0]

Flag(p) == CASE p.trans_index = 0        -> "CreateFile"
             [] p.trans_index = LastTrans[p.file_index] -> "EndFile"
             [] OTHER                    -> "TransferData"

VARIABLES
  clock, deliveries,
  devices_info_,        \* was the lidar detected before its first packet?
  crashed,              \* a null handler was used
  log_enable_, h_pc, in_hand,
  handlers_,            \* is there a LoggerHandler for the lidar?
  queue_, is_stop_write_, w_pc, queue, fp, trans_index, file_index,
  disk,                 \* the packets in each file
  log_cycle_delete_enable_, cond_, c_pc, files,
  d_pc                  \* the caller of Destory

handlerVars == <<deliveries, crashed, h_pc, in_hand>>
queueVars   == <<handlers_, queue_, is_stop_write_>>
fileVars    == <<fp, trans_index, file_index>>
cleanVars   == <<log_cycle_delete_enable_, cond_, c_pc, files>>
vars == <<clock, devices_info_, log_enable_, handlerVars, queueVars, w_pc, queue, fileVars, disk,
          cleanVars, d_pc>>

TypeOK ==
  /\ clock \in 1..MaxTime /\ deliveries \in 0..MaxDeliveries
  /\ devices_info_ \in BOOLEAN /\ crashed \in BOOLEAN /\ log_enable_ \in BOOLEAN
  /\ h_pc \in {"idle", "store", "notify"} /\ in_hand \in Packet \cup {NoPacket}
  /\ handlers_ \in BOOLEAN /\ queue_ \in Seq(Packet) /\ is_stop_write_ \in BOOLEAN
  /\ w_pc \in {"none", "write", "done"} /\ queue \in Seq(Packet)
  /\ fp \in Name \cup {NoFile} /\ trans_index \in Nat /\ file_index \in Files \cup {0}
  /\ DOMAIN disk \subseteq Name /\ \A n \in DOMAIN disk : disk[n] \in Seq(Packet)
  /\ log_cycle_delete_enable_ \in BOOLEAN /\ cond_ \in BOOLEAN
  /\ c_pc \in {"test", "wait", "clean", "done"} /\ files \subseteq Name
  /\ d_pc \in {"idle", "notify", "join", "handlers", "clear", "disable", "over"}

(* Init has been called with logging enabled; the directory is empty.      *)
Init ==
  /\ clock = 1 /\ deliveries = 0 /\ devices_info_ \in BOOLEAN /\ crashed = FALSE
  /\ log_enable_ = TRUE /\ h_pc = "idle" /\ in_hand = NoPacket
  /\ handlers_ = FALSE /\ queue_ = <<>> /\ is_stop_write_ = FALSE
  /\ w_pc = "none" /\ queue = <<>>
  /\ fp = NoFile /\ trans_index = 0 /\ file_index = 0 /\ disk = <<>>
  /\ log_cycle_delete_enable_ = TRUE /\ cond_ = FALSE /\ c_pc = "test" /\ files = {}
  /\ d_pc = "idle"

Tick ==
  /\ clock < MaxTime /\ clock' = clock + 1
  /\ UNCHANGED <<devices_info_, log_enable_, handlerVars, queueVars, w_pc, queue, fileVars, disk,
                 cleanVars, d_pc>>
-----------------------------------------------------------------------------
(***************************************************************************)
(* The cmd loop.  The packet is acknowledged before it is queued.          *)
(***************************************************************************)
Handler ==
  /\ h_pc = "idle" /\ log_enable_
  /\ deliveries < MaxDeliveries /\ deliveries' = deliveries + 1
  /\ in_hand' \in Packet /\ h_pc' = "store"
  /\ UNCHANGED <<clock, devices_info_, crashed, log_enable_, queueVars, w_pc, queue, fileVars, disk,
                 cleanVars, d_pc>>

Return == h_pc' = "idle" /\ in_hand' = NoPacket

(* No handler is made for a lidar that is not known: the null entry is     *)
(* used at once.                                                           *)
OnLoggerCreate ==
  /\ h_pc = "store" /\ Flag(in_hand) = "CreateFile"
  /\ Return
  /\ handlers_' = TRUE
  /\ w_pc' = IF ~handlers_ /\ devices_info_ THEN "write" ELSE w_pc
  /\ IF handlers_ \/ devices_info_
     THEN queue_' = Append(queue_, in_hand) /\ UNCHANGED crashed
     ELSE crashed' = TRUE /\ UNCHANGED queue_
  /\ UNCHANGED <<clock, deliveries, devices_info_, log_enable_, is_stop_write_, queue, fileVars, disk,
                 cleanVars, d_pc>>

OnLoggerTransfer ==
  /\ h_pc = "store" /\ Flag(in_hand) = "TransferData"
  /\ Return
  /\ queue_' = IF handlers_ THEN Append(queue_, in_hand) ELSE queue_
  /\ UNCHANGED <<clock, devices_info_, log_enable_, deliveries, crashed, handlers_,
                 is_stop_write_, w_pc, queue, fileVars, disk, cleanVars, d_pc>>

OnLoggerStopped ==
  /\ h_pc = "store" /\ Flag(in_hand) = "EndFile"
  /\ IF handlers_ THEN queue_' = Append(queue_, in_hand) /\ h_pc' = "notify" /\ UNCHANGED in_hand
                  ELSE UNCHANGED queue_ /\ Return
  /\ UNCHANGED <<clock, devices_info_, log_enable_, deliveries, crashed, handlers_,
                 is_stop_write_, w_pc, queue, fileVars, disk, cleanVars, d_pc>>

(* mutex_ is held by the cleaner while it cleans.                          *)
MutexFree == c_pc # "clean"

NotifyCleaner ==
  /\ h_pc = "notify" /\ MutexFree
  /\ Return /\ cond_' = TRUE
  /\ UNCHANGED <<clock, devices_info_, log_enable_, deliveries, crashed, queueVars, w_pc, queue,
                 fileVars, disk, log_cycle_delete_enable_, c_pc, files, d_pc>>
-----------------------------------------------------------------------------
(***************************************************************************)
(* The writer.                                                             *)
(***************************************************************************)
SaveToFile ==
  /\ w_pc = "write" /\ queue = <<>>
  /\ IF is_stop_write_
     THEN w_pc' = "done" /\ UNCHANGED <<queue_, queue>>
     ELSE queue' = queue_ /\ queue_' = <<>> /\ UNCHANGED w_pc
  /\ UNCHANGED <<clock, devices_info_, log_enable_, handlerVars, handlers_, is_stop_write_, fileVars,
                 disk, cleanVars, d_pc>>

(* What is written to a file the cleaner has deleted is gone.              *)
Written(n, p) == IF n \in DOMAIN disk THEN [disk EXCEPT ![n] = Append(@, p)] ELSE disk

(* "ab": a file of that name is continued.                                 *)
CreateFile(p) ==
  LET n == [time |-> clock, index |-> p.file_index]
  IN  /\ fp' = n
      /\ disk' = IF n \in DOMAIN disk THEN Written(n, p)
                 ELSE [m \in DOMAIN disk \cup {n} |-> IF m = n THEN <<p>> ELSE disk[m]]
      /\ file_index' = p.file_index /\ trans_index' = p.trans_index

WriteFile(p) ==
  IF file_index # p.file_index THEN UNCHANGED <<fileVars, disk>>
  ELSE /\ disk' = IF fp # NoFile THEN Written(fp, p) ELSE disk
       /\ trans_index' = p.trans_index /\ UNCHANGED <<fp, file_index>>

StopFile(p) ==
  /\ fp' = NoFile
  /\ trans_index' = p.trans_index /\ UNCHANGED <<file_index, disk>>

(* Mutant: earlier packets are not dropped. *)
IsStale_Never(p) == FALSE

(* An earlier packet of the file.                                          *)
IsStale(p) == p.trans_index < trans_index /\ Flag(p) # "CreateFile"

Write ==
  /\ w_pc = "write" /\ queue # <<>>
  /\ LET p == Head(queue)
     IN  \/ IsStale(p) /\ UNCHANGED <<fileVars, disk>>
         \/ ~IsStale(p) /\ Flag(p) = "CreateFile" /\ CreateFile(p)
         \/ ~IsStale(p) /\ Flag(p) = "EndFile" /\ StopFile(p)
         \/ ~IsStale(p) /\ Flag(p) = "TransferData" /\ WriteFile(p)
  /\ queue' = Tail(queue)
  /\ UNCHANGED <<clock, devices_info_, log_enable_, handlerVars, queueVars, w_pc, cleanVars, d_pc>>

-----------------------------------------------------------------------------
(***************************************************************************)
(* The cleaner, CycleDelete.                                               *)
(***************************************************************************)
Size(n) == Len(disk[n])
GetDirTotalSize == MapThenSumSet(Size, DOMAIN disk)

CleanerTest ==
  /\ c_pc = "test"
  /\ c_pc' = IF log_cycle_delete_enable_ THEN "wait" ELSE "done"
  /\ UNCHANGED <<clock, devices_info_, log_enable_, handlerVars, queueVars, w_pc, queue, fileVars, disk,
                 log_cycle_delete_enable_, cond_, files, d_pc>>

StartCleaning ==
  /\ c_pc' = "clean"
  /\ files' = IF GetDirTotalSize > MaxCache THEN DOMAIN disk ELSE {}
  /\ UNCHANGED <<clock, devices_info_, log_enable_, handlerVars, queueVars, w_pc, queue, fileVars, disk,
                 log_cycle_delete_enable_, cond_, d_pc>>

CleanerWakes    == c_pc = "wait" /\ cond_ /\ StartCleaning
CleanerTimesOut == c_pc = "wait" /\ ~cond_ /\ StartCleaning

(* Mutant: the list is taken from the other end. *)
IsOldest_Newest(n) == \A m \in files : m.time <= n.time

(* The first of the list: names of the same second are in no order.        *)
IsOldest(n) == \A m \in files : n.time <= m.time

RemoveOldest(n) ==
  /\ c_pc = "clean" /\ n \in files /\ IsOldest(n)
  /\ GetDirTotalSize > MaxCache
  /\ files' = files \ {n}
  /\ disk' = [m \in DOMAIN disk \ {n} |-> disk[m]]
  /\ UNCHANGED <<clock, devices_info_, log_enable_, handlerVars, queueVars, w_pc, queue, fileVars,
                 log_cycle_delete_enable_, cond_, c_pc, d_pc>>

CleanerEnd ==
  /\ c_pc = "clean" /\ (files = {} \/ GetDirTotalSize <= MaxCache)
  /\ files' = {} /\ cond_' = FALSE /\ c_pc' = "test"
  /\ UNCHANGED <<clock, devices_info_, log_enable_, handlerVars, queueVars, w_pc, queue, fileVars, disk,
                 log_cycle_delete_enable_, d_pc>>
-----------------------------------------------------------------------------
(***************************************************************************)
(* Destory.                                                                *)
(***************************************************************************)
DestoryBegin ==
  /\ d_pc = "idle" /\ d_pc' = "notify"
  /\ log_cycle_delete_enable_' = FALSE
  /\ UNCHANGED <<clock, devices_info_, log_enable_, handlerVars, queueVars, w_pc, queue, fileVars, disk,
                 cond_, c_pc, files>>

(* Mutant: the cleaner is told to end, and not woken. *)
DestoryNotify_Not ==
  /\ d_pc = "notify" /\ d_pc' = "join"
  /\ UNCHANGED <<clock, devices_info_, log_enable_, handlerVars, queueVars, w_pc, queue, fileVars, disk,
                 cleanVars>>

DestoryNotify ==
  /\ d_pc = "notify" /\ MutexFree /\ d_pc' = "join"
  /\ cond_' = TRUE
  /\ UNCHANGED <<clock, devices_info_, log_enable_, handlerVars, queueVars, w_pc, queue, fileVars, disk,
                 log_cycle_delete_enable_, c_pc, files>>

DestoryJoin ==
  /\ d_pc = "join" /\ c_pc = "done" /\ d_pc' = "handlers"
  /\ UNCHANGED <<clock, devices_info_, log_enable_, handlerVars, queueVars, w_pc, queue, fileVars,
                 disk, cleanVars>>

(* LoggerHandler::Destory, from the loop over the handlers or from the     *)
(* destructor of one that has come since.                                  *)
StopWriter ==
  /\ d_pc \in {"handlers", "clear"} /\ handlers_ /\ ~is_stop_write_
  /\ is_stop_write_' = TRUE
  /\ UNCHANGED <<clock, devices_info_, log_enable_, handlerVars, handlers_, queue_, w_pc, queue,
                 fileVars, disk, cleanVars, d_pc>>

(* The writer ends before its queue does; its file is closed.              *)
DestoryHandlers ==
  /\ d_pc = "handlers" /\ d_pc' = "clear"
  /\ handlers_ => is_stop_write_ /\ w_pc = "done"
  /\ fp' = NoFile
  /\ UNCHANGED <<clock, devices_info_, log_enable_, handlerVars, queueVars, w_pc, queue, trans_index,
                 file_index, disk, cleanVars>>

(* Mutant: the handler is forgotten while its writer is running. *)
DestoryClear_Running ==
  /\ d_pc = "clear" /\ d_pc' = "disable"
  /\ handlers_' = FALSE
  /\ UNCHANGED <<clock, devices_info_, log_enable_, handlerVars, queue_, is_stop_write_, w_pc, queue,
                 fileVars, disk, cleanVars>>

(* The handler, with its queue and its file, is freed.                     *)
DestoryClear ==
  /\ d_pc = "clear" /\ d_pc' = "disable"
  /\ handlers_ => is_stop_write_ /\ w_pc = "done"
  /\ handlers_' = FALSE /\ is_stop_write_' = FALSE /\ w_pc' = "none"
  /\ queue_' = <<>> /\ queue' = <<>>
  /\ fp' = NoFile /\ trans_index' = 0 /\ file_index' = 0
  /\ UNCHANGED <<clock, devices_info_, log_enable_, handlerVars, disk, cleanVars>>

DestoryDisable ==
  /\ d_pc = "disable" /\ d_pc' = "over"
  /\ log_enable_' = FALSE
  /\ UNCHANGED <<clock, devices_info_, handlerVars, queueVars, w_pc, queue, fileVars, disk, cleanVars>>

Serve   == OnLoggerCreate \/ OnLoggerTransfer \/ OnLoggerStopped \/ NotifyCleaner
Writer  == SaveToFile \/ Write
Cleaner == CleanerTest \/ CleanerWakes \/ CleanerEnd \/ \E n \in files : RemoveOldest(n)
Destory == DestoryNotify \/ DestoryJoin \/ StopWriter \/ DestoryHandlers \/ DestoryClear \/ DestoryDisable

Next ==
  /\ ~crashed
  /\ \/ Tick \/ Handler \/ Serve
     \/ Writer \/ Cleaner \/ CleanerTimesOut
     \/ DestoryBegin \/ Destory

Spec == Init /\ [][Next]_vars

(* The threads run; nobody waits for the ten minutes of the cleaner.       *)
FairSpec ==
  /\ Spec
  /\ WF_vars(~crashed /\ Writer) /\ WF_vars(~crashed /\ Cleaner)
  /\ WF_vars(~crashed /\ Destory) /\ WF_vars(~crashed /\ Serve)
-----------------------------------------------------------------------------
(***************************************************************************)
(* Properties.                                                             *)
(***************************************************************************)

(* Whatever the network does to the packets, a file holds only packets of  *)
(* its own number, and they stand in the order of the lidar, which begins  *)
(* anew only where the file was created again within the same second.      *)
ContentsInOrder ==
  \A n \in DOMAIN disk : \A i \in 1..Len(disk[n]) :
    /\ disk[n][i].file_index = n.index
    /\ i > 1 /\ disk[n][i].trans_index # 0 => disk[n][i-1].trans_index <= disk[n][i].trans_index

(* The cleaner, which knows nothing of the open file, takes it only if it  *)
(* is too big by itself or a file of the same second could be taken for it. *)
RemovesOpenFile == fp \in DOMAIN disk /\ fp \notin DOMAIN disk'
TakenForAnother == \E n \in DOMAIN disk : n # fp /\ n.time = fp.time
OpenFileKept == [][RemovesOpenFile => Len(disk[fp]) > MaxCache \/ TakenForAnother]_vars

(* A writer that has not ended is found by Destory, by this one or by the  *)
(* next: handlers_ knows it.                                               *)
WritersKnown == w_pc = "write" => handlers_

(* Destory returns, and without waiting for the ten minutes after which    *)
(* the cleaner looks by itself.                                            *)
DestoryEnds == d_pc = "notify" ~> (d_pc = "over" \/ crashed)
============================================================================
