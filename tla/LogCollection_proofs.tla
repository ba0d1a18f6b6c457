------------------------- MODULE LogCollection_proofs -------------------------
(***************************************************************************)
(* Proofs about LogCollection, for any files, any number of packets in them *)
(* and any size of the directory.                                          *)
(***************************************************************************)
EXTENDS LogCollection, TLAPS

(* The cmd loop has a packet in hand until it has stored it.               *)
HandInv == h_pc # "idle" => in_hand \in Packet

(* What the writer remembers of its file, if nobody has deleted it.        *)
WriterInv ==
  /\ fp # NoFile => fp.index = file_index
  /\ fp # NoFile /\ fp \in DOMAIN disk =>
       /\ disk[fp] # <<>>
       /\ disk[fp][Len(disk[fp])].trans_index <= trans_index

LogInv == TypeOK /\ HandInv /\ WriterInv /\ WritersKnown /\ ContentsInOrder
-----------------------------------------------------------------------------
(* A packet has a file and a place in it.                                   *)
LEMMA PacketFields ==
  ASSUME NEW p \in Packet
  PROVE  /\ p.file_index \in Files /\ p.trans_index \in Nat
         /\ Flag(p) = "CreateFile" <=> p.trans_index = 0
         /\ Flag(p) \in {"CreateFile", "TransferData", "EndFile"}
BY LogAssumption DEF Packet, Flag

(* The contents of one file.                                                *)
InOrder(s, index) ==
  \A i \in 1..Len(s) :
    /\ s[i].file_index = index
    /\ i > 1 /\ s[i].trans_index # 0 => s[i-1].trans_index <= s[i].trans_index

LEMMA AppendInOrder ==
  ASSUME NEW s \in Seq(Packet), NEW p \in Packet, InOrder(s, p.file_index),
         p.trans_index # 0 => s # <<>> /\ s[Len(s)].trans_index <= p.trans_index
  PROVE  /\ Append(s, p) \in Seq(Packet) /\ Append(s, p) # <<>>
         /\ Append(s, p)[Len(Append(s, p))] = p
         /\ InOrder(Append(s, p), p.file_index)
<1>1. /\ Append(s, p) \in Seq(Packet) /\ Len(Append(s, p)) = Len(s) + 1 /\ Len(s) \in Nat
      /\ Append(s, p)[Len(s) + 1] = p
      /\ \A i \in 1..Len(s) : Append(s, p)[i] = s[i]
  OBVIOUS
<1>2. s # <<>> => Len(s) > 0
  OBVIOUS
<1>3. ASSUME NEW i \in 1..(Len(s) + 1)
      PROVE  /\ Append(s, p)[i].file_index = p.file_index
             /\ i > 1 /\ Append(s, p)[i].trans_index # 0
                  => Append(s, p)[i-1].trans_index <= Append(s, p)[i].trans_index
  <2>1. CASE i \in 1..Len(s)
    <3>1. Append(s, p)[i] = s[i] /\ (i > 1 => Append(s, p)[i-1] = s[i-1])
      BY <1>1, <2>1
    <3> QED BY <2>1, <3>1 DEF InOrder
  <2>2. CASE i = Len(s) + 1
    <3>1. Append(s, p)[i] = p /\ (i > 1 => Append(s, p)[i-1] = s[Len(s)])
      BY <1>1, <2>2
    <3> QED BY <2>2, <3>1
  <2> QED BY <1>1, <2>1, <2>2
<1>4. Append(s, p) # <<>>
  BY <1>1
<1> QED BY <1>1, <1>3, <1>4 DEF InOrder

LEMMA ContentsByFile == ContentsInOrder <=> \A n \in DOMAIN disk : InOrder(disk[n], n.index)
BY Zenon DEF ContentsInOrder, InOrder

-----------------------------------------------------------------------------
(***************************************************************************)
(* The writer.                                                             *)
(***************************************************************************)
FileInv ==
  /\ DOMAIN disk \subseteq Name /\ \A n \in DOMAIN disk : disk[n] \in Seq(Packet)
  /\ fp \in Name \cup {NoFile} /\ trans_index \in Nat /\ file_index \in Files \cup {0}
  /\ WriterInv /\ ContentsInOrder

LEMMA CreateFileKeeps ==
  ASSUME LogInv, NEW p \in Packet, Flag(p) = "CreateFile", CreateFile(p)
  PROVE  FileInv'
<1> DEFINE n == [time |-> clock, index |-> p.file_index]
<1>0. p.trans_index = 0 /\ p.file_index \in Files
  BY PacketFields
<1>1. n \in Name /\ n.index = p.file_index
  BY <1>0, LogAssumption DEF LogInv, TypeOK, Name
<1>2. /\ fp' = n /\ file_index' = p.file_index /\ trans_index' = 0
      /\ disk' = IF n \in DOMAIN disk THEN [disk EXCEPT ![n] = Append(@, p)]
                 ELSE [m \in DOMAIN disk \cup {n} |-> IF m = n THEN <<p>> ELSE disk[m]]
  BY <1>0 DEF CreateFile, Written
<1> HIDE DEF n
<1>3. \A m \in DOMAIN disk : m \in Name /\ disk[m] \in Seq(Packet) /\ InOrder(disk[m], m.index)
  BY ContentsByFile DEF LogInv, TypeOK
<1>4. /\ DOMAIN disk' = DOMAIN disk \cup {n}
      /\ \A m \in DOMAIN disk : m # n => disk'[m] = disk[m]
      /\ disk'[n] \in Seq(Packet) /\ disk'[n] # <<>>
      /\ disk'[n][Len(disk'[n])] = p /\ InOrder(disk'[n], n.index)
  <2>1. CASE n \in DOMAIN disk
    <3>1. disk'[n] = Append(disk[n], p)
      BY <1>2, <2>1
    <3>2. disk[n] \in Seq(Packet) /\ InOrder(disk[n], p.file_index)
      BY <1>1, <1>3, <2>1
    <3>3. /\ Append(disk[n], p) \in Seq(Packet) /\ Append(disk[n], p) # <<>>
          /\ Append(disk[n], p)[Len(Append(disk[n], p))] = p
          /\ InOrder(Append(disk[n], p), p.file_index)
      BY <1>0, <3>2, AppendInOrder
    <3>4. DOMAIN disk' = DOMAIN disk \cup {n} /\ \A m \in DOMAIN disk : m # n => disk'[m] = disk[m]
      BY <1>2, <2>1
    <3> QED BY <1>1, <3>1, <3>3, <3>4
  <2>2. CASE n \notin DOMAIN disk
    <3>1. disk'[n] = <<p>> /\ DOMAIN disk' = DOMAIN disk \cup {n}
          /\ \A m \in DOMAIN disk : disk'[m] = disk[m]
      BY <1>2, <2>2
    <3>2. <<p>> \in Seq(Packet) /\ <<p>> # <<>> /\ Len(<<p>>) = 1 /\ <<p>>[1] = p
      OBVIOUS
    <3>3. InOrder(<<p>>, p.file_index)
      BY <3>2 DEF InOrder
    <3> QED BY <1>1, <3>1, <3>2, <3>3
  <2> QED BY <2>1, <2>2
<1>5. \A m \in DOMAIN disk' : m \in Name /\ disk'[m] \in Seq(Packet) /\ InOrder(disk'[m], m.index)
  BY <1>1, <1>3, <1>4
<1>6. ContentsInOrder'
  BY <1>5 DEF ContentsInOrder, InOrder
<1>7. WriterInv'
  BY <1>0, <1>1, <1>2, <1>4 DEF WriterInv
<1> QED BY <1>0, <1>1, <1>2, <1>5, <1>6, <1>7 DEF FileInv

LEMMA WriteFileKeeps ==
  ASSUME LogInv, NEW p \in Packet, Flag(p) = "TransferData", ~IsStale(p), WriteFile(p)
  PROVE  FileInv'
<1>0. p.trans_index \in Nat /\ trans_index \in Nat /\ trans_index <= p.trans_index
  BY PacketFields DEF IsStale, LogInv, TypeOK
<1>1. FileInv
  BY DEF LogInv, FileInv, TypeOK
<1>2. CASE UNCHANGED <<fp, trans_index, file_index, disk>>
  BY <1>1, <1>2, Zenon DEF FileInv, WriterInv, ContentsInOrder
<1>3. CASE /\ file_index = p.file_index /\ fp' = fp /\ file_index' = file_index
           /\ trans_index' = p.trans_index
           /\ disk' = disk /\ (fp = NoFile \/ fp \notin DOMAIN disk)
  <2>1. ContentsInOrder'
    BY <1>1, <1>3, Zenon DEF FileInv, ContentsInOrder
  <2> QED BY <1>0, <1>1, <1>3, <2>1 DEF FileInv, WriterInv
<1>4. CASE /\ file_index = p.file_index /\ fp' = fp /\ file_index' = file_index
           /\ trans_index' = p.trans_index
           /\ fp # NoFile /\ fp \in DOMAIN disk /\ disk' = [disk EXCEPT ![fp] = Append(@, p)]
  <2>1. /\ fp.index = p.file_index /\ disk[fp] # <<>>
        /\ disk[fp][Len(disk[fp])].trans_index <= trans_index
    BY <1>1, <1>4 DEF FileInv, WriterInv
  <2>2. \A m \in DOMAIN disk : m \in Name /\ disk[m] \in Seq(Packet) /\ InOrder(disk[m], m.index)
    BY <1>1, ContentsByFile DEF FileInv
  <2>3. disk[fp][Len(disk[fp])].trans_index \in Nat
    <3>1. disk[fp] \in Seq(Packet) /\ Len(disk[fp]) \in 1..Len(disk[fp])
      BY <1>4, <2>1, <2>2
    <3>2. disk[fp][Len(disk[fp])] \in Packet
      BY <3>1
    <3> QED BY <3>2, PacketFields
  <2>4. disk[fp][Len(disk[fp])].trans_index <= p.trans_index
    BY <1>0, <2>1, <2>3
  <2>5. disk[fp] \in Seq(Packet) /\ InOrder(disk[fp], p.file_index)
    BY <1>4, <2>1, <2>2
  <2>6. /\ Append(disk[fp], p) \in Seq(Packet) /\ Append(disk[fp], p) # <<>>
        /\ Append(disk[fp], p)[Len(Append(disk[fp], p))] = p
        /\ InOrder(Append(disk[fp], p), p.file_index)
    BY <2>1, <2>4, <2>5, AppendInOrder
  <2>7. /\ DOMAIN disk' = DOMAIN disk /\ disk'[fp] = Append(disk[fp], p)
        /\ \A m \in DOMAIN disk : m # fp => disk'[m] = disk[m]
    BY <1>4
  <2>8. \A m \in DOMAIN disk' : m \in Name /\ disk'[m] \in Seq(Packet) /\ InOrder(disk'[m], m.index)
    BY <2>1, <2>2, <2>6, <2>7
  <2>9. ContentsInOrder'
    BY <2>8 DEF ContentsInOrder, InOrder
  <2>10. WriterInv'
    BY <1>0, <1>4, <2>1, <2>6, <2>7 DEF WriterInv
  <2>11. /\ fp' \in Name \cup {NoFile} /\ trans_index' \in Nat /\ file_index' \in Files \cup {0}
    BY <1>0, <1>1, <1>4 DEF FileInv
  <2> QED BY <2>8, <2>9, <2>10, <2>11 DEF FileInv
<1> QED BY <1>2, <1>3, <1>4 DEF WriteFile, Written, fileVars

LEMMA StopFileKeeps ==
  ASSUME LogInv, NEW p \in Packet, StopFile(p)
  PROVE  FileInv'
<1>0. FileInv /\ p.trans_index \in Nat
  BY PacketFields DEF LogInv, FileInv, TypeOK
<1>1. fp' = NoFile /\ trans_index' = p.trans_index /\ UNCHANGED <<file_index, disk>>
  BY DEF StopFile
<1>2. ContentsInOrder'
  BY <1>0, <1>1, Zenon DEF FileInv, ContentsInOrder
<1> QED BY <1>0, <1>1, <1>2 DEF FileInv, WriterInv

-----------------------------------------------------------------------------
(***************************************************************************)
(* Each step keeps the invariant.                                          *)
(***************************************************************************)

(* The other types, apart for what is a truth value and what is not.        *)
BoolTypes ==
  /\ devices_info_ \in BOOLEAN /\ crashed \in BOOLEAN /\ log_enable_ \in BOOLEAN
  /\ handlers_ \in BOOLEAN /\ is_stop_write_ \in BOOLEAN
  /\ log_cycle_delete_enable_ \in BOOLEAN /\ cond_ \in BOOLEAN
DataTypes ==
  /\ clock \in 1..MaxTime /\ deliveries \in 0..MaxDeliveries
  /\ h_pc \in {"idle", "store", "notify"} /\ in_hand \in Packet \cup {NoPacket}
  /\ queue_ \in Seq(Packet) /\ queue \in Seq(Packet)
  /\ w_pc \in {"none", "write", "done"}
  /\ c_pc \in {"test", "wait", "clean", "done"} /\ files \subseteq Name
  /\ d_pc \in {"idle", "notify", "join", "handlers", "clear", "disable", "over"}

LEMMA LogInvSplit ==
  LogInv <=> BoolTypes /\ DataTypes /\ HandInv /\ WritersKnown /\ FileInv
BY Zenon DEF LogInv, TypeOK, BoolTypes, DataTypes, FileInv

LEMMA BoolStep ==
  ASSUME LogInv, [Next]_vars
  PROVE  BoolTypes'
<1> USE DEF handlerVars, queueVars, fileVars, cleanVars
<1>0. BoolTypes /\ DataTypes /\ HandInv /\ WritersKnown /\ FileInv
  BY LogInvSplit
<1>1. CASE UNCHANGED vars
  BY <1>0, <1>1, Zenon DEF vars, BoolTypes
<1>2. CASE Tick
  BY <1>0, <1>2, Zenon DEF Tick, BoolTypes
<1>3. CASE Handler
  BY <1>0, <1>3, Zenon DEF Handler, BoolTypes
<1>4. CASE OnLoggerCreate
  BY <1>0, <1>4, Zenon DEF OnLoggerCreate, Return, BoolTypes
<1>5. CASE OnLoggerTransfer
  BY <1>0, <1>5, Zenon DEF OnLoggerTransfer, Return, BoolTypes
<1>6. CASE OnLoggerStopped
  BY <1>0, <1>6, Zenon DEF OnLoggerStopped, Return, BoolTypes
<1>7. CASE NotifyCleaner
  BY <1>0, <1>7, Zenon DEF NotifyCleaner, Return, BoolTypes
<1>8. CASE SaveToFile
  BY <1>0, <1>8, Zenon DEF SaveToFile, BoolTypes
<1>9. CASE Write
  BY <1>0, <1>9, Zenon DEF Write, BoolTypes
<1>10. CASE CleanerTest
  BY <1>0, <1>10, Zenon DEF CleanerTest, BoolTypes
<1>11. CASE CleanerWakes
  BY <1>0, <1>11, Zenon DEF CleanerWakes, StartCleaning, BoolTypes
<1>12. CASE CleanerEnd
  BY <1>0, <1>12, Zenon DEF CleanerEnd, BoolTypes
<1>13. CASE CleanerTimesOut
  BY <1>0, <1>13, Zenon DEF CleanerTimesOut, StartCleaning, BoolTypes
<1>14. CASE DestoryBegin
  BY <1>0, <1>14, Zenon DEF DestoryBegin, BoolTypes
<1>15. CASE DestoryNotify
  BY <1>0, <1>15, Zenon DEF DestoryNotify, BoolTypes
<1>16. CASE DestoryJoin
  BY <1>0, <1>16, Zenon DEF DestoryJoin, BoolTypes
<1>17. CASE StopWriter
  BY <1>0, <1>17, Zenon DEF StopWriter, BoolTypes
<1>18. CASE DestoryHandlers
  BY <1>0, <1>18, Zenon DEF DestoryHandlers, BoolTypes
<1>19. CASE DestoryClear
  BY <1>0, <1>19, Zenon DEF DestoryClear, BoolTypes
<1>20. CASE DestoryDisable
  BY <1>0, <1>20, Zenon DEF DestoryDisable, BoolTypes
<1>21. ASSUME NEW n \in files, RemoveOldest(n) PROVE BoolTypes'
  BY <1>0, <1>21, Zenon DEF RemoveOldest, BoolTypes
<1> QED BY <1>1, <1>2, <1>3, <1>4, <1>5, <1>6, <1>7, <1>8, <1>9, <1>10, <1>11, <1>12, <1>13,
   <1>14, <1>15, <1>16, <1>17, <1>18, <1>19, <1>20, <1>21 DEF Next, Serve, Writer, Cleaner, Destory

LEMMA DataStep ==
  ASSUME LogInv, [Next]_vars
  PROVE  DataTypes'
<1> USE DEF handlerVars, queueVars, fileVars, cleanVars
<1>0. BoolTypes /\ DataTypes /\ HandInv /\ WritersKnown /\ FileInv
  BY LogInvSplit
<1>1. CASE UNCHANGED vars
  BY <1>0, <1>1, LogAssumption DEF vars, DataTypes, HandInv
<1>2. CASE Tick
  BY <1>0, <1>2, LogAssumption DEF Tick, DataTypes, HandInv
<1>3. CASE Handler
  BY <1>0, <1>3, LogAssumption DEF Handler, DataTypes, HandInv
<1>4. CASE OnLoggerCreate
  <2>1. in_hand \in Packet
    BY <1>0, <1>4 DEF OnLoggerCreate, HandInv
  <2>2. queue_' \in Seq(Packet)
    BY <1>0, <1>4, <2>1 DEF OnLoggerCreate, DataTypes
  <2>3. h_pc' \in {"idle", "store", "notify"} /\ in_hand' \in Packet \cup {NoPacket}
    BY <1>0, <1>4, <2>1 DEF OnLoggerCreate, Return, DataTypes
  <2> QED BY <1>0, <1>4, <2>2, <2>3 DEF OnLoggerCreate, DataTypes
<1>5. CASE OnLoggerTransfer
  <2>1. in_hand \in Packet
    BY <1>0, <1>5 DEF OnLoggerTransfer, HandInv
  <2>2. queue_' \in Seq(Packet)
    BY <1>0, <1>5, <2>1 DEF OnLoggerTransfer, DataTypes
  <2>3. h_pc' \in {"idle", "store", "notify"} /\ in_hand' \in Packet \cup {NoPacket}
    BY <1>0, <1>5, <2>1 DEF OnLoggerTransfer, Return, DataTypes
  <2> QED BY <1>0, <1>5, <2>2, <2>3 DEF OnLoggerTransfer, DataTypes
<1>6. CASE OnLoggerStopped
  <2>1. in_hand \in Packet
    BY <1>0, <1>6 DEF OnLoggerStopped, HandInv
  <2>2. queue_' \in Seq(Packet)
    BY <1>0, <1>6, <2>1 DEF OnLoggerStopped, DataTypes
  <2>3. h_pc' \in {"idle", "store", "notify"} /\ in_hand' \in Packet \cup {NoPacket}
    BY <1>0, <1>6, <2>1 DEF OnLoggerStopped, Return, DataTypes
  <2> QED BY <1>0, <1>6, <2>2, <2>3 DEF OnLoggerStopped, DataTypes
<1>7. CASE NotifyCleaner
  BY <1>0, <1>7, LogAssumption DEF NotifyCleaner, Return, DataTypes, HandInv
<1>8. CASE SaveToFile
  <2>1. queue' \in Seq(Packet) /\ queue_' \in Seq(Packet) /\ w_pc' \in {"none", "write", "done"}
    BY <1>0, <1>8 DEF SaveToFile, DataTypes
  <2> QED BY <1>0, <1>8, <2>1 DEF SaveToFile, DataTypes
<1>9. CASE Write
  <2>1. queue' \in Seq(Packet)
    BY <1>0, <1>9 DEF Write, DataTypes
  <2> QED BY <1>0, <1>9, <2>1 DEF Write, DataTypes
<1>10. CASE CleanerTest
  BY <1>0, <1>10, LogAssumption DEF CleanerTest, DataTypes, HandInv
<1>11. CASE CleanerWakes
  <2>1. DOMAIN disk \subseteq Name
    BY <1>0 DEF FileInv
  <2>2. files' \subseteq Name /\ c_pc' = "clean"
    BY <1>11, <2>1 DEF CleanerWakes, StartCleaning
  <2> QED BY <1>0, <1>11, <2>2 DEF CleanerWakes, StartCleaning, DataTypes
<1>12. CASE CleanerEnd
  BY <1>0, <1>12, LogAssumption DEF CleanerEnd, DataTypes, HandInv
<1>13. CASE CleanerTimesOut
  <2>1. DOMAIN disk \subseteq Name
    BY <1>0 DEF FileInv
  <2>2. files' \subseteq Name /\ c_pc' = "clean"
    BY <1>13, <2>1 DEF CleanerTimesOut, StartCleaning
  <2> QED BY <1>0, <1>13, <2>2 DEF CleanerTimesOut, StartCleaning, DataTypes
<1>14. CASE DestoryBegin
  BY <1>0, <1>14, LogAssumption DEF DestoryBegin, DataTypes, HandInv
<1>15. CASE DestoryNotify
  BY <1>0, <1>15, LogAssumption DEF DestoryNotify, DataTypes, HandInv
<1>16. CASE DestoryJoin
  BY <1>0, <1>16, LogAssumption DEF DestoryJoin, DataTypes, HandInv
<1>17. CASE StopWriter
  BY <1>0, <1>17, LogAssumption DEF StopWriter, DataTypes, HandInv
<1>18. CASE DestoryHandlers
  BY <1>0, <1>18, LogAssumption DEF DestoryHandlers, DataTypes, HandInv
<1>19. CASE DestoryClear
  <2>1. <<>> \in Seq(Packet)
    OBVIOUS
  <2> QED BY <1>0, <1>19, <2>1 DEF DestoryClear, DataTypes
<1>20. CASE DestoryDisable
  BY <1>0, <1>20, LogAssumption DEF DestoryDisable, DataTypes, HandInv
<1>21. ASSUME NEW n \in files, RemoveOldest(n) PROVE DataTypes'
  BY <1>0, <1>21, LogAssumption DEF RemoveOldest, DataTypes, HandInv
<1> QED BY <1>1, <1>2, <1>3, <1>4, <1>5, <1>6, <1>7, <1>8, <1>9, <1>10, <1>11, <1>12, <1>13,
   <1>14, <1>15, <1>16, <1>17, <1>18, <1>19, <1>20, <1>21 DEF Next, Serve, Writer, Cleaner, Destory

LEMMA HandStep ==
  ASSUME LogInv, [Next]_vars
  PROVE  HandInv'
<1> USE DEF handlerVars, queueVars, fileVars, cleanVars
<1>0. BoolTypes /\ DataTypes /\ HandInv /\ WritersKnown /\ FileInv
  BY LogInvSplit
<1>1. CASE UNCHANGED vars
  BY <1>0, <1>1 DEF vars, HandInv, DataTypes
<1>2. CASE Tick
  BY <1>0, <1>2 DEF Tick, HandInv, DataTypes
<1>3. CASE Handler
  BY <1>0, <1>3 DEF Handler, HandInv, DataTypes
<1>4. CASE OnLoggerCreate
  BY <1>0, <1>4 DEF OnLoggerCreate, Return, HandInv, DataTypes
<1>5. CASE OnLoggerTransfer
  BY <1>0, <1>5 DEF OnLoggerTransfer, Return, HandInv, DataTypes
<1>6. CASE OnLoggerStopped
  BY <1>0, <1>6 DEF OnLoggerStopped, Return, HandInv, DataTypes
<1>7. CASE NotifyCleaner
  BY <1>0, <1>7 DEF NotifyCleaner, Return, HandInv, DataTypes
<1>8. CASE SaveToFile
  BY <1>0, <1>8 DEF SaveToFile, HandInv, DataTypes
<1>9. CASE Write
  BY <1>0, <1>9 DEF Write, HandInv, DataTypes
<1>10. CASE CleanerTest
  BY <1>0, <1>10 DEF CleanerTest, HandInv, DataTypes
<1>11. CASE CleanerWakes
  BY <1>0, <1>11 DEF CleanerWakes, StartCleaning, HandInv, DataTypes
<1>12. CASE CleanerEnd
  BY <1>0, <1>12 DEF CleanerEnd, HandInv, DataTypes
<1>13. CASE CleanerTimesOut
  BY <1>0, <1>13 DEF CleanerTimesOut, StartCleaning, HandInv, DataTypes
<1>14. CASE DestoryBegin
  BY <1>0, <1>14 DEF DestoryBegin, HandInv, DataTypes
<1>15. CASE DestoryNotify
  BY <1>0, <1>15 DEF DestoryNotify, HandInv, DataTypes
<1>16. CASE DestoryJoin
  BY <1>0, <1>16 DEF DestoryJoin, HandInv, DataTypes
<1>17. CASE StopWriter
  BY <1>0, <1>17 DEF StopWriter, HandInv, DataTypes
<1>18. CASE DestoryHandlers
  BY <1>0, <1>18 DEF DestoryHandlers, HandInv, DataTypes
<1>19. CASE DestoryClear
  BY <1>0, <1>19 DEF DestoryClear, HandInv, DataTypes
<1>20. CASE DestoryDisable
  BY <1>0, <1>20 DEF DestoryDisable, HandInv, DataTypes
<1>21. ASSUME NEW n \in files, RemoveOldest(n) PROVE HandInv'
  BY <1>0, <1>21 DEF RemoveOldest, HandInv, DataTypes
<1> QED BY <1>1, <1>2, <1>3, <1>4, <1>5, <1>6, <1>7, <1>8, <1>9, <1>10, <1>11, <1>12, <1>13,
   <1>14, <1>15, <1>16, <1>17, <1>18, <1>19, <1>20, <1>21 DEF Next, Serve, Writer, Cleaner, Destory

LEMMA WritersStep ==
  ASSUME LogInv, [Next]_vars
  PROVE  WritersKnown'
<1> USE DEF handlerVars, queueVars, fileVars, cleanVars
<1>0. BoolTypes /\ DataTypes /\ HandInv /\ WritersKnown /\ FileInv
  BY LogInvSplit
<1>1. CASE UNCHANGED vars
  BY <1>0, <1>1 DEF vars, WritersKnown, DataTypes
<1>2. CASE Tick
  BY <1>0, <1>2 DEF Tick, WritersKnown, DataTypes
<1>3. CASE Handler
  BY <1>0, <1>3 DEF Handler, WritersKnown, DataTypes
<1>4. CASE OnLoggerCreate
  BY <1>0, <1>4 DEF OnLoggerCreate, Return, WritersKnown, DataTypes
<1>5. CASE OnLoggerTransfer
  BY <1>0, <1>5 DEF OnLoggerTransfer, Return, WritersKnown, DataTypes
<1>6. CASE OnLoggerStopped
  BY <1>0, <1>6 DEF OnLoggerStopped, Return, WritersKnown, DataTypes
<1>7. CASE NotifyCleaner
  BY <1>0, <1>7 DEF NotifyCleaner, Return, WritersKnown, DataTypes
<1>8. CASE SaveToFile
  BY <1>0, <1>8 DEF SaveToFile, WritersKnown, DataTypes
<1>9. CASE Write
  BY <1>0, <1>9 DEF Write, WritersKnown, DataTypes
<1>10. CASE CleanerTest
  BY <1>0, <1>10 DEF CleanerTest, WritersKnown, DataTypes
<1>11. CASE CleanerWakes
  BY <1>0, <1>11 DEF CleanerWakes, StartCleaning, WritersKnown, DataTypes
<1>12. CASE CleanerEnd
  BY <1>0, <1>12 DEF CleanerEnd, WritersKnown, DataTypes
<1>13. CASE CleanerTimesOut
  BY <1>0, <1>13 DEF CleanerTimesOut, StartCleaning, WritersKnown, DataTypes
<1>14. CASE DestoryBegin
  BY <1>0, <1>14 DEF DestoryBegin, WritersKnown, DataTypes
<1>15. CASE DestoryNotify
  BY <1>0, <1>15 DEF DestoryNotify, WritersKnown, DataTypes
<1>16. CASE DestoryJoin
  BY <1>0, <1>16 DEF DestoryJoin, WritersKnown, DataTypes
<1>17. CASE StopWriter
  BY <1>0, <1>17 DEF StopWriter, WritersKnown, DataTypes
<1>18. CASE DestoryHandlers
  BY <1>0, <1>18 DEF DestoryHandlers, WritersKnown, DataTypes
<1>19. CASE DestoryClear
  BY <1>0, <1>19 DEF DestoryClear, WritersKnown, DataTypes
<1>20. CASE DestoryDisable
  BY <1>0, <1>20 DEF DestoryDisable, WritersKnown, DataTypes
<1>21. ASSUME NEW n \in files, RemoveOldest(n) PROVE WritersKnown'
  BY <1>0, <1>21 DEF RemoveOldest, WritersKnown, DataTypes
<1> QED BY <1>1, <1>2, <1>3, <1>4, <1>5, <1>6, <1>7, <1>8, <1>9, <1>10, <1>11, <1>12, <1>13,
   <1>14, <1>15, <1>16, <1>17, <1>18, <1>19, <1>20, <1>21 DEF Next, Serve, Writer, Cleaner, Destory

LEMMA FileStep ==
  ASSUME LogInv, [Next]_vars
  PROVE  FileInv'
<1> USE DEF handlerVars, queueVars, fileVars, cleanVars
<1>0. BoolTypes /\ DataTypes /\ HandInv /\ WritersKnown /\ FileInv
  BY LogInvSplit
<1>1. CASE UNCHANGED vars
  BY <1>0, <1>1 DEF vars, FileInv, WriterInv, ContentsInOrder
<1>2. CASE Tick
  BY <1>0, <1>2 DEF Tick, FileInv, WriterInv, ContentsInOrder
<1>3. CASE Handler
  BY <1>0, <1>3 DEF Handler, FileInv, WriterInv, ContentsInOrder
<1>4. CASE OnLoggerCreate
  BY <1>0, <1>4 DEF OnLoggerCreate, Return, FileInv, WriterInv, ContentsInOrder
<1>5. CASE OnLoggerTransfer
  BY <1>0, <1>5 DEF OnLoggerTransfer, Return, FileInv, WriterInv, ContentsInOrder
<1>6. CASE OnLoggerStopped
  BY <1>0, <1>6 DEF OnLoggerStopped, Return, FileInv, WriterInv, ContentsInOrder
<1>7. CASE NotifyCleaner
  BY <1>0, <1>7 DEF NotifyCleaner, Return, FileInv, WriterInv, ContentsInOrder
<1>8. CASE SaveToFile
  BY <1>0, <1>8 DEF SaveToFile, FileInv, WriterInv, ContentsInOrder
<1>9. CASE Write
  <2> DEFINE p == Head(queue)
  <2>1. p \in Packet
    BY <1>0, <1>9 DEF Write, DataTypes
  <2>2. CASE UNCHANGED <<fp, trans_index, file_index, disk>>
    BY <1>0, <2>2, Zenon DEF FileInv, WriterInv, ContentsInOrder
  <2>3. CASE Flag(p) = "CreateFile" /\ CreateFile(p)
    BY <2>1, <2>3, CreateFileKeeps
  <2>4. CASE Flag(p) = "EndFile" /\ StopFile(p)
    BY <2>1, <2>4, StopFileKeeps
  <2>5. CASE ~IsStale(p) /\ Flag(p) = "TransferData" /\ WriteFile(p)
    BY <2>1, <2>5, WriteFileKeeps
  <2> QED BY <1>9, <2>2, <2>3, <2>4, <2>5 DEF Write
<1>10. CASE CleanerTest
  BY <1>0, <1>10 DEF CleanerTest, FileInv, WriterInv, ContentsInOrder
<1>11. CASE CleanerWakes
  BY <1>0, <1>11 DEF CleanerWakes, StartCleaning, FileInv, WriterInv, ContentsInOrder
<1>12. CASE CleanerEnd
  BY <1>0, <1>12 DEF CleanerEnd, FileInv, WriterInv, ContentsInOrder
<1>13. CASE CleanerTimesOut
  BY <1>0, <1>13 DEF CleanerTimesOut, StartCleaning, FileInv, WriterInv, ContentsInOrder
<1>14. CASE DestoryBegin
  BY <1>0, <1>14 DEF DestoryBegin, FileInv, WriterInv, ContentsInOrder
<1>15. CASE DestoryNotify
  BY <1>0, <1>15 DEF DestoryNotify, FileInv, WriterInv, ContentsInOrder
<1>16. CASE DestoryJoin
  BY <1>0, <1>16 DEF DestoryJoin, FileInv, WriterInv, ContentsInOrder
<1>17. CASE StopWriter
  BY <1>0, <1>17 DEF StopWriter, FileInv, WriterInv, ContentsInOrder
<1>18. CASE DestoryHandlers
  BY <1>0, <1>18 DEF DestoryHandlers, FileInv, WriterInv, ContentsInOrder
<1>19. CASE DestoryClear
  BY <1>0, <1>19 DEF DestoryClear, FileInv, WriterInv, ContentsInOrder
<1>20. CASE DestoryDisable
  BY <1>0, <1>20 DEF DestoryDisable, FileInv, WriterInv, ContentsInOrder
<1>21. ASSUME NEW n \in files, RemoveOldest(n) PROVE FileInv'
  BY <1>0, <1>21 DEF RemoveOldest, FileInv, WriterInv, ContentsInOrder
<1> QED BY <1>1, <1>2, <1>3, <1>4, <1>5, <1>6, <1>7, <1>8, <1>9, <1>10, <1>11, <1>12, <1>13,
   <1>14, <1>15, <1>16, <1>17, <1>18, <1>19, <1>20, <1>21 DEF Next, Serve, Writer, Cleaner, Destory

LEMMA InitLogInv == Init => LogInv
<1> SUFFICES ASSUME Init PROVE LogInv
  OBVIOUS
<1>1. BoolTypes
  BY Zenon DEF Init, BoolTypes
<1>2. DOMAIN disk = {}
  BY DEF Init
<1>3. <<>> \in Seq(Packet)
  OBVIOUS
<1>4. clock \in 1..MaxTime /\ deliveries \in 0..MaxDeliveries
  BY LogAssumption DEF Init
<1>5. DataTypes
  BY <1>3, <1>4 DEF Init, DataTypes
<1>6. FileInv
  BY <1>2 DEF Init, FileInv, WriterInv, ContentsInOrder
<1>7. HandInv /\ WritersKnown
  BY DEF Init, HandInv, WritersKnown
<1> QED BY <1>1, <1>5, <1>6, <1>7, LogInvSplit

LEMMA LogInvHolds == Spec => []LogInv
<1>1. ASSUME LogInv, [Next]_vars PROVE LogInv'
  <2>1. BoolTypes' /\ DataTypes' /\ HandInv' /\ WritersKnown' /\ FileInv'
    BY <1>1, BoolStep, DataStep, HandStep, WritersStep, FileStep
  <2> QED BY <2>1, Zenon DEF LogInv, TypeOK, BoolTypes, DataTypes, FileInv
<1> QED BY <1>1, InitLogInv, PTL DEF Spec

-----------------------------------------------------------------------------
(***************************************************************************)
(* The cleaner and the open file.                                          *)
(***************************************************************************)

(* No name on disk is of a later second than the clock, or than the open    *)
(* file's; what was left out of the cleaner's list has come since.          *)
DiskTimes ==
  /\ \A n \in DOMAIN disk : 1 <= n.time /\ n.time <= clock
  /\ fp # NoFile => \A n \in DOMAIN disk : n.time <= fp.time
  /\ files \subseteq DOMAIN disk
  /\ \A n \in DOMAIN disk \ files, m \in files : m.time <= n.time

(* The size of a directory with one file.                                   *)
LEMMA SumOfOne ==
  ASSUME NEW n, Size(n) \in Nat
  PROVE  MapThenSumSet(Size, {n}) = Size(n)
<1> DEFINE Iter(s, it) == IF s = {} THEN 0
                          ELSE LET x == CHOOSE y \in s : TRUE IN Size(x) + it[s \ {x}]
           F == [s \in SUBSET {n} |-> IF s = {} THEN 0 ELSE Size(n)]
           P(f) == f = [s \in SUBSET {n} |-> Iter(s, f)]
           f0 == CHOOSE f : P(f)
<1>1. MapThenSumSet(Size, {n}) = f0[{n}]
  BY Zenon DEF MapThenSumSet, MapThenFoldSet
<1>2. \A s \in SUBSET {n} : s = {} \/ s = {n}
  OBVIOUS
<1>3. (CHOOSE y \in {n} : TRUE) = n /\ {n} \ {n} = {} /\ {} \in SUBSET {n} /\ {n} \in SUBSET {n}
  OBVIOUS
<1> HIDE DEF F
<1>4. ASSUME NEW f, f[{}] = 0 PROVE Iter({n}, f) = Size(n) /\ Iter({}, f) = 0
  BY <1>3, <1>4
<1>5. F[{}] = 0 /\ F[{n}] = Size(n) /\ F = [s \in SUBSET {n} |-> F[s]]
  BY <1>3 DEF F
<1>6. \A s \in SUBSET {n} : F[s] = Iter(s, F)
  <2>1. Iter({n}, F) = Size(n) /\ Iter({}, F) = 0
    BY <1>4, <1>5
  <2> HIDE DEF Iter
  <2>2. F[{}] = Iter({}, F) /\ F[{n}] = Iter({n}, F)
    BY <1>5, <2>1
  <2> QED BY <1>2, <2>2
<1> HIDE DEF Iter
<1>7. P(F)
  BY <1>5, <1>6
<1>8. P(f0)
  BY <1>7, Zenon
<1> HIDE DEF f0
<1>9. f0[{}] = Iter({}, f0) /\ f0[{n}] = Iter({n}, f0)
  BY <1>3, <1>8
<1>10. f0[{}] = 0
  BY <1>9 DEF Iter
<1>11. f0[{n}] = Size(n)
  BY <1>4, <1>9, <1>10
<1> QED BY <1>1, <1>11

(* Nothing but these four is in DiskTimes.                                  *)
LEMMA TimesUnchanged ==
  ASSUME DiskTimes, UNCHANGED <<clock, fp, files>>, DOMAIN disk' = DOMAIN disk
  PROVE  DiskTimes'
BY Zenon DEF DiskTimes

LEMMA WriteTimes ==
  ASSUME LogInv, DiskTimes, Write
  PROVE  DiskTimes'
<1> DEFINE p == Head(queue)
           n == [time |-> clock, index |-> p.file_index]
<1>0. /\ UNCHANGED <<clock, files>> /\ clock \in Nat /\ clock >= 1
      /\ \A m \in DOMAIN disk : m.time \in Nat
  BY LogAssumption DEF Write, cleanVars, LogInv, TypeOK, Name
<1>1. CASE UNCHANGED <<fileVars, disk>>
  BY <1>0, <1>1, TimesUnchanged DEF fileVars
<1>2. CASE CreateFile(p)
  <2>1. fp' = n /\ DOMAIN disk' = DOMAIN disk \cup {n} /\ n.time = clock
    BY <1>2 DEF CreateFile, Written
  <2> HIDE DEF n
  <2>2. /\ \A m \in DOMAIN disk' : 1 <= m.time /\ m.time <= clock
        /\ files \subseteq DOMAIN disk'
    BY <1>0, <2>1 DEF DiskTimes
  <2>3. ASSUME NEW m \in DOMAIN disk' \ files, NEW k \in files PROVE k.time <= m.time
    <3>1. CASE m \in DOMAIN disk
      BY <2>3, <3>1 DEF DiskTimes
    <3>2. CASE m = n
      BY <2>1, <2>3, <3>2 DEF DiskTimes
    <3> QED BY <2>1, <2>3, <3>1, <3>2
  <2> QED BY <1>0, <2>1, <2>2, <2>3 DEF DiskTimes
<1>3. CASE StopFile(p)
  BY <1>0, <1>3 DEF StopFile, DiskTimes
<1>4. CASE WriteFile(p)
  <2>1. fp' = fp /\ DOMAIN disk' = DOMAIN disk
    BY <1>4 DEF WriteFile, Written, fileVars
  <2> QED BY <1>0, <2>1, TimesUnchanged
<1> QED BY <1>1, <1>2, <1>3, <1>4 DEF Write

LEMMA TimesStep ==
  ASSUME LogInv, DiskTimes, [Next]_vars
  PROVE  DiskTimes'
<1> USE DEF handlerVars, queueVars, fileVars, cleanVars
<1>1. CASE UNCHANGED <<clock, fp, files, disk>>
  BY <1>1, TimesUnchanged
<1>2. CASE Tick
  <2>1. clock' = clock + 1 /\ clock \in Nat /\ \A n \in DOMAIN disk : n.time \in Nat
    BY <1>2, LogAssumption DEF Tick, LogInv, TypeOK, Name
  <2> QED BY <1>2, <2>1 DEF Tick, DiskTimes
<1>3. CASE Write
  BY <1>3, WriteTimes
<1>4. CASE StartCleaning
  BY <1>4 DEF StartCleaning, DiskTimes
<1>5. ASSUME NEW n \in files, RemoveOldest(n) PROVE DiskTimes'
  <2>1. /\ DOMAIN disk' = DOMAIN disk \ {n} /\ files' = files \ {n} /\ UNCHANGED <<clock, fp>>
    BY <1>5 DEF RemoveOldest
  <2> QED BY <2>1 DEF DiskTimes
<1>6. CASE CleanerEnd
  BY <1>6 DEF CleanerEnd, DiskTimes
<1>7. CASE DestoryHandlers \/ DestoryClear
  <2>1. UNCHANGED <<clock, files, disk>> /\ fp' = NoFile
    BY <1>7 DEF DestoryHandlers, DestoryClear
  <2> QED BY <2>1 DEF DiskTimes
<1>8. CASE Handler \/ Serve
  <2>1. UNCHANGED <<clock, fp, files, disk>>
    BY <1>8 DEF Handler, Serve, OnLoggerCreate, OnLoggerTransfer, OnLoggerStopped, NotifyCleaner
  <2> QED BY <1>1, <2>1
<1>9. CASE SaveToFile \/ CleanerTest \/ DestoryBegin \/ DestoryNotify \/ DestoryJoin
           \/ StopWriter \/ DestoryDisable
  <2>1. UNCHANGED <<clock, fp, files, disk>>
    BY <1>9 DEF SaveToFile, CleanerTest, DestoryBegin, DestoryNotify, DestoryJoin, StopWriter,
                DestoryDisable
  <2> QED BY <1>1, <2>1
<1>10. CASE UNCHANGED vars
  BY <1>1, <1>10 DEF vars
<1> QED BY <1>2, <1>3, <1>4, <1>5, <1>6, <1>7, <1>8, <1>9, <1>10
        DEF Next, Writer, Cleaner, Destory, CleanerWakes, CleanerTimesOut

(* Only the cleaner takes a file away, the one it has chosen.               *)
LEMMA OnlyCleanerRemoves ==
  ASSUME LogInv, [Next]_vars, RemovesOpenFile
  PROVE  fp \in files /\ RemoveOldest(fp)
<1> USE DEF handlerVars, queueVars, fileVars, cleanVars
<1>1. fp \in DOMAIN disk /\ fp \notin DOMAIN disk'
  BY DEF RemovesOpenFile
<1>2. CASE UNCHANGED disk
  BY <1>1, <1>2
<1>3. CASE Write
  <2>1. DOMAIN disk \subseteq DOMAIN disk'
    BY <1>3 DEF Write, CreateFile, WriteFile, StopFile, Written
  <2> QED BY <1>1, <2>1
<1>4. ASSUME NEW n \in files, RemoveOldest(n) PROVE n = fp
  BY <1>1, <1>4 DEF RemoveOldest
<1>5. CASE Tick \/ Handler \/ Serve \/ SaveToFile
  <2>1. UNCHANGED disk
    BY <1>5 DEF Tick, Handler, Serve, SaveToFile, OnLoggerCreate, OnLoggerTransfer,
                OnLoggerStopped, NotifyCleaner
  <2> QED BY <1>2, <2>1
<1>6. CASE CleanerTest \/ CleanerWakes \/ CleanerTimesOut \/ CleanerEnd \/ DestoryBegin \/ Destory
  <2>1. UNCHANGED disk
    BY <1>6 DEF CleanerTest, CleanerWakes, CleanerTimesOut, StartCleaning, CleanerEnd, DestoryBegin,
                Destory, DestoryNotify, DestoryJoin, StopWriter, DestoryHandlers, DestoryClear,
                DestoryDisable
  <2> QED BY <1>2, <2>1
<1>7. CASE UNCHANGED vars
  BY <1>2, <1>7 DEF vars
<1> QED BY <1>3, <1>4, <1>5, <1>6, <1>7 DEF Next, Writer, Cleaner

-----------------------------------------------------------------------------
(***************************************************************************)
(* The theorems.                                                           *)
(***************************************************************************)

(* Every variable has its type, however many files, packets and seconds.   *)
THEOREM TypeCorrect == Spec => []TypeOK
<1>1. LogInv => TypeOK
  BY DEF LogInv
<1> QED BY <1>1, LogInvHolds, PTL

(* Whatever is lost, repeated or reordered on the way, and whatever the    *)
(* cleaner deletes under the writer, a file holds packets of its own       *)
(* number only, in the order of the lidar (file_manager.cpp, Write).       *)
THEOREM FilesInOrder == Spec => []ContentsInOrder
<1>1. LogInv => ContentsInOrder
  BY DEF LogInv
<1> QED BY <1>1, LogInvHolds, PTL

(* No writer thread runs that Destory does not know of: the handler of a   *)
(* writer is in handlers_ until it has ended.                              *)
THEOREM WritersAreKnown == Spec => []WritersKnown
<1>1. LogInv => WritersKnown
  BY DEF LogInv
<1> QED BY <1>1, LogInvHolds, PTL
(* The cleaner knows nothing of the open file, and still takes it only when *)
(* it is alone and too big by itself, or when a file of the same second     *)
(* could be taken for it (file_manager.cpp, CycleDelete): its list is older *)
(* than every file that came since it was made.                             *)
THEOREM OpenFileIsKept == Spec => OpenFileKept
<1>1. Init => DiskTimes
  BY DEF Init, DiskTimes
<1>2. Spec => []DiskTimes
  <2>1. ASSUME LogInv, DiskTimes, [Next]_vars PROVE DiskTimes'
    BY <2>1, TimesStep
  <2> QED BY <1>1, <2>1, LogInvHolds, PTL DEF Spec
<1>3. ASSUME LogInv, DiskTimes, [Next]_vars, RemovesOpenFile
      PROVE  Len(disk[fp]) > MaxCache \/ TakenForAnother
  <2>1. fp \in files /\ RemoveOldest(fp) /\ fp \in DOMAIN disk
    BY <1>3, OnlyCleanerRemoves DEF RemovesOpenFile
  <2>2. fp # NoFile /\ \A m \in DOMAIN disk : m.time \in Nat
    <3>1. 1 <= fp.time
      BY <1>3, <2>1 DEF DiskTimes
    <3> QED BY <1>3, <3>1 DEF NoFile, LogInv, TypeOK, Name
  <2>3. CASE DOMAIN disk = {fp}
    <3>1. Size(fp) \in Nat
      BY <1>3, <2>1 DEF Size, LogInv, TypeOK
    <3>2. MapThenSumSet(Size, {fp}) = Size(fp)
      BY <3>1, SumOfOne
    <3>3. GetDirTotalSize = Size(fp)
      BY <2>3, <3>2, Zenon DEF GetDirTotalSize
    <3> QED BY <2>1, <3>3 DEF RemoveOldest, Size
  <2>4. CASE \E m \in DOMAIN disk : m # fp
    <3>1. PICK m \in DOMAIN disk : m # fp
      BY <2>4
    <3>2. m.time <= fp.time
      BY <1>3, <2>2, <3>1 DEF DiskTimes
    <3>3. fp.time <= m.time
      <4>1. CASE m \in files
        BY <2>1, <4>1 DEF RemoveOldest, IsOldest
      <4>2. CASE m \notin files
        BY <1>3, <2>1, <3>1, <4>2 DEF DiskTimes
      <4> QED BY <4>1, <4>2
    <3>4. m.time = fp.time
      BY <2>1, <2>2, <3>1, <3>2, <3>3
    <3> QED BY <3>1, <3>4 DEF TakenForAnother
  <2> QED BY <2>1, <2>3, <2>4
<1>4. ASSUME LogInv, DiskTimes, [Next]_vars
      PROVE  [RemovesOpenFile => Len(disk[fp]) > MaxCache \/ TakenForAnother]_vars
  BY <1>3, <1>4
<1> QED BY <1>2, <1>4, LogInvHolds, PTL DEF Spec, OpenFileKept
=============================================================================
