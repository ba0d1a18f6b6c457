------------------------ MODULE CommandTable_proofs ------------------------
(***************************************************************************)
(* Proofs about CommandTable, for any number of commands, loops and        *)
(* sequence numbers.                                                       *)
(***************************************************************************)
EXTENDS CommandTable, SequenceTheorems, TLAPS

(* A verdict more keeps a history of verdicts well formed. *)
LEMMA AppendVerdict ==
  ASSUME TypeOK, NEW c \in Command, NEW s \in Status
  PROVE  /\ [verdicts EXCEPT ![c] = Append(@, s)] \in [Command -> Seq(Status)]
         /\ Append(verdicts[c], s) \in Seq(Status)
         /\ Len(Append(verdicts[c], s)) = Len(verdicts[c]) + 1
         /\ Append(verdicts[c], s)[Len(verdicts[c]) + 1] = s
         /\ \A i \in DOMAIN verdicts[c] : Append(verdicts[c], s)[i] = verdicts[c][i]
  BY DEF TypeOK

LEMMA SomeAppended ==
  ASSUME NEW S, NEW vs \in Seq(S), NEW s \in S, NEW t
  PROVE  (\E i \in DOMAIN Append(vs, s) : Append(vs, s)[i] = t)
           <=> (\E i \in DOMAIN vs : vs[i] = t) \/ t = s
<1>1. /\ DOMAIN Append(vs, s) = 1..(Len(vs) + 1) /\ DOMAIN vs = 1..Len(vs)
      /\ Append(vs, s)[Len(vs) + 1] = s /\ Len(vs) \in Nat
      /\ \A i \in 1..Len(vs) : Append(vs, s)[i] = vs[i]
  OBVIOUS
<1>2. Len(vs) + 1 \in 1..(Len(vs) + 1) /\ 1..(Len(vs) + 1) = 1..Len(vs) \cup {Len(vs) + 1}
  BY <1>1
<1> QED BY <1>1, <1>2

(* What the callbacks have been called with, after a step.                  *)
LEMMA SaidMore ==
  ASSUME TypeOK, NEW c \in Command, NEW s \in Status,
         verdicts' = [verdicts EXCEPT ![c] = Append(@, s)]
  PROVE  \A d \in Command, t \in Status :
           Said(d, t)' <=> Said(d, t) \/ (d = c /\ t = s)
<1> TAKE d \in Command, t \in Status
<1>1. CASE d # c
  BY <1>1 DEF TypeOK, Said
<1>2. CASE d = c
  <2>1. verdicts'[c] = Append(verdicts[c], s) /\ verdicts[c] \in Seq(Status)
    BY DEF TypeOK
  <2> QED BY <1>2, <2>1, SomeAppended DEF Said
<1> QED BY <1>1, <1>2

LEMMA SaidTimeouts ==
  ASSUME TypeOK, NEW E \in SUBSET Live,
         verdicts' = [c \in Command |-> IF c \in E THEN Append(verdicts[c], "Timeout")
                                                   ELSE verdicts[c]]
  PROVE  \A d \in Command, t \in Status :
           Said(d, t)' <=> Said(d, t) \/ (d \in E /\ t = "Timeout")
<1> TAKE d \in Command, t \in Status
<1>1. CASE d \notin E
  BY <1>1 DEF Said
<1>2. CASE d \in E
  <2>1. verdicts'[d] = Append(verdicts[d], "Timeout") /\ verdicts[d] \in Seq(Status)
    BY <1>2 DEF TypeOK
  <2>2. "Timeout" \in Status
    BY DEF Status
  <2> QED BY <1>2, <2>1, <2>2, SomeAppended DEF Said
<1> QED BY <1>1, <1>2

LEMMA SaidSame ==
  ASSUME UNCHANGED verdicts
  PROVE  \A d, t : Said(d, t)' <=> Said(d, t)
  BY DEF Said

(* The number after the last one is again between 1 and SeqMax. *)
LEMMA NextSeqType == ASSUME last_seq \in Seqs PROVE NextSeq \in Seqs
  BY SeqMaxAssumption DEF NextSeq, Seqs

(* A command that was handed over has a number, and only such commands are   *)
(* on the network.                                                           *)
NumberInv ==
  /\ \A c \in Command : pc[c] # "idle" => seq[c] \in Seqs
  /\ \A c \in requests \cup answers : pc[c] \in {"readd", "done"}
  /\ answers \subseteq answered

LEMMA TypeInit == Init => TypeOK
  BY SeqMaxAssumption DEF Init, TypeOK, Seqs

LEMMA TypeSender ==
  ASSUME TypeOK, NEW c \in Command, Sender(c)
  PROVE  TypeOK'
<1>1. CASE GetSeq(c)
  BY <1>1, NextSeqType DEF TypeOK, GetSeq, Take, network, Seqs
<1>2. CASE AddCommand(c)
  BY <1>2 DEF TypeOK, AddCommand, network
<1>3. CASE SendTo(c)
  BY <1>3 DEF TypeOK, SendTo, AfterSend
<1>4. CASE SendFailed(c)
  BY <1>4, AppendVerdict DEF TypeOK, SendFailed, AfterSend, network, Status
<1> QED BY <1>1, <1>2, <1>3, <1>4 DEF Sender

LEMMA TypeHandler ==
  ASSUME TypeOK, NumberInv, NEW l \in Loop, NEW c \in Command, Handler(l, c)
  PROVE  TypeOK'
<1>1. CASE commands[seq[c]] = NoCommand
  BY <1>1 DEF TypeOK, Handler, Receive, sender
<1>2. CASE commands[seq[c]] # NoCommand
  <2> DEFINE d == commands[seq[c]]
  <2>1. seq[c] \in Seqs
    BY DEF Handler, NumberInv
  <2>2. d \in Command
    BY <1>2, <2>1 DEF TypeOK
  <2>3. /\ verdicts' = [verdicts EXCEPT ![d] = Append(@, "Success")]
        /\ todo' = [todo EXCEPT ![l] = {<<d, "Success">>}]
        /\ commands' = [commands EXCEPT ![seq[c]] = NoCommand]
    BY <1>2 DEF Handler, Found
  <2> HIDE DEF d
  <2>4. verdicts' \in [Command -> Seq(Status)]
    BY <2>2, <2>3, AppendVerdict DEF Status
  <2>5. todo' \in [Loop -> SUBSET (Command \X Status)]
    BY <2>2, <2>3 DEF TypeOK, Status
  <2> QED BY <2>3, <2>4, <2>5 DEF TypeOK, Handler, Receive, sender
<1> QED BY <1>1, <1>2

LEMMA TypeTimer ==
  ASSUME TypeOK, NEW l \in Loop, NEW E \in SUBSET Live, CommandsHandle(l, E)
  PROVE  TypeOK'
<1>1. verdicts' \in [Command -> Seq(Status)]
  BY AppendVerdict DEF TypeOK, CommandsHandle, Expired, Status
<1>2. todo' \in [Loop -> SUBSET (Command \X Status)]
  BY DEF TypeOK, CommandsHandle, Expired, Status, Live
<1> QED
  BY <1>1, <1>2 DEF TypeOK, CommandsHandle, Expired, sender, network

LEMMA TypeStep == TypeOK /\ NumberInv /\ [Next]_vars => TypeOK'
<1> SUFFICES ASSUME TypeOK, NumberInv, [Next]_vars PROVE TypeOK'
  OBVIOUS
<1>1. ASSUME NEW c \in Command, Answer(c) \/ Lose(c) PROVE TypeOK'
  BY <1>1 DEF TypeOK, Answer, Lose, sender
<1>2. ASSUME NEW l \in Loop, Callback(l) PROVE TypeOK'
  BY <1>2 DEF TypeOK, Callback, sender, network
<1>3. CASE UNCHANGED vars
  BY <1>3 DEF TypeOK, vars, sender, network
<1> QED BY <1>1, <1>2, <1>3, TypeSender, TypeHandler, TypeTimer DEF Next, Timer
-----------------------------------------------------------------------------
(* The sequence numbers: no two commands that are in use share one, so an   *)
(* answer can only find the entry of its own command.                       *)

EntryInv ==
  \A s \in Seqs : commands[s] # NoCommand =>
    seq[commands[s]] = s /\ pc[commands[s]] # "idle"

UniqueInv ==
  \A c, d \in Command : InUse(c) /\ InUse(d) /\ seq[c] = seq[d] => c = d

IInv == TypeOK /\ NumberInv /\ EntryInv /\ UniqueInv /\ OwnAnswer

LEMMA InvInit == Init => IInv
  BY TypeInit, CommandAssumption
  DEF Init, IInv, NumberInv, EntryInv, UniqueInv, OwnAnswer, Said, InUse, TypeOK

LEMMA GetSeqInv ==
  ASSUME IInv, NEW c \in Command, GetSeq(c)
  PROVE  NumberInv' /\ EntryInv' /\ UniqueInv' /\ OwnAnswer'
<1> USE DEF IInv
<1>1. NextSeq \in Seqs
  BY NextSeqType DEF TypeOK
<1>2. NumberInv'
  BY <1>1 DEF NumberInv, GetSeq, Take, network, TypeOK
<1>3. EntryInv'
  BY DEF EntryInv, GetSeq, Take, TypeOK
<1>4. \A d \in Command \ {c} : /\ seq'[d] = seq[d] /\ pc'[d] = pc[d]
                               /\ InUse(d)' => InUse(d)
  BY DEF GetSeq, Take, TypeOK, InUse, network
<1>5. seq'[c] = NextSeq
  BY DEF GetSeq, Take, TypeOK
<1>6. UniqueInv'
  BY <1>4, <1>5 DEF UniqueInv, GetSeq
<1>7. OwnAnswer'
  BY DEF OwnAnswer, Said, GetSeq, Take, network
<1> QED BY <1>2, <1>3, <1>6, <1>7

LEMMA AddCommandInv ==
  ASSUME IInv, NEW c \in Command, AddCommand(c)
  PROVE  NumberInv' /\ EntryInv' /\ UniqueInv' /\ OwnAnswer'
<1> USE DEF IInv
<1>1. seq[c] \in Seqs
  BY DEF NumberInv, AddCommand
<1>2. NumberInv'
  BY DEF NumberInv, AddCommand, network, TypeOK
<1>3. EntryInv'
  BY <1>1 DEF EntryInv, AddCommand, TypeOK
<1>4. \A d \in Command : InUse(d)' => InUse(d)
  BY <1>1 DEF InUse, AddCommand, network, TypeOK
<1>5. UniqueInv'
  BY <1>4 DEF UniqueInv, AddCommand
<1>6. OwnAnswer'
  BY DEF OwnAnswer, Said, AddCommand, network
<1> QED BY <1>2, <1>3, <1>5, <1>6

LEMMA SendInv ==
  ASSUME IInv, NEW c \in Command, SendTo(c) \/ SendFailed(c)
  PROVE  NumberInv' /\ EntryInv' /\ UniqueInv' /\ OwnAnswer'
<1> USE DEF IInv
<1>1. NumberInv'
  BY DEF NumberInv, SendTo, SendFailed, AfterSend, network, TypeOK
<1>2. EntryInv'
  BY DEF EntryInv, SendTo, SendFailed, AfterSend, network, TypeOK
<1>3. \A d \in Command : InUse(d)' => InUse(d)
  BY DEF InUse, SendTo, SendFailed, AfterSend, network, TypeOK
<1>4. UniqueInv'
  BY <1>3 DEF UniqueInv, SendTo, SendFailed
<1>5. OwnAnswer'
  <2>1. CASE SendTo(c)
    BY <2>1 DEF OwnAnswer, Said, SendTo
  <2>2. CASE SendFailed(c)
    BY <2>2, SaidMore DEF OwnAnswer, SendFailed, network, Status
  <2> QED BY <2>1, <2>2
<1> QED BY <1>1, <1>2, <1>4, <1>5

LEMMA NetworkInv ==
  ASSUME IInv, NEW c \in Command, Answer(c) \/ Lose(c)
  PROVE  NumberInv' /\ EntryInv' /\ UniqueInv' /\ OwnAnswer'
<1> USE DEF IInv
<1>1. NumberInv'
  BY DEF NumberInv, Answer, Lose, sender, TypeOK
<1>2. EntryInv'
  BY DEF EntryInv, Answer, Lose, sender
<1>3. \A d \in Command : InUse(d)' => InUse(d)
  BY DEF InUse, Answer, Lose, sender
<1>4. UniqueInv'
  BY <1>3 DEF UniqueInv, Answer, Lose, sender
<1>5. OwnAnswer'
  BY DEF OwnAnswer, Said, Answer, Lose
<1> QED BY <1>1, <1>2, <1>4, <1>5

(* An answer finds the entry of its own command or none.                    *)
LEMMA FindsOwn ==
  ASSUME IInv, NEW c \in answers
  PROVE  /\ c \in Command /\ seq[c] \in Seqs
         /\ commands[seq[c]] \in {c, NoCommand}
<1> USE DEF IInv
<1>1. c \in Command /\ seq[c] \in Seqs
  BY DEF TypeOK, NumberInv
<1>2. ASSUME commands[seq[c]] # NoCommand PROVE commands[seq[c]] = c
  BY <1>1, <1>2 DEF TypeOK, EntryInv, UniqueInv, InUse
<1> QED BY <1>1, <1>2

LEMMA HandlerInv ==
  ASSUME IInv, NEW l \in Loop, NEW c \in Command, Handler(l, c)
  PROVE  NumberInv' /\ EntryInv' /\ UniqueInv' /\ OwnAnswer'
<1> USE DEF IInv
<1>0. c \in answers /\ seq[c] \in Seqs /\ commands[seq[c]] \in {c, NoCommand}
  BY FindsOwn DEF Handler
<1>1. NumberInv'
  BY DEF NumberInv, Handler, Receive, sender, TypeOK
<1>2. commands' \in {commands, [commands EXCEPT ![seq[c]] = NoCommand]}
  BY DEF Handler
<1>3. EntryInv'
  BY <1>0, <1>2 DEF EntryInv, Handler, Receive, sender, TypeOK
<1>4. \A d \in Command : InUse(d)' => InUse(d)
  BY <1>0, <1>2, CommandAssumption DEF InUse, Handler, Receive, sender, TypeOK
<1>5. UniqueInv'
  BY <1>4 DEF UniqueInv, Handler, Receive, sender
<1>6. OwnAnswer'
  <2>1. CASE commands[seq[c]] = NoCommand
    BY <2>1 DEF OwnAnswer, Said, Handler, Receive
  <2>2. CASE commands[seq[c]] = c
    <3>1. verdicts' = [verdicts EXCEPT ![c] = Append(@, "Success")]
      BY <2>2, CommandAssumption DEF Handler, Found
    <3>2. c \in answered /\ answered' = answered
      BY <1>0 DEF NumberInv, Handler, Receive
    <3> QED BY <3>1, <3>2, SaidMore DEF OwnAnswer, Status
  <2> QED BY <1>0, <2>1, <2>2
<1> QED BY <1>1, <1>3, <1>5, <1>6

LEMMA TimerInv ==
  ASSUME IInv, NEW l \in Loop, NEW E \in SUBSET Live, CommandsHandle(l, E)
  PROVE  NumberInv' /\ EntryInv' /\ UniqueInv' /\ OwnAnswer'
<1> USE DEF IInv
<1>1. NumberInv'
  BY DEF NumberInv, CommandsHandle, Expired, sender, network
<1>2. EntryInv'
  BY DEF EntryInv, CommandsHandle, Expired, sender
<1>3. \A d \in Command : InUse(d)' => InUse(d)
  BY CommandAssumption DEF InUse, CommandsHandle, Expired, sender, network
<1>4. UniqueInv'
  BY <1>3 DEF UniqueInv, CommandsHandle, Expired, sender
<1>5. OwnAnswer'
  BY SaidTimeouts DEF OwnAnswer, CommandsHandle, Expired, network, Status
<1> QED BY <1>1, <1>2, <1>4, <1>5

LEMMA InvStep == IInv /\ [Next]_vars => IInv'
<1> SUFFICES ASSUME IInv, [Next]_vars PROVE IInv'
  OBVIOUS
<1>1. TypeOK'
  BY TypeStep DEF IInv
<1>2. ASSUME NEW l \in Loop, Callback(l)
      PROVE  NumberInv' /\ EntryInv' /\ UniqueInv' /\ OwnAnswer'
  BY <1>2 DEF IInv, NumberInv, EntryInv, UniqueInv, OwnAnswer, Said, InUse,
              Callback, sender, network
<1>3. CASE UNCHANGED vars
  BY <1>1, <1>3 DEF IInv, NumberInv, EntryInv, UniqueInv, OwnAnswer, Said, InUse,
              vars, sender, network
<1> QED
  BY <1>1, <1>2, <1>3, GetSeqInv, AddCommandInv, SendInv, NetworkInv, HandlerInv,
     TimerInv
  DEF Next, Sender, Timer, IInv

(* Every variable keeps its type.                                           *)
THEOREM TypeCorrect == Spec => []TypeOK
<1>1. Init => IInv
  BY InvInit
<1>2. IInv /\ [Next]_vars => IInv'
  BY InvStep
<1>3. IInv => TypeOK
  BY DEF IInv
<1> QED BY <1>1, <1>2, <1>3, PTL DEF Spec

(* Whichever handler sends and however numbers wrap, a command is reported  *)
(* successful only if the lidar answered it, provided no number is issued   *)
(* again while it is in use.                                                *)
THEOREM AnswersMatch == Spec => []OwnAnswer
<1>1. Init => IInv
  BY InvInit
<1>2. IInv /\ [Next]_vars => IInv'
  BY InvStep
<1>3. IInv => OwnAnswer
  BY DEF IInv
<1> QED BY <1>1, <1>2, <1>3, PTL DEF Spec
-----------------------------------------------------------------------------

(* What a loop does with an answer.                                         *)
LEMMA HandlerEffect ==
  ASSUME IInv, NEW l \in Loop, NEW c \in Command, Handler(l, c)
  PROVE  /\ c \in answers /\ c \in answered /\ answers' = answers \ {c}
         /\ UNCHANGED <<requests, answered, last_seq, seq, pc>>
         /\ received' = IF Said(c, "Timeout") THEN received ELSE received \cup {c}
         /\ \/ c \notin Live /\ UNCHANGED <<verdicts, commands>>
            \/ /\ commands[seq[c]] = c /\ c \in Live
               /\ verdicts' = [verdicts EXCEPT ![c] = Append(@, "Success")]
               /\ commands' = [commands EXCEPT ![seq[c]] = NoCommand]
<1> USE DEF IInv
<1>1. c \in answers /\ seq[c] \in Seqs /\ commands[seq[c]] \in {c, NoCommand}
  BY FindsOwn DEF Handler
<1>2. CASE commands[seq[c]] = NoCommand
  BY <1>1, <1>2, CommandAssumption
  DEF Handler, Receive, NumberInv, Live, EntryInv, sender
<1>3. CASE commands[seq[c]] = c
  BY <1>1, <1>3, CommandAssumption DEF Handler, Receive, Found, NumberInv, Live, sender
<1> QED BY <1>1, <1>2, <1>3
-----------------------------------------------------------------------------
(* A command that enters the table before it is sent: until it times out,   *)
(* its answer finds the entry.                                              *)
Pending(c) == pc[c] = "send" \/ c \in requests \cup answers

EntryWaits ==
  /\ requests \cap answers = {}
  /\ \A c \in Command :
       AddsFirst(c) /\ Pending(c) /\ ~Said(c, "Timeout") => commands[seq[c]] = c

AnswerInv == EntryWaits /\ AnswerCounts

LEMMA AnswerInit == Init => AnswerInv
  BY DEF Init, AnswerInv, EntryWaits, AnswerCounts, Pending

LEMMA AnswerSender ==
  ASSUME IInv, AnswerInv, NEW c \in Command, Sender(c)
  PROVE  AnswerInv'
<1> USE DEF IInv
<1>1. CASE GetSeq(c)
  <2>1. \A d \in Command \ {c} : seq'[d] = seq[d] /\ pc'[d] = pc[d]
    BY <1>1 DEF GetSeq, Take, TypeOK
  <2>2. ~AddsFirst(c) \/ ~Pending(c)'
    BY <1>1 DEF GetSeq, Take, Pending, TypeOK, NumberInv, network
  <2>3. UNCHANGED <<commands, requests, answers, received, verdicts>>
    BY <1>1 DEF GetSeq, Take, network
  <2> QED
    BY <2>1, <2>2, <2>3, SaidSame
    DEF AnswerInv, EntryWaits, AnswerCounts, Pending, AddsFirst, TypeOK
<1>2. CASE AddCommand(c)
  <2>1. UNCHANGED <<seq, requests, answers, received, verdicts>>
    BY <1>2 DEF AddCommand, network
  <2>2. commands' = [commands EXCEPT ![seq[c]] = c] /\ seq[c] \in Seqs
    BY <1>2 DEF AddCommand, NumberInv
  <2>3. \A d \in Command \ {c} : pc'[d] = pc[d]
    BY <1>2 DEF AddCommand, TypeOK
  <2>4. \A d \in Command \ {c} : Pending(d) => seq[d] # seq[c]
    BY <1>2 DEF UniqueInv, InUse, Pending, AddCommand
  <2>5. commands'[seq[c]] = c
    BY <2>2 DEF TypeOK
  <2>6. \A d \in Command \ {c} : Pending(d) => commands'[seq[d]] = commands[seq[d]]
    BY <2>2, <2>4 DEF TypeOK
  <2> QED
    BY <2>1, <2>3, <2>5, <2>6, SaidSame
    DEF AnswerInv, EntryWaits, AnswerCounts, Pending, AddsFirst, TypeOK
<1>3. CASE SendTo(c)
  <2>1. UNCHANGED <<seq, commands, answers, received, verdicts>>
    BY <1>3 DEF SendTo
  <2>2. \A d \in Command : Pending(d)' => Pending(d)
    BY <1>3 DEF SendTo, AfterSend, Pending, TypeOK
  <2>3. c \notin answers /\ requests' = requests \cup {c}
    BY <1>3 DEF SendTo, NumberInv
  <2> QED
    BY <2>1, <2>2, <2>3, SaidSame
    DEF AnswerInv, EntryWaits, AnswerCounts, AddsFirst, TypeOK
<1>4. CASE SendFailed(c)
  <2>1. UNCHANGED <<seq, commands, requests, answers, received>>
    BY <1>4 DEF SendFailed, network
  <2>2. \A d \in Command : Pending(d)' => Pending(d)
    BY <1>4 DEF SendFailed, AfterSend, Pending, TypeOK, network
  <2>3. \A d \in Command, t \in {"Success", "Timeout"} : Said(d, t)' <=> Said(d, t)
    <3>1. \A d \in Command, t \in Status :
            Said(d, t)' <=> Said(d, t) \/ (d = c /\ t = "SendFailed")
      BY <1>4, SaidMore DEF SendFailed, Status
    <3> QED BY <3>1 DEF Status
  <2> QED
    BY <2>1, <2>2, <2>3
    DEF AnswerInv, EntryWaits, AnswerCounts, AddsFirst, TypeOK
<1> QED BY <1>1, <1>2, <1>3, <1>4 DEF Sender

LEMMA AnswerHandler ==
  ASSUME IInv, AnswerInv, NEW l \in Loop, NEW c \in Command, Handler(l, c)
  PROVE  AnswerInv'
<1> USE DEF IInv
<1>1. /\ c \in answers /\ answers' = answers \ {c}
      /\ UNCHANGED <<requests, seq, pc>>
      /\ received' = IF Said(c, "Timeout") THEN received ELSE received \cup {c}
  BY HandlerEffect
<1>2. pc[c] # "send" /\ c \notin requests
  BY <1>1 DEF NumberInv, AnswerInv, EntryWaits
<1>3. \A d \in Command : Pending(d)' => Pending(d) /\ d # c
  BY <1>1, <1>2 DEF Pending
<1>4. CASE c \notin Live /\ UNCHANGED <<verdicts, commands>>
  <2>1. AddsFirst(c) => Said(c, "Timeout")
    BY <1>1, <1>4, FindsOwn DEF AnswerInv, EntryWaits, Pending, Live
  <2> QED
    BY <1>1, <1>3, <1>4, <2>1, SaidSame
    DEF AnswerInv, EntryWaits, AnswerCounts, AddsFirst, TypeOK
<1>5. CASE /\ commands[seq[c]] = c
           /\ verdicts' = [verdicts EXCEPT ![c] = Append(@, "Success")]
           /\ commands' = [commands EXCEPT ![seq[c]] = NoCommand]
  <2>1. \A d \in Command, t \in Status :
          Said(d, t)' <=> Said(d, t) \/ (d = c /\ t = "Success")
    BY <1>5, SaidMore DEF Status
  <2>2. \A d \in Command \ {c} : Pending(d) => seq[d] # seq[c]
    BY <1>1 DEF UniqueInv, InUse, Pending
  <2>3. \A d \in Command : Pending(d)' => commands'[seq[d]] = commands[seq[d]]
    BY <1>3, <1>5, <2>2 DEF TypeOK
  <2>4. AnswerCounts'
    BY <1>1, <2>1 DEF AnswerInv, AnswerCounts, AddsFirst, TypeOK, Status
  <2>5. EntryWaits'
    BY <1>1, <1>3, <2>1, <2>3 DEF AnswerInv, EntryWaits, AddsFirst, Status
  <2> QED BY <2>4, <2>5 DEF AnswerInv
<1> QED BY <1>4, <1>5, HandlerEffect

LEMMA AnswerTimer ==
  ASSUME IInv, AnswerInv, NEW l \in Loop, NEW E \in SUBSET Live,
         CommandsHandle(l, E)
  PROVE  AnswerInv'
<1> USE DEF IInv
<1>1. \A d \in Command, t \in Status :
        Said(d, t)' <=> Said(d, t) \/ (d \in E /\ t = "Timeout")
  BY SaidTimeouts DEF CommandsHandle, Expired
<1>2. UNCHANGED <<seq, pc, requests, answers, received>>
  BY DEF CommandsHandle, Expired, sender, network
<1>3. \A d \in Command : Pending(d) => seq[d] \in Seqs
  BY DEF Pending, NumberInv, TypeOK
<1>4. \A d \in Command \ E :
        Pending(d) /\ commands[seq[d]] = d => commands'[seq[d]] = d
  BY <1>3 DEF CommandsHandle
<1> QED
  BY <1>1, <1>2, <1>4
  DEF AnswerInv, EntryWaits, AnswerCounts, Pending, AddsFirst, TypeOK, Status

LEMMA AnswerStep == IInv /\ AnswerInv /\ [Next]_vars => AnswerInv'
<1> SUFFICES ASSUME IInv, AnswerInv, [Next]_vars PROVE AnswerInv'
  OBVIOUS
<1>1. ASSUME NEW c \in Command, Answer(c) \/ Lose(c) PROVE AnswerInv'
  BY <1>1, SaidSame
  DEF AnswerInv, EntryWaits, AnswerCounts, Pending, AddsFirst, Answer, Lose, sender
<1>2. ASSUME NEW l \in Loop, Callback(l) PROVE AnswerInv'
  BY <1>2, SaidSame
  DEF AnswerInv, EntryWaits, AnswerCounts, Pending, AddsFirst, Callback, sender, network
<1>3. CASE UNCHANGED vars
  BY <1>3, SaidSame
  DEF AnswerInv, EntryWaits, AnswerCounts, Pending, AddsFirst, vars, sender, network
<1> QED
  BY <1>1, <1>2, <1>3, AnswerSender, AnswerHandler, AnswerTimer DEF Next, Timer

(* An answer that is read in time is never dropped, if the command entered  *)
(* the table before it was sent, however the threads interleave.            *)
THEOREM AnswersCount == Spec => []AnswerCounts
<1>1. Init => IInv /\ AnswerInv
  BY InvInit, AnswerInit
<1>2. IInv /\ AnswerInv /\ [Next]_vars => IInv' /\ AnswerInv'
  BY InvStep, AnswerStep
<1>3. AnswerInv => AnswerCounts
  BY DEF AnswerInv
<1> QED BY <1>1, <1>2, <1>3, PTL DEF Spec
-----------------------------------------------------------------------------
(* SendCommand with a port: the only entry of a command is made before the  *)
(* request leaves, so it is gone for good once a final verdict is decided,  *)
(* and a command that could not be sent never reaches the lidar.            *)
Finished(c) == Said(c, "Success") \/ Said(c, "Timeout")

PortInv ==
  \A c \in PortCommand :
    /\ pc[c] # "readd"
    /\ pc[c] \in {"idle", "add"} \/ c \in Live => ~Finished(c)
    /\ c \in Live => pc[c] \in {"send", "done"}
    /\ pc[c] \in {"idle", "add", "send"} => ~Said(c, "SendFailed")
    /\ c \in requests \cup answered => pc[c] = "done" /\ ~Said(c, "SendFailed")

LEMMA PortInit == Init => PortInv
<1> SUFFICES ASSUME Init PROVE PortInv
  OBVIOUS
<1>1. Live = {}
  BY CommandAssumption DEF Init, Live
<1>2. \A c \in Command, t \in Status : ~Said(c, t)
  BY DEF Init, Said
<1> QED BY <1>1, <1>2 DEF Init, PortInv, PortCommand, Finished, Status

LEMMA PortSender ==
  ASSUME IInv, PortInv, NEW c \in Command, Sender(c)
  PROVE  PortInv'
<1> USE DEF IInv
<1> SUFFICES ASSUME NEW d \in PortCommand
             PROVE  /\ pc'[d] # "readd"
                    /\ pc'[d] \in {"idle", "add"} \/ d \in Live' => ~Finished(d)'
                    /\ d \in Live' => pc'[d] \in {"send", "done"}
                    /\ pc'[d] \in {"idle", "add", "send"} => ~Said(d, "SendFailed")'
                    /\ d \in requests' \cup answered' =>
                         pc'[d] = "done" /\ ~Said(d, "SendFailed")'
  BY DEF PortInv, PortCommand
<1>0. /\ d \in Command /\ Family[d] = "port" /\ pc[d] # "readd"
      /\ pc[d] \in {"idle", "add"} \/ d \in Live => ~Finished(d)
      /\ d \in Live => pc[d] \in {"send", "done"}
      /\ pc[d] \in {"idle", "add", "send"} => ~Said(d, "SendFailed")
      /\ d \in requests \cup answered => pc[d] = "done" /\ ~Said(d, "SendFailed")
  BY DEF PortInv, PortCommand
<1>1. CASE GetSeq(c)
  <2>1. UNCHANGED <<commands, requests, answered, verdicts>>
    BY <1>1 DEF GetSeq, Take, network
  <2>2. pc'[d] = pc[d] \/ (d = c /\ pc[d] = "idle" /\ pc'[d] = "add")
    BY <1>0, <1>1 DEF GetSeq, Take, AddsFirst, TypeOK
  <2> QED BY <1>0, <2>1, <2>2, SaidSame DEF Live, Finished
<1>2. CASE AddCommand(c)
  <2>1. UNCHANGED <<requests, answered, verdicts>>
    BY <1>2 DEF AddCommand, network
  <2>2. pc'[d] = IF d = c THEN "send" ELSE pc[d]
    BY <1>0, <1>2 DEF AddCommand, TypeOK
  <2>3. d \in Live' => d \in Live \/ d = c
    BY <1>2 DEF AddCommand, Live, TypeOK
  <2>4. d = c => pc[d] = "add"
    BY <1>0, <1>2 DEF AddCommand
  <2> QED BY <1>0, <2>1, <2>2, <2>3, <2>4, SaidSame DEF Finished
<1>3. CASE SendTo(c)
  <2>1. UNCHANGED <<commands, answered, verdicts>> /\ requests' = requests \cup {c}
    BY <1>3 DEF SendTo
  <2>2. pc'[d] = IF d = c THEN "done" ELSE pc[d]
    BY <1>0, <1>3 DEF SendTo, AfterSend, AddsAfter, TypeOK
  <2>3. d = c => pc[d] = "send"
    BY <1>3 DEF SendTo
  <2> QED BY <1>0, <2>1, <2>2, <2>3, SaidSame DEF Live, Finished
<1>4. CASE SendFailed(c)
  <2>1. UNCHANGED <<commands, answered, requests>>
    BY <1>4 DEF SendFailed, network
  <2>2. pc'[d] = IF d = c THEN "done" ELSE pc[d]
    BY <1>0, <1>4 DEF SendFailed, AfterSend, AddsAfter, TypeOK
  <2>3. d = c => pc[d] = "send"
    BY <1>4 DEF SendFailed
  <2>4. \A t \in Status : Said(d, t)' <=> Said(d, t) \/ (d = c /\ t = "SendFailed")
    BY <1>0, <1>4, SaidMore DEF SendFailed, Status
  <2>5. Finished(d)' <=> Finished(d)
    BY <2>4 DEF Finished, Status
  <2>6. Said(d, "SendFailed")' <=> Said(d, "SendFailed") \/ d = c
    BY <2>4 DEF Status
  <2> QED BY <1>0, <2>1, <2>2, <2>3, <2>5, <2>6 DEF Live
<1> QED BY <1>1, <1>2, <1>3, <1>4 DEF Sender

LEMMA PortLoop ==
  ASSUME IInv, PortInv, NEW l \in Loop,
         \/ \E c \in Command : Handler(l, c)
         \/ \E E \in SUBSET Live : CommandsHandle(l, E)
  PROVE  PortInv'
<1> USE DEF IInv
<1>1. UNCHANGED <<pc, requests, answered>>
  BY HandlerEffect DEF CommandsHandle, Expired, sender, network
<1>2. \A d \in Command : d \in Live' => d \in Live /\ (Finished(d)' <=> Finished(d))
  <2>1. ASSUME NEW c \in Command, Handler(l, c), UNCHANGED <<verdicts, commands>>
        PROVE  \A d \in Command : d \in Live' => d \in Live /\ (Finished(d)' <=> Finished(d))
    BY <2>1, SaidSame DEF Finished, Live
  <2>2. ASSUME NEW c \in Command, commands[seq[c]] = c, c \in Live,
               verdicts' = [verdicts EXCEPT ![c] = Append(@, "Success")],
               commands' = [commands EXCEPT ![seq[c]] = NoCommand]
        PROVE  \A d \in Command : d \in Live' => d \in Live /\ (Finished(d)' <=> Finished(d))
    <3>1. \A d \in Command, t \in Status :
            Said(d, t)' <=> Said(d, t) \/ (d = c /\ t = "Success")
      BY <2>2, SaidMore DEF Status
    <3>2. \A d \in Command : d \in Live' => d \in Live
      BY <2>2, CommandAssumption DEF Live, TypeOK
    <3>3. c \notin Live'
      BY <2>2, CommandAssumption DEF Live, TypeOK, EntryInv
    <3> QED BY <3>1, <3>2, <3>3 DEF Finished, Status
  <2>3. ASSUME NEW E \in SUBSET Live, CommandsHandle(l, E)
        PROVE  \A d \in Command : d \in Live' => d \in Live /\ (Finished(d)' <=> Finished(d))
    <3>1. \A d \in Command, t \in Status :
            Said(d, t)' <=> Said(d, t) \/ (d \in E /\ t = "Timeout")
      BY <2>3, SaidTimeouts DEF CommandsHandle, Expired
    <3>2. \A d \in Command : d \in Live' => d \in Live /\ d \notin E
      BY <2>3, CommandAssumption DEF Live, TypeOK, CommandsHandle
    <3> QED BY <3>1, <3>2 DEF Finished, Status
  <2> QED BY <2>1, <2>2, <2>3, HandlerEffect
<1>3. \A d \in Command : Said(d, "SendFailed")' <=> Said(d, "SendFailed")
  <2>1. ASSUME NEW c \in Command,
               verdicts' = [verdicts EXCEPT ![c] = Append(@, "Success")]
        PROVE  \A d \in Command : Said(d, "SendFailed")' <=> Said(d, "SendFailed")
    <3>1. \A d \in Command, t \in Status :
            Said(d, t)' <=> Said(d, t) \/ (d = c /\ t = "Success")
      BY <2>1, SaidMore DEF Status
    <3> QED BY <3>1 DEF Status
  <2>2. ASSUME NEW E \in SUBSET Live, CommandsHandle(l, E)
        PROVE  \A d \in Command : Said(d, "SendFailed")' <=> Said(d, "SendFailed")
    <3>1. \A d \in Command, t \in Status :
            Said(d, t)' <=> Said(d, t) \/ (d \in E /\ t = "Timeout")
      BY <2>2, SaidTimeouts DEF CommandsHandle, Expired
    <3> QED BY <3>1 DEF Status
  <2> QED BY <2>1, <2>2, HandlerEffect, SaidSame
<1>4. \A d \in Command : pc[d] \in {"idle", "add"} =>
        (d \in PortCommand => (Finished(d)' <=> Finished(d)))
  <2>1. ASSUME NEW c \in Command, Handler(l, c), NEW d \in PortCommand,
               pc[d] \in {"idle", "add"}
        PROVE  Finished(d)' <=> Finished(d)
    <3>1. d # c /\ d \in Command
      BY <2>1 DEF Handler, NumberInv, PortCommand
    <3>2. CASE UNCHANGED verdicts
      BY <3>2, SaidSame DEF Finished
    <3>3. CASE verdicts' = [verdicts EXCEPT ![c] = Append(@, "Success")]
      BY <3>1, <3>3, SaidMore DEF Finished, Status
    <3> QED BY <2>1, <3>2, <3>3, HandlerEffect
  <2>2. ASSUME NEW E \in SUBSET Live, CommandsHandle(l, E), NEW d \in PortCommand,
               pc[d] \in {"idle", "add"}
        PROVE  Finished(d)' <=> Finished(d)
    <3>1. d \notin E /\ d \in Command
      BY <2>2 DEF PortInv, PortCommand
    <3> QED BY <2>2, <3>1, SaidTimeouts DEF Finished, Status, CommandsHandle, Expired
  <2> QED BY <2>1, <2>2
<1> QED BY <1>1, <1>2, <1>3, <1>4 DEF PortInv, PortCommand

LEMMA PortStep == IInv /\ PortInv /\ [Next]_vars => PortInv'
<1> SUFFICES ASSUME IInv, PortInv, [Next]_vars PROVE PortInv'
  OBVIOUS
<1>1. ASSUME NEW c \in Command, Answer(c) \/ Lose(c) PROVE PortInv'
  BY <1>1, SaidSame DEF PortInv, PortCommand, Finished, Answer, Lose, sender, Live
<1>2. ASSUME NEW l \in Loop, Callback(l) PROVE PortInv'
  BY <1>2, SaidSame DEF PortInv, PortCommand, Finished, Callback, sender, network, Live
<1>3. CASE UNCHANGED vars
  BY <1>3, SaidSame DEF PortInv, PortCommand, Finished, vars, sender, network, Live
<1> QED BY <1>1, <1>2, <1>3, PortSender, PortLoop DEF Next, Timer
-----------------------------------------------------------------------------
(* The refinement mapping, restricted to the commands sent with a port.     *)
Issued   == {c \in PortCommand : pc[c] # "idle"}
Answered == answered \cap PortCommand
Verdicts == [c \in PortCommand |-> verdicts[c]]

LEMMA HasIsSaid ==
  ASSUME NEW c \in PortCommand, NEW s \in Status
  PROVE  Promise!Has(c, s) <=> Said(c, s)
  BY DEF Promise!Has, Said

LEMMA AddIsAppend ==
  ASSUME TypeOK, NEW c \in PortCommand, NEW s \in Status,
         verdicts' = [verdicts EXCEPT ![c] = Append(@, s)]
  PROVE  Promise!Add(c, s)
  BY DEF Promise!Add, PortCommand, TypeOK

LEMMA OtherVerdicts ==
  ASSUME TypeOK, NEW c \in Command \ PortCommand, NEW s \in Status,
         verdicts' = [verdicts EXCEPT ![c] = Append(@, s)]
  PROVE  UNCHANGED Verdicts
  BY DEF Verdicts, PortCommand, TypeOK

LEMMA PromiseSender ==
  ASSUME IInv, PortInv, NEW c \in Command, Sender(c)
  PROVE  [Promise!PromiseNext]_(Promise!promiseVars)
<1> USE DEF IInv
<1>1. CASE GetSeq(c)
  <2>1. UNCHANGED <<answered, verdicts>>
    BY <1>1 DEF GetSeq, Take, network
  <2>2. Issued' = IF c \in PortCommand THEN Issued \cup {c} ELSE Issued
    BY <1>1 DEF GetSeq, Take, TypeOK, Issued, PortCommand, AddsFirst
  <2>3. c \notin Issued
    BY <1>1 DEF GetSeq, Issued
  <2>4. UNCHANGED PortCommand
    BY DEF PortCommand
  <2>5. CASE c \in PortCommand
    <3>1. Promise!Issue(c)
      BY <2>1, <2>2, <2>3, <2>4, <2>5 DEF Promise!Issue, Issued
    <3> QED BY <2>5, <3>1 DEF Promise!PromiseNext
  <2>6. CASE c \notin PortCommand
    BY <2>1, <2>2, <2>4, <2>6 DEF Promise!promiseVars, Issued
  <2> QED BY <2>5, <2>6
<1>2. CASE AddCommand(c) \/ SendTo(c)
  <2>1. Issued' = Issued
    BY <1>2 DEF AddCommand, SendTo, AfterSend, TypeOK, Issued, PortCommand
  <2>2. UNCHANGED <<answered, verdicts>>
    BY <1>2 DEF AddCommand, SendTo, network
  <2> QED BY <2>1, <2>2 DEF Promise!promiseVars, Issued, PortCommand
<1>3. CASE SendFailed(c)
  <2>1. Issued' = Issued /\ UNCHANGED <<answered, PortCommand>>
    BY <1>3 DEF SendFailed, AfterSend, TypeOK, Issued, PortCommand, network
  <2>2. verdicts' = [verdicts EXCEPT ![c] = Append(@, "SendFailed")]
    BY <1>3 DEF SendFailed
  <2>3. CASE c \in PortCommand
    <3>1. Promise!Add(c, "SendFailed")
      BY <2>2, <2>3, AddIsAppend DEF Status
    <3>2. c \in Issued \ Answered /\ ~Promise!Has(c, "SendFailed")
      BY <1>3, <2>3, HasIsSaid DEF SendFailed, Issued, Answered, PortInv, Status
    <3>3. Promise!FailToSend(c)
      BY <2>1, <3>1, <3>2 DEF Promise!FailToSend, Issued, Answered
    <3> QED BY <2>3, <3>3 DEF Promise!PromiseNext
  <2>4. CASE c \notin PortCommand
    BY <2>1, <2>2, <2>4, OtherVerdicts DEF Promise!promiseVars, Issued, Verdicts, Status
  <2> QED BY <2>3, <2>4
<1> QED BY <1>1, <1>2, <1>3 DEF Sender

LEMMA PromiseNetwork ==
  ASSUME IInv, PortInv, NEW c \in Command, Answer(c) \/ Lose(c)
  PROVE  [Promise!PromiseNext]_(Promise!promiseVars)
<1> USE DEF IInv
<1>1. UNCHANGED <<pc, verdicts, PortCommand>>
  BY DEF Answer, Lose, sender, PortCommand
<1>2. CASE answered' = answered \cup {c} /\ c \in requests /\ c \in PortCommand
  <2>1. c \in Issued /\ ~Promise!Has(c, "SendFailed")
    BY <1>2, HasIsSaid DEF PortInv, Issued, Status
  <2>2. Promise!Answer(c)
    BY <1>1, <1>2, <2>1 DEF Promise!Answer, Issued
  <2> QED BY <1>2, <2>2 DEF Promise!PromiseNext
<1>3. CASE answered' \cap PortCommand = answered \cap PortCommand
  BY <1>1, <1>3 DEF Promise!promiseVars
<1> QED BY <1>2, <1>3 DEF Answer, Lose

LEMMA PromiseHandler ==
  ASSUME IInv, PortInv, NEW l \in Loop, NEW c \in Command, Handler(l, c)
  PROVE  [Promise!PromiseNext]_(Promise!promiseVars)
<1> USE DEF IInv
<1>1. UNCHANGED <<pc, answered, PortCommand>> /\ c \in answered
  BY HandlerEffect DEF PortCommand
<1>2. CASE UNCHANGED verdicts
  BY <1>1, <1>2 DEF Promise!promiseVars
<1>3. CASE c \in Live /\ verdicts' = [verdicts EXCEPT ![c] = Append(@, "Success")]
  <2>1. CASE c \in PortCommand
    <3>1. ~Promise!Final(c)
      BY <1>3, <2>1, HasIsSaid DEF PortInv, Finished, Promise!Final, Status
    <3>2. Promise!Add(c, "Success")
      BY <1>3, <2>1, AddIsAppend DEF Status
    <3>3. Promise!Succeed(c)
      BY <1>1, <2>1, <3>1, <3>2 DEF Promise!Succeed
    <3> QED BY <2>1, <3>3 DEF Promise!PromiseNext
  <2>2. CASE c \notin PortCommand
    BY <1>1, <1>3, <2>2, OtherVerdicts DEF Promise!promiseVars, Verdicts, Status
  <2> QED BY <2>1, <2>2
<1> QED BY <1>2, <1>3, HandlerEffect

LEMMA PromiseTimer ==
  ASSUME IInv, PortInv, NEW l \in Loop, NEW E \in SUBSET Live, CommandsHandle(l, E)
  PROVE  Promise!PromiseNext
<1> USE DEF IInv
<1> DEFINE F == E \cap PortCommand
<1>1. UNCHANGED <<pc, answered, PortCommand>>
  BY DEF CommandsHandle, Expired, sender, network, PortCommand
<1>2. F \subseteq Issued
  BY DEF PortInv, Issued
<1>3. \A c \in F : ~Promise!Final(c)
  BY HasIsSaid DEF PortInv, Finished, Promise!Final, Status
<1>4. Verdicts' = [c \in PortCommand |-> IF c \in F THEN Append(Verdicts[c], "Timeout")
                                                    ELSE Verdicts[c]]
  BY <1>1 DEF Verdicts, CommandsHandle, Expired, PortCommand
<1>5. Promise!Expire(F)
  BY <1>1, <1>2, <1>3, <1>4 DEF Promise!Expire, Issued, Verdicts
<1> QED BY <1>5 DEF Promise!PromiseNext

LEMMA PromiseStep ==
  ASSUME IInv, PortInv, [Next]_vars
  PROVE  [Promise!PromiseNext]_(Promise!promiseVars)
<1>1. ASSUME NEW l \in Loop, Callback(l) PROVE UNCHANGED Promise!promiseVars
  BY <1>1 DEF Callback, sender, network, Promise!promiseVars, PortCommand
<1>2. UNCHANGED vars => UNCHANGED Promise!promiseVars
  BY DEF vars, sender, network, Promise!promiseVars, PortCommand
<1> QED
  BY <1>1, <1>2, PromiseSender, PromiseNetwork, PromiseHandler, PromiseTimer
  DEF Next, Timer

(* A command sent with a port gets at most one final verdict, Success only  *)
(* if the lidar answered it, and never after SendFailed.                    *)
THEOREM PortKeepsPromise == Spec => RefinesPromise
<1>1. Init => IInv /\ PortInv
  BY InvInit, PortInit
<1>2. IInv /\ PortInv /\ [Next]_vars => IInv' /\ PortInv'
  BY InvStep, PortStep
<1>3. Init => Promise!PromiseInit
  BY DEF Init, Promise!PromiseInit, PortCommand
<1>4. IInv /\ PortInv /\ [Next]_vars => [Promise!PromiseNext]_(Promise!promiseVars)
  BY PromiseStep
<1> QED BY <1>1, <1>2, <1>3, <1>4, PTL DEF Spec, RefinesPromise, Promise!PromiseSpec
-----------------------------------------------------------------------------
(* All a command can be told: what it was told while it is in the table,    *)
(* and what it was told when it is not.  Once it was answered, or could not *)
(* be sent, no request or answer of it is on its way.                       *)
OnWire(c) == c \in requests \cup answers
Again(c)  == pc[c] = "done" /\ Family[c] = "hap"

WaitingSays(c) ==
  {<<>>} \cup (IF Again(c) THEN {<<"Timeout">>} ELSE {})
  \cup (IF OnWire(c) \/ pc[c] = "send" THEN {} ELSE {<<"SendFailed">>})
  \cup (IF Again(c) /\ ~OnWire(c)
        THEN {<<"Success">>, <<"SendFailed", "Timeout">>, <<"Timeout", "SendFailed">>} ELSE {})

(* Before SendTo, between it and the second AddCommand, and in the end.     *)
SendingSays(c) == IF AddsFirst(c) THEN {<<"Timeout">>} ELSE {<<>>}
AddingSays(c) ==
  IF AddsFirst(c)
  THEN {<<"Timeout">>} \cup
       (IF OnWire(c) THEN {} ELSE {<<"Success">>, <<"SendFailed", "Timeout">>, <<"Timeout", "SendFailed">>})
  ELSE {<<>>} \cup (IF OnWire(c) THEN {} ELSE {<<"SendFailed">>})
EndSays(c) ==
  {<<"Timeout">>}
  \cup (IF Family[c] = "hap" THEN {<<"Timeout", "Timeout">>} ELSE {})
  \cup (IF OnWire(c) THEN {} ELSE {<<"Success">>, <<"SendFailed", "Timeout">>})
  \cup (IF ~OnWire(c) /\ Family[c] = "port" THEN {<<"Timeout", "SendFailed">>} ELSE {})
  \cup (IF ~OnWire(c) /\ Family[c] = "hap"
        THEN {<<"Success", "Timeout">>, <<"Timeout", "Success">>,
              <<"Timeout", "SendFailed", "Timeout">>, <<"SendFailed", "Timeout", "Timeout">>}
        ELSE {})
GoneSays(c) ==
  CASE pc[c] \in {"idle", "add"} -> {<<>>}
    [] pc[c] = "send"  -> SendingSays(c)
    [] pc[c] = "readd" -> AddingSays(c)
    [] pc[c] = "done"  -> EndSays(c)

CanWait(c) == pc[c] = "done" \/ (AddsFirst(c) /\ pc[c] \in {"send", "readd"})

ShapeOf(c) ==
  /\ ~(c \in requests /\ c \in answers)
  /\ pc[c] = "add" => AddsFirst(c)
  /\ pc[c] = "readd" => AddsAfter(c)
  /\ IF c \in Live THEN CanWait(c) /\ verdicts[c] \in WaitingSays(c)
                   ELSE verdicts[c] \in GoneSays(c)
ShapeInv == \A c \in Command : ShapeOf(c)

LEMMA ShapeInit == Init => ShapeInv
  BY CommandAssumption
  DEF Init, ShapeInv, ShapeOf, GoneSays, Live

LEMMA AppendedTo ==
  /\ \A s \in Status : Append(<<>>, s) = <<s>>
  /\ \A s, t \in Status : Append(<<s>>, t) = <<s, t>>
  /\ \A s, t, u \in Status : Append(<<s, t>>, u) = <<s, t, u>>
<1>1. \A s \in Status : Append(<<>>, s) = <<s>>
  OBVIOUS
<1>2. ASSUME NEW s \in Status, NEW t \in Status PROVE Append(<<s>>, t) = <<s, t>>
  <2>1. <<s>> \in Seq(Status) /\ Len(<<s>>) = 1 /\ <<s>>[1] = s
    OBVIOUS
  <2>2. /\ <<s, t>> \in Seq(Status) /\ Len(<<s, t>>) = 2
        /\ <<s, t>>[1] = s /\ <<s, t>>[2] = t
    OBVIOUS
  <2>3. /\ Append(<<s>>, t) \in Seq(Status) /\ Len(Append(<<s>>, t)) = 2
        /\ Append(<<s>>, t)[1] = s /\ Append(<<s>>, t)[2] = t
    BY <2>1
  <2>4. \A i \in 1..2 : Append(<<s>>, t)[i] = <<s, t>>[i]
    BY <2>2, <2>3
  <2> QED BY <2>2, <2>3, <2>4, SeqEqual
<1>3. ASSUME NEW s \in Status, NEW t \in Status, NEW u \in Status
      PROVE  Append(<<s, t>>, u) = <<s, t, u>>
  <2>1. /\ <<s, t>> \in Seq(Status) /\ Len(<<s, t>>) = 2
        /\ <<s, t>>[1] = s /\ <<s, t>>[2] = t
    OBVIOUS
  <2>2. /\ <<s, t, u>> \in Seq(Status) /\ Len(<<s, t, u>>) = 3
        /\ <<s, t, u>>[1] = s /\ <<s, t, u>>[2] = t /\ <<s, t, u>>[3] = u
    OBVIOUS
  <2>3. /\ Append(<<s, t>>, u) \in Seq(Status) /\ Len(Append(<<s, t>>, u)) = 3
        /\ Append(<<s, t>>, u)[1] = s /\ Append(<<s, t>>, u)[2] = t /\ Append(<<s, t>>, u)[3] = u
    BY <2>1
  <2>4. \A i \in 1..3 : Append(<<s, t>>, u)[i] = <<s, t, u>>[i]
    BY <2>2, <2>3
  <2> QED BY <2>2, <2>3, <2>4, SeqEqual
<1> QED BY <1>1, <1>2, <1>3

(* Nothing changes for a command, or its last message is gone. *)
LEMMA ShapeStays ==
  ASSUME NEW d \in Command, ShapeOf(d), verdicts'[d] = verdicts[d], pc'[d] = pc[d],
         (d \in Live)' <=> d \in Live,
         (OnWire(d))' => OnWire(d), ~(d \in requests' /\ d \in answers')
  PROVE  ShapeOf(d)'
<1>1. WaitingSays(d) \subseteq WaitingSays(d)'
  BY DEF WaitingSays, Again
<1>2. GoneSays(d) \subseteq GoneSays(d)'
  <2>1. AddingSays(d) \subseteq AddingSays(d)'
    BY DEF AddingSays, AddsFirst
  <2>2. EndSays(d) \subseteq EndSays(d)'
    BY DEF EndSays
  <2> QED BY <2>1, <2>2 DEF GoneSays, SendingSays, AddsFirst
<1> QED BY <1>1, <1>2 DEF ShapeOf, CanWait, AddsFirst, AddsAfter

(* The commands with an entry, after each step that changes the table.      *)
LEMMA LiveAdded ==
  ASSUME IInv, NEW c \in Command, AddCommand(c)
  PROVE  \A d \in Command : (d \in Live)' <=> d \in Live \/ d = c
<1> USE DEF IInv
<1>1. seq[c] \in Seqs /\ commands' = [commands EXCEPT ![seq[c]] = c]
  BY DEF NumberInv, AddCommand
<1>2. commands[seq[c]] \in {c, NoCommand}
  BY <1>1 DEF AddCommand, EntryInv, UniqueInv, InUse, TypeOK
<1> QED BY <1>1, <1>2, CommandAssumption DEF Live, TypeOK

LEMMA LiveErased ==
  ASSUME IInv, NEW c \in Command, seq[c] \in Seqs, commands[seq[c]] = c,
         commands' = [commands EXCEPT ![seq[c]] = NoCommand]
  PROVE  \A d \in Command : (d \in Live)' <=> d \in Live /\ d # c
<1>1. \A s \in Seqs : commands[s] = c => s = seq[c]
  BY CommandAssumption DEF IInv, EntryInv
<1>2. \A s \in Seqs : commands'[s] = IF s = seq[c] THEN NoCommand ELSE commands[s]
  BY DEF IInv, TypeOK
<1> QED BY <1>1, <1>2, CommandAssumption DEF Live

LEMMA LiveExpired ==
  ASSUME NEW E \in SUBSET Live,
         commands' = [s \in Seqs |-> IF commands[s] \in E THEN NoCommand ELSE commands[s]]
  PROVE  \A d \in Command : (d \in Live)' <=> d \in Live /\ d \notin E
  BY CommandAssumption DEF Live

LEMMA ShapeSender ==
  ASSUME IInv, ShapeInv, NEW c \in Command, Sender(c)
  PROVE  ShapeInv'
<1> USE DEF IInv
<1>0. ShapeOf(c) /\ (pc[c] \in {"idle", "add", "send"} => ~OnWire(c))
  BY DEF ShapeInv, NumberInv, OnWire
<1>1. CASE GetSeq(c)
  <2>1. /\ \A d \in Command \ {c} : pc'[d] = pc[d]
        /\ pc'[c] = IF AddsFirst(c) THEN "add" ELSE "send"
        /\ UNCHANGED <<commands, requests, answers, verdicts>>
    BY <1>1 DEF GetSeq, Take, TypeOK, network
  <2>2. Live' = Live /\ \A d \in Command : OnWire(d)' = OnWire(d)
    BY <2>1 DEF Live, OnWire
  <2>3. ShapeOf(c)'
    BY <1>0, <1>1, <2>1, <2>2
    DEF ShapeOf, GetSeq, GoneSays, SendingSays, CanWait, AddsFirst
  <2>4. \A d \in Command \ {c} : ShapeOf(d)'
    BY <2>1, <2>2, ShapeStays DEF ShapeInv, ShapeOf
  <2> QED BY <2>3, <2>4 DEF ShapeInv
<1>2. CASE AddCommand(c)
  <2>1. /\ \A d \in Command \ {c} : pc'[d] = pc[d]
        /\ pc'[c] = IF pc[c] = "add" THEN "send" ELSE "done"
        /\ pc[c] \in {"add", "readd"}
        /\ UNCHANGED <<requests, answers, verdicts>>
    BY <1>2 DEF AddCommand, TypeOK, network
  <2>2. /\ c \in Live' /\ \A d \in Command \ {c} : (d \in Live)' <=> d \in Live
        /\ \A d \in Command : OnWire(d)' = OnWire(d)
    BY <1>2, <2>1, LiveAdded DEF OnWire
  <2>3. ASSUME pc[c] = "add" PROVE ShapeOf(c)'
    BY <1>0, <2>1, <2>2, <2>3
    DEF ShapeOf, GoneSays, WaitingSays, Again, CanWait, AddsFirst
  <2>4. ASSUME pc[c] = "readd" PROVE ShapeOf(c)'
    <3>1. AddsFirst(c) => Family[c] = "hap"
      BY <1>0, <2>4, FamilyAssumption DEF ShapeOf, AddsFirst, AddsAfter
    <3>2. verdicts[c] \in WaitingSays(c) \cup AddingSays(c)
      BY <1>0, <2>4 DEF ShapeOf, GoneSays
    <3>3. WaitingSays(c) \cup AddingSays(c) \subseteq WaitingSays(c)'
      BY <2>1, <2>2, <2>4, <3>1 DEF WaitingSays, AddingSays, Again, AddsFirst
    <3> QED BY <1>0, <2>1, <2>2, <2>4, <3>2, <3>3 DEF ShapeOf, CanWait, AddsFirst, AddsAfter
  <2>5. \A d \in Command \ {c} : ShapeOf(d)'
    BY <2>1, <2>2, ShapeStays DEF ShapeInv, ShapeOf
  <2> QED BY <2>1, <2>3, <2>4, <2>5 DEF ShapeInv
<1>3. CASE SendTo(c) \/ SendFailed(c)
  <2>1. /\ pc[c] = "send" /\ pc' = [pc EXCEPT ![c] = AfterSend(c)]
        /\ UNCHANGED <<commands, answers>>
        /\ requests' \in {requests, requests \cup {c}}
        /\ \A d \in Command \ {c} : verdicts'[d] = verdicts[d]
    BY <1>3 DEF SendTo, SendFailed, network, TypeOK
  <2>2. Live' = Live /\ \A d \in Command \ {c} : OnWire(d)' = OnWire(d)
    BY <2>1 DEF Live, OnWire
  <2>3. \A d \in Command \ {c} : ShapeOf(d)'
    BY <2>1, <2>2, ShapeStays DEF ShapeInv, ShapeOf, TypeOK
  <2>4. /\ pc'[c] \in {"readd", "done"}
        /\ pc'[c] = "readd" <=> Family[c] # "port"
    BY <2>1 DEF AfterSend, AddsAfter, TypeOK
  <2>5. ASSUME SendTo(c) PROVE ShapeOf(c)'
    <3>1. verdicts' = verdicts /\ OnWire(c)' /\ ~(c \in requests' /\ c \in answers')
      BY <1>0, <2>1, <2>5 DEF SendTo, OnWire
    <3> QED
      BY <1>0, <2>1, <2>2, <2>4, <3>1, FamilyAssumption
      DEF ShapeOf, GoneSays, SendingSays, AddingSays, EndSays, WaitingSays, Again, CanWait,
          AddsFirst, AddsAfter
  <2>6. ASSUME SendFailed(c) PROVE ShapeOf(c)'
    <3>1. ~OnWire(c)' /\ verdicts'[c] = Append(verdicts[c], "SendFailed")
      BY <1>0, <2>1, <2>6 DEF SendFailed, OnWire, network, TypeOK
    <3>2. CASE c \in Live
      <4>1. verdicts[c] = <<>> /\ AddsFirst(c)
        BY <1>0, <2>1, <3>2 DEF ShapeOf, WaitingSays, Again, CanWait
      <4>2. verdicts'[c] = <<"SendFailed">>
        BY <3>1, <4>1, AppendedTo DEF Status
      <4> QED
        BY <1>0, <2>1, <2>2, <2>4, <3>1, <3>2, <4>1, <4>2
        DEF ShapeOf, WaitingSays, CanWait, AddsFirst, AddsAfter, OnWire
    <3>3. CASE c \notin Live
      <4>1. verdicts[c] = IF AddsFirst(c) THEN <<"Timeout">> ELSE <<>>
        BY <1>0, <2>1, <3>3 DEF ShapeOf, GoneSays, SendingSays
      <4>2. verdicts'[c] = IF AddsFirst(c) THEN <<"Timeout", "SendFailed">> ELSE <<"SendFailed">>
        BY <3>1, <4>1, AppendedTo DEF Status
      <4> QED
        BY <1>0, <2>1, <2>2, <2>4, <3>1, <3>3, <4>2, FamilyAssumption
        DEF ShapeOf, GoneSays, AddingSays, EndSays, AddsFirst, AddsAfter, OnWire
    <3> QED BY <3>2, <3>3
  <2> QED BY <1>3, <2>3, <2>5, <2>6 DEF ShapeInv
<1> QED BY <1>1, <1>2, <1>3 DEF Sender

LEMMA ShapeHandler ==
  ASSUME IInv, ShapeInv, NEW l \in Loop, NEW c \in Command, Handler(l, c)
  PROVE  ShapeInv'
<1>1. /\ c \in answers /\ answers' = answers \ {c} /\ UNCHANGED <<requests, seq, pc>>
  BY HandlerEffect
<1>2. ShapeOf(c) /\ OnWire(c) /\ ~OnWire(c)' /\ pc[c] \in {"readd", "done"}
  BY <1>1 DEF ShapeInv, ShapeOf, OnWire, IInv, NumberInv
<1>3. \A d \in Command : OnWire(d)' => OnWire(d)
  BY <1>1 DEF OnWire
<1>4. CASE UNCHANGED <<verdicts, commands>>
  <2>1. Live' = Live
    BY <1>4 DEF Live
  <2> QED BY <1>1, <1>3, <1>4, <2>1, ShapeStays DEF ShapeInv, ShapeOf
<1>5. CASE /\ commands[seq[c]] = c /\ c \in Live
           /\ verdicts' = [verdicts EXCEPT ![c] = Append(@, "Success")]
           /\ commands' = [commands EXCEPT ![seq[c]] = NoCommand]
  <2>1. \A d \in Command : (d \in Live)' <=> d \in Live /\ d # c
    BY <1>2, <1>5, LiveErased DEF IInv, NumberInv
  <2>2. verdicts[c] = <<>> \/ (Again(c) /\ verdicts[c] = <<"Timeout">>)
    BY <1>2, <1>5 DEF ShapeOf, WaitingSays
  <2>3. \/ verdicts'[c] = <<"Success">>
        \/ Again(c) /\ verdicts'[c] = <<"Timeout", "Success">>
    BY <1>5, <2>2, AppendedTo DEF Status, IInv, TypeOK
  <2>4. pc[c] = "readd" => AddsFirst(c)
    BY <1>2, <1>5 DEF ShapeOf, CanWait
  <2>5. verdicts'[c] \in GoneSays(c)'
    BY <1>1, <1>2, <2>3, <2>4 DEF GoneSays, AddingSays, EndSays, Again, AddsFirst
  <2>6. ShapeOf(c)'
    BY <1>1, <1>2, <2>1, <2>5 DEF ShapeOf, OnWire, AddsFirst, AddsAfter
  <2>7. \A d \in Command \ {c} : ShapeOf(d)'
    BY <1>1, <1>3, <1>5, <2>1, ShapeStays DEF ShapeInv, ShapeOf, IInv, TypeOK
  <2> QED BY <2>6, <2>7 DEF ShapeInv
<1> QED BY <1>4, <1>5, HandlerEffect

LEMMA ShapeTimer ==
  ASSUME IInv, ShapeInv, NEW l \in Loop, NEW E \in SUBSET Live, CommandsHandle(l, E)
  PROVE  ShapeInv'
<1>1. UNCHANGED <<pc, requests, answers>> /\ \A d \in Command : OnWire(d)' = OnWire(d)
  BY DEF CommandsHandle, Expired, sender, network, OnWire
<1>2. \A d \in Command : (d \in Live)' <=> d \in Live /\ d \notin E
  BY LiveExpired DEF CommandsHandle
<1>3. \A d \in Command : verdicts'[d] = IF d \in E THEN Append(verdicts[d], "Timeout") ELSE verdicts[d]
  BY DEF CommandsHandle, Expired
<1>4. ASSUME NEW d \in E PROVE ShapeOf(d)'
  <2>1. d \in Command /\ d \in Live /\ ShapeOf(d)
    BY DEF ShapeInv, Live
  <2>2. verdicts[d] \in WaitingSays(d) /\ CanWait(d)
    BY <2>1 DEF ShapeOf
  <2>3. CASE verdicts[d] = <<>>
    BY <1>1, <1>2, <1>3, <2>1, <2>2, <2>3, AppendedTo
    DEF Status, ShapeOf, CanWait, GoneSays, SendingSays, AddingSays, EndSays, AddsFirst, AddsAfter
  <2>4. CASE verdicts[d] = <<"SendFailed">> /\ ~OnWire(d) /\ pc[d] # "send"
    BY <1>1, <1>2, <1>3, <2>1, <2>2, <2>4, AppendedTo
    DEF Status, ShapeOf, CanWait, GoneSays, AddingSays, EndSays, AddsFirst, AddsAfter
  <2>5. CASE Again(d) /\ verdicts[d] = <<"Timeout">>
    BY <1>1, <1>2, <1>3, <2>1, <2>5, AppendedTo
    DEF Status, ShapeOf, Again, GoneSays, EndSays
  <2>6. CASE /\ Again(d) /\ ~OnWire(d)
             /\ verdicts[d] \in {<<"Success">>, <<"SendFailed", "Timeout">>, <<"Timeout", "SendFailed">>}
    <3>1. verdicts'[d] \in {<<"Success", "Timeout">>, <<"SendFailed", "Timeout", "Timeout">>,
                            <<"Timeout", "SendFailed", "Timeout">>}
      BY <1>3, <2>1, <2>6, AppendedTo DEF Status
    <3> QED BY <1>1, <1>2, <2>1, <2>6, <3>1 DEF ShapeOf, Again, GoneSays, EndSays
  <2> QED BY <2>2, <2>3, <2>4, <2>5, <2>6 DEF WaitingSays
<1>5. ASSUME NEW d \in Command \ E PROVE ShapeOf(d)'
  BY <1>1, <1>2, <1>3, <1>5, ShapeStays DEF ShapeInv, ShapeOf
<1> QED BY <1>4, <1>5 DEF ShapeInv

LEMMA ShapeStep == IInv /\ ShapeInv /\ [Next]_vars => ShapeInv'
<1> SUFFICES ASSUME IInv, ShapeInv, [Next]_vars PROVE ShapeInv'
  OBVIOUS
<1>1. ASSUME NEW c \in Command, Answer(c) \/ Lose(c) PROVE ShapeInv'
  <2>1. UNCHANGED <<pc, commands, verdicts>> /\ Live' = Live
    BY <1>1 DEF Answer, Lose, sender, Live
  <2>2. \A d \in Command : /\ OnWire(d)' => OnWire(d)
                           /\ ~(d \in requests /\ d \in answers) => ~(d \in requests' /\ d \in answers')
    BY <1>1 DEF Answer, Lose, OnWire
  <2> QED BY <2>1, <2>2, ShapeStays DEF ShapeInv, ShapeOf
<1>2. CASE UNCHANGED <<pc, commands, verdicts, requests, answers>>
  <2>1. Live' = Live /\ \A d \in Command : OnWire(d)' = OnWire(d)
    BY <1>2 DEF Live, OnWire
  <2> QED BY <1>2, <2>1, ShapeStays DEF ShapeInv, ShapeOf
<1>3. ASSUME NEW l \in Loop, Callback(l) PROVE ShapeInv'
  BY <1>2, <1>3 DEF Callback, sender, network
<1>4. CASE UNCHANGED vars
  BY <1>2, <1>4 DEF vars, sender, network
<1> QED
  BY <1>1, <1>3, <1>4, ShapeSender, ShapeHandler, ShapeTimer DEF Next, Timer

(* A callback is called once, or for a failed send and a time-out; only for *)
(* a command to a HAP, which enters the table twice, a second time with     *)
(* another answer, and never a fourth time.                                 *)
THEOREM VerdictsHaveShape == Spec => []VerdictShape
<1>1. Init => IInv /\ ShapeInv
  BY InvInit, ShapeInit
<1>2. IInv /\ ShapeInv /\ [Next]_vars => IInv' /\ ShapeInv'
  BY InvStep, ShapeStep
<1>3. IInv /\ ShapeInv => VerdictShape
  <2> SUFFICES ASSUME IInv, ShapeInv, NEW c \in Command
               PROVE  verdicts[c] \in
                        {<<>>, <<"Success">>, <<"Timeout">>, <<"SendFailed">>, <<"SendFailed", "Timeout">>}
                        \cup (IF Family[c] = "mid360" THEN {} ELSE {<<"Timeout", "SendFailed">>})
                        \cup (IF Family[c] = "hap"
                              THEN {<<"Success", "Timeout">>, <<"Timeout", "Success">>,
                                    <<"Timeout", "Timeout">>, <<"Timeout", "SendFailed", "Timeout">>,
                                    <<"SendFailed", "Timeout", "Timeout">>}
                              ELSE {})
    BY DEF VerdictShape
  <2>1. ShapeOf(c) /\ pc[c] \in {"idle", "add", "send", "readd", "done"}
    BY DEF ShapeInv, IInv, TypeOK
  <2>2. CASE c \in Live
    BY <2>1, <2>2 DEF ShapeOf, WaitingSays, Again
  <2>3. CASE c \notin Live
    BY <2>1, <2>3, FamilyAssumption
    DEF ShapeOf, GoneSays, SendingSays, AddingSays, EndSays, AddsFirst, AddsAfter
  <2> QED BY <2>2, <2>3
<1> QED BY <1>1, <1>2, <1>3, PTL DEF Spec
=============================================================================
