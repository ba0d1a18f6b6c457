---------------------------- MODULE CommandTable ----------------------------
(***************************************************************************)
(* The request/acknowledge layer of the SDK: GeneralCommandHandler keeps   *)
(* the commands that wait for an acknowledgement in commands_, keyed by    *)
(* sequence number; any thread sends, the IO loops take answers from the   *)
(* sockets (Handler) and expire old entries (CommandsHandle, from the      *)
(* timer of every loop).  The order of AddCommand and sendto depends on    *)
(* how and to which lidar a command is sent:                               *)
(*   port    SendCommand(command, port):  AddCommand, sendto               *)
(*   mid360  general SendCommand to a Mid360, Mid360s or Avia2:            *)
(*           sendto, AddCommand                                            *)
(*   hap     general SendCommand to a HAP:  AddCommand, sendto, AddCommand *)
(* Time is abstracted: an entry may expire at any moment after it was      *)
(* added.  The network may delay, lose and reorder messages.               *)
(***************************************************************************)
EXTENDS Naturals, Sequences

CONSTANTS
  Command,       \* the commands sent, one call of SendCommand each
  NoCommand,     \* no entry in the table
  SeqMax,        \* UINT16_MAX: sequence numbers are 1..SeqMax
  Loop,          \* the IO threads
  Family,        \* how each command is sent
  SendMayFail    \* may sendto return an error?

ASSUME CommandAssumption == NoCommand \notin Command
ASSUME SeqMaxAssumption == SeqMax \in Nat \ {0}
ASSUME FamilyAssumption == Family \in [Command -> {"port", "mid360", "hap"}]

VARIABLES
  last_seq,      \* the static counter of GenerateSeq
  seq,           \* the number each command carries (0: none yet)
  pc,            \* where the thread that sends a command is
  commands,      \* commands_
  requests,      \* commands on their way to the lidar
  answers,       \* acknowledgements on their way back
  todo,          \* per loop: callbacks decided under the lock, not yet called
  answered,      \* history: commands the lidar answered
  verdicts,      \* history: statuses decided for each command, in order
  received       \* history: answers a loop read before a Timeout was decided

sender  == <<last_seq, seq, pc>>
network == <<requests, answers, answered>>
vars    == <<sender, commands, network, todo, verdicts, received>>

Status == {"Success", "Timeout", "SendFailed"}
Seqs   == 1..SeqMax

AddsFirst(c) == Family[c] # "mid360"    \* AddCommand in the lidar's handler
AddsAfter(c) == Family[c] # "port"      \* AddCommand in GeneralCommandHandler

(* Was the callback of c called with status s? *)
Said(c, s) == \E i \in DOMAIN verdicts[c] : verdicts[c][i] = s

(* A command whose sequence number is still of use to somebody. *)
InUse(c) == \/ pc[c] \in {"add", "send", "readd"}
            \/ c \in requests \cup answers
            \/ seq[c] \in Seqs /\ commands[seq[c]] = c

Init ==
  /\ last_seq = 1
  /\ seq = [c \in Command |-> 0] /\ pc = [c \in Command |-> "idle"]
  /\ commands = [s \in Seqs |-> NoCommand]
  /\ requests = {} /\ answers = {}
  /\ todo = [l \in Loop |-> {}]
  /\ answered = {} /\ verdicts = [c \in Command |-> <<>>] /\ received = {}
-----------------------------------------------------------------------------
(* The thread that sends.                                                   *)

NextSeq == IF last_seq = SeqMax THEN 1 ELSE last_seq + 1

Take(c, s) ==
  /\ seq' = [seq EXCEPT ![c] = s] /\ last_seq' = s
  /\ pc' = [pc EXCEPT ![c] = IF AddsFirst(c) THEN "add" ELSE "send"]
  /\ UNCHANGED <<commands, network, todo, verdicts, received>>

(* Mutants: the counter is not advanced, or does not wrap. *)
GetSeq_Stuck(c)  == pc[c] = "idle" /\ Take(c, last_seq)
(* GetSeq, one compare-and-exchange.  The guard is an assumption about the  *)
(* environment: SeqMax (65535) numbers are not consumed while one of them   *)
(* is still in use, which takes about a second.                             *)
GetSeq(c) ==
  /\ pc[c] = "idle"
  /\ \A d \in Command : InUse(d) => seq[d] # NextSeq
  /\ Take(c, NextSeq)

(* Mutant: a command is not entered in the table. *)
AddCommand_Nothing(c) ==
  /\ pc[c] \in {"add", "readd"}
  /\ pc' = [pc EXCEPT ![c] = IF @ = "add" THEN "send" ELSE "done"]
  /\ UNCHANGED <<last_seq, seq, commands, network, todo, verdicts, received>>

(* AddCommand overwrites whatever entry the number has.                     *)
AddCommand(c) ==
  /\ pc[c] \in {"add", "readd"}
  /\ commands' = [commands EXCEPT ![seq[c]] = c]
  /\ pc' = [pc EXCEPT ![c] = IF @ = "add" THEN "send" ELSE "done"]
  /\ UNCHANGED <<last_seq, seq, network, todo, verdicts, received>>

AfterSend(c) == IF AddsAfter(c) THEN "readd" ELSE "done"

SendTo(c) ==
  /\ pc[c] = "send"
  /\ requests' = requests \cup {c}
  /\ pc' = [pc EXCEPT ![c] = AfterSend(c)]
  /\ UNCHANGED <<last_seq, seq, commands, answers, answered, todo, verdicts, received>>

(* sendto fails: the callback is called at once, on the sending thread; the *)
(* command is in the table, or enters it afterwards, all the same.          *)
SendFailed(c) ==
  /\ SendMayFail /\ pc[c] = "send"
  /\ verdicts' = [verdicts EXCEPT ![c] = Append(@, "SendFailed")]
  /\ pc' = [pc EXCEPT ![c] = AfterSend(c)]
  /\ UNCHANGED <<last_seq, seq, commands, network, todo, received>>

Sender(c) == GetSeq(c) \/ AddCommand(c) \/ SendTo(c) \/ SendFailed(c)
-----------------------------------------------------------------------------
(* The lidar and the network.                                               *)

Answer(c) ==
  /\ c \in requests
  /\ requests' = requests \ {c} /\ answers' = answers \cup {c}
  /\ answered' = answered \cup {c}
  /\ UNCHANGED <<sender, commands, todo, verdicts, received>>

Lose(c) ==
  /\ c \in requests \cup answers
  /\ requests' = requests \ {c} /\ answers' = answers \ {c}
  /\ UNCHANGED <<sender, commands, answered, todo, verdicts, received>>
-----------------------------------------------------------------------------
(* The IO loops.                                                            *)

(* A loop reads the answer to c.                                            *)
Receive(c) ==
  /\ answers' = answers \ {c}
  /\ received' = IF Said(c, "Timeout") THEN received ELSE received \cup {c}
  /\ UNCHANGED <<requests, answered, sender>>

Found(l, d) ==
  /\ verdicts' = [verdicts EXCEPT ![d] = Append(@, "Success")]
  /\ todo' = [todo EXCEPT ![l] = {<<d, "Success">>}]

(* Handler finds the command by the sequence number alone, erases the entry *)
(* under the lock and calls back after the lock was released; an answer     *)
(* without an entry is dropped.                                             *)
Handler(l, c) ==
  /\ todo[l] = {} /\ c \in answers
  /\ Receive(c)
  /\ IF commands[seq[c]] = NoCommand
     THEN UNCHANGED <<commands, todo, verdicts>>
     ELSE /\ Found(l, commands[seq[c]])
          /\ commands' = [commands EXCEPT ![seq[c]] = NoCommand]

Live == {c \in Command : \E s \in Seqs : commands[s] = c}

Expired(l, E) ==
  /\ verdicts' = [c \in Command |-> IF c \in E THEN Append(verdicts[c], "Timeout")
                                               ELSE verdicts[c]]
  /\ todo' = [todo EXCEPT ![l] = {<<c, "Timeout">> : c \in E}]
  /\ UNCHANGED <<sender, network, received>>

(* Mutant: expired entries are called back but not erased. *)
CommandsHandle_KeepsEntry(l, E) ==
  /\ todo[l] = {} /\ E # {} /\ \A c \in E : Len(verdicts[c]) < 3
  /\ Expired(l, E)
  /\ UNCHANGED commands

(* CommandsHandle takes the expired entries E out of the table under the    *)
(* lock and calls back after it.                                            *)
CommandsHandle(l, E) ==
  /\ todo[l] = {} /\ E # {}
  /\ Expired(l, E)
  /\ commands' = [s \in Seqs |-> IF commands[s] \in E THEN NoCommand ELSE commands[s]]

Callback(l) ==
  /\ \E v \in todo[l] : todo' = [todo EXCEPT ![l] = @ \ {v}]
  /\ UNCHANGED <<sender, commands, network, verdicts, received>>

Timer(l) == \E E \in SUBSET Live : CommandsHandle(l, E)

Next == \/ \E c \in Command : Sender(c) \/ Answer(c) \/ Lose(c)
        \/ \E l \in Loop : \/ \E c \in Command : Handler(l, c)
                           \/ Timer(l) \/ Callback(l)

Spec == Init /\ [][Next]_vars

(* Threads run, and every entry gets old enough to expire; nothing forces a *)
(* command to be issued, sendto to succeed or the lidar to answer.          *)
Fairness ==
  /\ \A c \in Command :
       /\ WF_vars(AddCommand(c) \/ SendTo(c) \/ SendFailed(c))
       /\ WF_vars(\E l \in Loop : \E E \in SUBSET Live : c \in E /\ CommandsHandle(l, E))
  /\ \A l \in Loop : WF_vars(Callback(l))

FairSpec == Spec /\ Fairness
-----------------------------------------------------------------------------
(* Every variable has its type.                                             *)
TypeOK ==
  /\ last_seq \in Seqs
  /\ seq \in [Command -> 0..SeqMax]
  /\ pc \in [Command -> {"idle", "add", "send", "readd", "done"}]
  /\ commands \in [Seqs -> Command \cup {NoCommand}]
  /\ requests \in SUBSET Command /\ answers \in SUBSET Command
  /\ answered \in SUBSET Command /\ received \in SUBSET Command
  /\ todo \in [Loop -> SUBSET (Command \X Status)]
  /\ verdicts \in [Command -> Seq(Status)]

(* Handler matches answers by sequence number only, and numbers are reused; *)
(* still a command is reported successful only if the lidar answered that   *)
(* command, never because of the answer to another one.                     *)
OwnAnswer == \A c \in Command : Said(c, "Success") => c \in answered

(* What the callback of a command must be ready for: one verdict, or        *)
(* SendFailed and a Timeout; of a command to a HAP also a second verdict,   *)
(* if it was answered or expired between its two entries in the table.      *)
VerdictShape ==
  \A c \in Command :
    verdicts[c] \in
      {<<>>, <<"Success">>, <<"Timeout">>, <<"SendFailed">>, <<"SendFailed", "Timeout">>}
      \cup (IF Family[c] = "mid360" THEN {} ELSE {<<"Timeout", "SendFailed">>})
      \cup (IF Family[c] = "hap"
            THEN {<<"Success", "Timeout">>, <<"Timeout", "Success">>,
                  <<"Timeout", "Timeout">>, <<"Timeout", "SendFailed", "Timeout">>,
                  <<"SendFailed", "Timeout", "Timeout">>}
            ELSE {})

(* An answer that a loop reads before the command timed out is never        *)
(* dropped for want of an entry, if the command entered the table before it *)
(* was sent: the command is reported successful.                            *)
AnswerCounts == \A c \in received : AddsFirst(c) => Said(c, "Success")

(* kLivoxLidarStatusTimeout, "Operation timeouts", is not reported for a    *)
(* command whose answer the SDK has already read.                           *)
TimeoutIsTrue ==
  [][\A c \in received :
       verdicts'[c] # verdicts[c] =>
         verdicts'[c][Len(verdicts'[c])] # "Timeout"]_vars

(* Whatever is lost, every command sent is called back in the end.          *)
CallbackComes ==
  \A c \in Command :
    pc[c] = "done" ~>
      /\ verdicts[c] # <<>>
      /\ \A l \in Loop : \A v \in todo[l] : v[1] # c

(* Commands sent by SendCommand with a port are promised one final verdict. *)
PortCommand == {c \in Command : Family[c] = "port"}
Promise == INSTANCE CommandPromise WITH
             Command  <- PortCommand,
             issued   <- {c \in PortCommand : pc[c] # "idle"},
             answered <- answered \cap PortCommand,
             verdicts <- [c \in PortCommand |-> verdicts[c]]
RefinesPromise == Promise!PromiseSpec
=============================================================================
