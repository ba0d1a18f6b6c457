--------------------------- MODULE CommandPromise ---------------------------
(***************************************************************************)
(* What a caller of the command interface of the SDK may expect: every     *)
(* issued command gets at most one final verdict, Success only if the      *)
(* lidar answered that very command, and at most one SendFailed, after     *)
(* which it is never successful.  (That a verdict comes is a liveness      *)
(* property of CommandTable.)                                              *)
(***************************************************************************)
EXTENDS Naturals, Sequences

CONSTANT Command      \* the commands issued

VARIABLES issued,     \* the commands handed to the SDK
          answered,   \* those the lidar has answered
          verdicts    \* what the callback of each was called with, in order

promiseVars == <<issued, answered, verdicts>>

Has(c, s) == \E i \in DOMAIN verdicts[c] : verdicts[c][i] = s
Final(c)  == Has(c, "Success") \/ Has(c, "Timeout")
Add(c, s) == verdicts' = [verdicts EXCEPT ![c] = Append(@, s)]

PromiseInit == /\ issued = {} /\ answered = {}
               /\ verdicts = [c \in Command |-> <<>>]

Issue(c) == /\ c \notin issued
            /\ issued' = issued \cup {c}
            /\ UNCHANGED <<answered, verdicts>>

(* A command that could not be sent is not answered. *)
Answer(c) == /\ c \in issued /\ ~Has(c, "SendFailed")
             /\ answered' = answered \cup {c}
             /\ UNCHANGED <<issued, verdicts>>

FailToSend(c) == /\ c \in issued \ answered /\ ~Has(c, "SendFailed")
                 /\ Add(c, "SendFailed")
                 /\ UNCHANGED <<issued, answered>>

Succeed(c) == /\ c \in answered /\ ~Final(c)
              /\ Add(c, "Success")
              /\ UNCHANGED <<issued, answered>>

(* The commands of a set time out together. *)
Expire(E) == /\ E \subseteq issued /\ \A c \in E : ~Final(c)
             /\ verdicts' = [c \in Command |-> IF c \in E
                                               THEN Append(verdicts[c], "Timeout")
                                               ELSE verdicts[c]]
             /\ UNCHANGED <<issued, answered>>

PromiseNext == \/ \E c \in Command : Issue(c) \/ Answer(c) \/ FailToSend(c) \/ Succeed(c)
               \/ \E E \in SUBSET Command : Expire(E)

PromiseSpec == PromiseInit /\ [][PromiseNext]_promiseVars
=============================================================================
