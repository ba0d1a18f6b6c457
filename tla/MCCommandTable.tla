-------------------------- MODULE MCCommandTable --------------------------
(***************************************************************************)
(* Instances of CommandTable for TLC.  Three commands, one of each family, *)
(* share two sequence numbers: the counter wraps and a number is used      *)
(* again.  Two loops are enough for a timer and an answer, or two timers,  *)
(* to race.                                                                *)
(***************************************************************************)
EXTENDS CommandTable, TLC

CONSTANTS c1, c2, c3

OneOfEach     == {c1, c2, c3}
OneFamilyEach == c1 :> "port" @@ c2 :> "mid360" @@ c3 :> "hap"

ToMid360   == {c1, c2}
Mid360Only == [c \in ToMid360 |-> "mid360"]
=============================================================================
