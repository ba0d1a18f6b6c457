-------------------------- MODULE MCLogCollection --------------------------
(***************************************************************************)
(* Instance of LogCollection for TLC: a file with two packets of data and   *)
(* one without.                                                            *)
(***************************************************************************)
EXTENDS LogCollection

MCLastTrans == [f \in {0, 1} |-> IF f = 0 THEN 3 ELSE 1]
============================================================================
