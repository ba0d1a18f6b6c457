-------------------------- MODULE MCFrameAssembly --------------------------
(***************************************************************************)
(* An instance of FrameAssembly for TLC: a lidar that gains                 *)
(* synchronisation after its first packet, and one that never has it.  The *)
(* interval is two ticks, so four packets make two synchronised frames.    *)
(***************************************************************************)
EXTENDS FrameAssembly

GainsSync == <<{FALSE}, {TRUE}, {TRUE}, {TRUE}>>
NeverSync == <<{FALSE}>>

OneOfEach == [l \in Lidar |-> IF l = 1 THEN GainsSync ELSE NeverSync]
=============================================================================
