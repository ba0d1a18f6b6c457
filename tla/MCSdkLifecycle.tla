------------------------- MODULE MCSdkLifecycle -------------------------
(***************************************************************************)
(* Instance of SdkLifecycle for TLC: two sessions, so that the loops of    *)
(* the first meet the sockets of the second, and one socket that fails.    *)
(***************************************************************************)
EXTENDS SdkLifecycle
=============================================================================
