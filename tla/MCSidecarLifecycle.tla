------------------------- MODULE MCSidecarLifecycle -------------------------
(* SidecarLifecycle with two tasks at a time. *)
EXTENDS SidecarLifecycle, TLC
=============================================================================
