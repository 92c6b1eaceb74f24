---------------------------- MODULE MCTerminals ----------------------------
(* Terminals for model checking. *)
EXTENDS Terminals, TLC
=============================================================================
