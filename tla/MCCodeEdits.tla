---------------------------- MODULE MCCodeEdits ----------------------------
(* CodeEdits on a few chats, files and lines. *)
EXTENDS CodeEdits, TLC
=============================================================================
