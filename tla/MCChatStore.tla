---------------------------- MODULE MCChatStore ----------------------------
(* ChatStore on one or two windows and a few chats. *)
EXTENDS ChatStore, TLC

WindowSymmetry == Permutations(Windows)
=============================================================================
