--------------------------- MODULE MCChatExchange ---------------------------
(* Small instances of ChatExchange. *)
EXTENDS ChatExchange, TLC
=============================================================================
