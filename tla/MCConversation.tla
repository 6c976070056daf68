--------------------------- MODULE MCConversation ---------------------------
(* A small instance of Conversation for TLC: its constants are in the .cfg. *)
EXTENDS Conversation
=============================================================================
