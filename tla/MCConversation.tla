---------------------------- MODULE MCConversation ----------------------------
(* Two handlers.  Liveness is checked with them, so the slots are not      *)
(* declared symmetric.                                                     *)
EXTENDS Conversation
=============================================================================
