--------------------------- MODULE MCChatMessages ---------------------------
(* A small instance of ChatMessages.                                       *)
EXTENDS ChatMessages
=============================================================================
