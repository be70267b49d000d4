---------------------------- MODULE MCChatServer ----------------------------
(* A small instance of ChatServer.                                          *)
EXTENDS ChatServer
=============================================================================
