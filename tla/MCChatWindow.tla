---------------------------- MODULE MCChatWindow ----------------------------
(***************************************************************************)
(* The instances of MCSimpleChat, with the windows of the clients.         *)
(***************************************************************************)
EXTENDS MCSimpleChat, ChatWindow
=============================================================================
