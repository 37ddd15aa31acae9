---------------------------- MODULE StackLinksMC ---------------------------
(***************************************************************************)
(* A small instance of StackLinks for TLC.                                 *)
(***************************************************************************)
EXTENDS StackLinks, QueueCommands
=============================================================================
