---------------------------- MODULE MCChatSession ----------------------------
(* Small instances of ChatSession for TLC.                                 *)
EXTENDS ChatSession, TLC

CONSTANT p1

OneServer == p1 :> 1
=============================================================================
