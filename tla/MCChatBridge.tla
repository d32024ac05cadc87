---------------------------- MODULE MCChatBridge ----------------------------
(* A small instance of ChatBridge: one sender writes on two adapters, a    *)
(* second one on a third.                                                  *)
EXTENDS ChatBridge
CONSTANTS k1, k2, k3

SenderOf == [k \in Keys |-> IF k = k2 THEN k1 ELSE k]
=============================================================================
