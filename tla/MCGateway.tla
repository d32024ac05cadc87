----------------------------- MODULE MCGateway -----------------------------
(* A small instance of Gateway for TLC: two requests that may be for one   *)
(* key or for two, and two teardowns.                                      *)
EXTENDS Gateway
CONSTANTS main, other, r1, r2, t1, t2
=============================================================================
