----------------------------- MODULE MCCompaction -----------------------------
(* Small instances of Compaction: a tool result may be as long as the      *)
(* budget, everything else is shorter.                                     *)
EXTENDS Compaction

SizesOf == [kind \in Messages |-> IF kind = "toolResult" THEN {1, 2} ELSE {1}]
=============================================================================
