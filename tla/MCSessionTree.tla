-------------------------- MODULE MCSessionTree --------------------------
(* Small instances of SessionTree for TLC.  File names are interchangeable. *)
EXTENDS SessionTree, TLC

FileSymmetry == Permutations(Files)
=============================================================================
