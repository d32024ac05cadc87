------------------------------ MODULE MCAgent ------------------------------
(* Small instances of Agent for TLC: the inputs are interchangeable.       *)
EXTENDS Agent, TLC

InputSymmetry == Permutations(Inputs)
=============================================================================
