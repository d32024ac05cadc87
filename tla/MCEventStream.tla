--------------------------- MODULE MCEventStream ---------------------------
(* A small instance of EventStream: interchangeable consumers.             *)
EXTENDS EventStream, TLC

Symmetry == Permutations(Consumers)
=============================================================================
