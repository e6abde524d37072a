------------------------------- MODULE MCPep -------------------------------
(* Pep for TLC: connections are interchangeable in the safety runs.        *)
EXTENDS Pep, TLC

Symmetry == Permutations(Conns)
=============================================================================
