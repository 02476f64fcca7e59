------------------------------- MODULE MCPot -------------------------------
(* Tries for TLC.                                                          *)
EXTENDS PotIteration, TLC

\* Values are only compared.
Symmetry == Permutations(Value)
=============================================================================
