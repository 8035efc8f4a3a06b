-------------------------------- MODULE MCMap --------------------------------
(* TecMap for TLC: addresses, keys and values are interchangeable.         *)
EXTENDS TecMap, TLC

Symmetry == Permutations(Nodes) \cup Permutations(Keys) \cup Permutations(Values)
===============================================================================
