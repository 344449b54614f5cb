------------------------------ MODULE MCAgent ------------------------------
(* Instance of Agent for TLC: the two nodes are interchangeable.           *)
EXTENDS Agent, TLC

Interchangeable == Permutations(Node)
============================================================================
