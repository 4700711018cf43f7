------------------------------ MODULE MCServer ------------------------------
(* Instances of Server for TLC: connections are interchangeable.            *)
EXTENDS Server, TLC

Symmetry == Permutations(Conn)
=============================================================================
