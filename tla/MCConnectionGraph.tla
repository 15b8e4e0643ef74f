------------------------- MODULE MCConnectionGraph -------------------------
(* ConnectionGraph for TLC: clients are symmetric. *)
EXTENDS ConnectionGraph, TLC

Symmetry == Permutations(Conn)
=============================================================================
