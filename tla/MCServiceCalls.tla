--------------------------- MODULE MCServiceCalls ---------------------------
(* Instances of ServiceCalls for TLC. *)
EXTENDS ServiceCalls, TLC

Symmetry == Permutations(Call) \cup Permutations(Conn)
=============================================================================
