---------------------- MODULE MCParameterSubscriptions ----------------------
(* Instances of ParameterSubscriptions for TLC: p1 and p2 are parameters of *)
(* one node, p3 of another.                                                 *)
EXTENDS ParameterSubscriptions, TLC

CONSTANTS p1, p2, p3, n1, n2

MCNodeOf == [p \in Param |-> IF p = p3 THEN n2 ELSE n1]

Symmetry == Permutations(Conn) \cup Permutations({p1, p2})
=============================================================================
