------------------------ MODULE MCParameterRequests ------------------------
(***************************************************************************)
(* Small instance of ParameterExchange: a1 and a2 belong to node na, b1 to *)
(* nb, s1 to the bridge itself, x1 to a node nx that cannot exist; a2 is   *)
(* off the whitelist, b1 read-only.                                        *)
(***************************************************************************)
EXTENDS ParameterExchange, TLC

CONSTANTS a1, a2, b1, s1, x1, na, nb, ns, nx

MCNodeOf == (a1 :> na) @@ (a2 :> na) @@ (b1 :> nb) @@ (s1 :> ns) @@ (x1 :> nx)
MCStart == [p \in Param |-> IF p = x1 THEN Unset ELSE 0]

Get(S) == [op |-> "get", names |-> S, changes |-> <<>>, withId |-> TRUE]
Set(cs, id) == [op |-> "set", names |-> {}, changes |-> cs, withId |-> id]
To(p, v) == [param |-> p, value |-> v]

MCRequests == {
    Get({}), Get({a1, b1}), Get({a2, s1}), Get({a1, x1}),
    Set(<<To(a1, 1), To(b1, 1)>>, TRUE), Set(<<To(a1, 3), To(a1, 2)>>, TRUE),
    Set(<<To(s1, 1), To(a2, 1)>>, TRUE), Set(<<To(a1, Unset)>>, FALSE),
    Set(<<To(s1, 1), To(a1, Bad)>>, TRUE), Set(<<>>, TRUE), Set(<<To(a1, 1), To(x1, 1)>>, TRUE)}
=============================================================================
