----------------------------- MODULE MCLifecycle -----------------------------
(***************************************************************************)
(* Small instance of Lifecycle.  c2 never asks for anything, so it stays a *)
(* connection without a login.  p1 is latched and reliable, p2 is best     *)
(* effort.  Each budget is a scenario: the union of them is explored.      *)
(***************************************************************************)
EXTENDS Lifecycle

CONSTANTS c1, c2, p1, p2

MCProfile ==
    (p1 :> [reliable |-> TRUE, transient |-> TRUE, depth |-> 1])
    @@ (p2 :> [reliable |-> FALSE, transient |-> FALSE, depth |-> 1])

Running(m, n, r, P) ==
    [messages |-> m, notices |-> n, requests |-> r, pubs |-> P, conns |-> {c1},
     shutdown |-> FALSE]

Ending(n, r) ==
    [messages |-> 0, notices |-> n, requests |-> r, pubs |-> {}, conns |-> Conn,
     shutdown |-> TRUE]

MCBudgets ==
    {Running(3, 0, 2, Pub), Running(1, 0, 4, {p1}), Running(1, 2, 2, {p2}),
     Ending(0, 2), Ending(1, 1)}
=============================================================================
