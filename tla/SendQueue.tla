------------------------------ MODULE SendQueue ------------------------------
(***************************************************************************)
(* The send queue of a websocket connection, as the patch of websocketpp   *)
(* leaves it (connection_impl_hpp-fix.patch).  An entry is a message, its  *)
(* reliable flag and whether it looks old: pushed 100 ms ago or more, or   *)
(* with a time stamp in the future, whose difference wraps around.         *)
(***************************************************************************)
EXTENDS Naturals, Sequences, FiniteSetsExt, Functions, TLC

Entry(msg, reliable) == [msg |-> msg, reliable |-> reliable, old |-> FALSE]

Fresh(x) == x.reliable \/ ~x.old

(* Mutant of write_pop: the reliable flag is not looked at. *)
write_pop_any(q) ==
    LET kept == {i \in 1 .. Len(q) : ~q[i].old}
        i == IF kept = {} THEN Len(q) ELSE CHOOSE k \in kept : \A j \in kept : k <= j
    IN  [next |-> q[i], rest |-> SubSeq(q, i + 1, Len(q))]

(* Mutant of write_pop: the messages skipped go back to the queue. *)
write_pop_again(q) ==
    LET kept == {i \in 1 .. Len(q) : Fresh(q[i])}
        i == IF kept = {} THEN Len(q) ELSE CHOOSE k \in kept : \A j \in kept : k <= j
    IN  [next |-> q[i], rest |-> SubSeq(q, i + 1, Len(q)) \o SubSeq(q, 1, i - 1)]

(* Old messages are skipped until one is reliable or not old; when none is,  *)
(* the last one skipped is returned all the same.  q is not empty.           *)
write_pop(q) ==
    LET kept == {i \in 1 .. Len(q) : Fresh(q[i])}
        i == IF kept = {} THEN Len(q) ELSE CHOOSE k \in kept : \A j \in kept : k <= j
    IN  [next |-> q[i], rest |-> SubSeq(q, i + 1, Len(q))]

(* write_frame: messages are popped until the queue is empty or their size  *)
(* exceeds the limit, here after n of them.                                 *)
Frame(q, n) ==
    LET Pop(f) ==
            IF f.rest = <<>> THEN f
            ELSE LET p == write_pop(f.rest)
                 IN  [batch |-> Append(f.batch, p.next), rest |-> p.rest]
        popped[k \in 0 .. n] ==
            IF k = 0 THEN [batch |-> <<>>, rest |-> q] ELSE Pop(popped[k - 1])
    IN  popped[n]

(* The k oldest entries of the queue have become old. *)
Aged(q, k) == [i \in 1 .. Len(q) |-> IF i <= k THEN [q[i] EXCEPT !.old = TRUE] ELSE q[i]]
=============================================================================
