---------------------------- MODULE CallbackFifo ----------------------------
(***************************************************************************)
(* What CallbackQueue promises its users: callbacks start in the order in  *)
(* which they were added, each worker runs one at a time, and until the    *)
(* queue is stopped every callback is started and every worker that runs   *)
(* one gets to its end.  Websocket messages and closes are handled in      *)
(* order because of it.                                                    *)
(***************************************************************************)
EXTENDS Sequences

CONSTANTS Worker, Callback, None

VARIABLES
    queue,     \* callbacks added and not started
    running,   \* what each worker runs
    quit       \* the queue was told to stop

fifoVars == <<queue, running, quit>>

Init ==
    /\ queue = <<>>
    /\ running = [w \in Worker |-> None]
    /\ quit = FALSE

Add(cb) == queue' = Append(queue, cb) /\ UNCHANGED <<running, quit>>

Start(w) ==
    /\ queue # <<>>
    /\ running[w] = None
    /\ running' = [running EXCEPT ![w] = Head(queue)]
    /\ queue' = Tail(queue)
    /\ UNCHANGED quit

End(w) ==
    /\ running[w] # None
    /\ running' = [running EXCEPT ![w] = None]
    /\ UNCHANGED <<queue, quit>>

Stop == quit' = TRUE /\ UNCHANGED <<queue, running>>

Next ==
    \/ \E cb \in Callback : Add(cb)
    \/ \E w \in Worker : Start(w) \/ End(w)
    \/ Stop

Spec == Init /\ [][Next]_fifoVars

(* A worker that runs a callback ends it; some worker starts the next one. *)
FairSpec ==
    /\ Spec
    /\ \A w \in Worker : WF_fifoVars(End(w))
    /\ WF_fifoVars(~quit /\ \E w \in Worker : Start(w))
=============================================================================
