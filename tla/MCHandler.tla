------------------------------ MODULE MCHandler ------------------------------
(* Two small machines of the handler thread for TLC, side by side: the      *)
(* queue it takes its callbacks from (CallbackQueue), and the records of    *)
(* what clients publish (ClientPublications).  A behaviour is about one of  *)
(* them, and the other one stays where it started.                          *)
EXTENDS CallbackQueue

CONSTANTS Conn, Channel

VARIABLES con, clients, adv, known, pub, bknown, bpub, early, refused, dropped,
          hpc, hc, first,
          about   \* which of the two the behaviour is about

Publications == INSTANCE ClientPublications

publicationVars == <<con, clients, adv, known, pub, bknown, bpub, early, refused,
                     dropped, hpc, hc, first>>

MCInit ==
    /\ Init /\ Publications!Init
    /\ about \in {"queue", "publications"}

MCNext ==
    \/ about = "queue" /\ Next /\ UNCHANGED <<about, publicationVars>>
    \/ about = "publications" /\ Publications!Next /\ UNCHANGED <<about, vars>>

(* The fairness of CallbackQueue. *)
MCSpec ==
    /\ MCInit /\ [][MCNext]_<<about, vars, publicationVars>>
    /\ \A w \in Worker : WF_vars(about = "queue" /\ Work(w))
    /\ WF_vars(about = "queue" /\ (StopNotify \/ StopJoin))

(* RecordsAgree of ClientPublications: the records of a client's channels  *)
(* in handle_advertise, handle_connection_closed and the bridge agree.     *)
RecordsAgree == Publications!RecordsAgree

(* NothingLeftBehind of ClientPublications: what handle_connection_closed  *)
(* leaves of a client.                                                     *)
NothingLeftBehind == Publications!NothingLeftBehind
=============================================================================
