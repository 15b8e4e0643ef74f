--------------------------- MODULE ConnectionGraph ---------------------------
(***************************************************************************)
(* Subscriptions to the connection graph: who publishes, subscribes and    *)
(* serves what in the ROS graph.  The server (websocket_server.hpp) counts *)
(* the subscribers, the ROS 2 bridge (ros2_bridge.cpp) watches the graph   *)
(* while the count is positive, and the server sends the difference of two *)
(* graphs to the clients it has marked.                                    *)
(*                                                                         *)
(* The handler thread serves requests and closes, the poll thread follows  *)
(* the graph; both run update_connection_graph.  A graph gives each name   *)
(* the ids attached to it, or Absent; the three maps of the code (by topic *)
(* published, by topic subscribed, by service) are one map here.           *)
(***************************************************************************)
EXTENDS Integers

CONSTANTS
    Conn,         \* connection handles
    Name,         \* names of topics and services
    Ids,          \* sets of node ids a name can have
    Absent,       \* the name is not in the graph
    Keep,         \* a message does not mention the name
    None,         \* no connection
    MaxCount,     \* bound on subscription_count
    MaxChanges    \* bound on the changes of the ROS graph

ASSUME GraphConstants ==
    /\ None \notin Conn \cup {"poll", "handler"}
    /\ Absent \notin Ids /\ Keep \notin Ids /\ Absent # Keep
    /\ MaxCount \in Nat
    /\ MaxChanges \in Nat

Graph == [Name -> Ids \cup {Absent}]
NoGraph == [n \in Name |-> Absent]
Message == [Name -> Ids \cup {Absent, Keep}]
NoMessage == [n \in Name |-> Keep]

VARIABLES
    con,       \* "open", "closed" (close callback queued) or "done"
    clients,   \* handles in _clients
    flagged,   \* those with subscribed_to_connection_graph
    count,     \* _connection_graph.subscription_count
    wants,     \* the bridge's _subscribe_graph_updates
    graph,     \* the three maps of _connection_graph
    ros,       \* the ROS graph
    changes,   \* number of its changes so far
    event,     \* graph_event is set
    view,      \* what each client has been told of the graph
    ppc,       \* where the poll thread is
    pgraph,    \* the graph it has queried
    pmsg,      \* the message it is to send
    hpc,       \* where the handler thread is
    hc,        \* the connection it serves
    hgraph,    \* the graph it has queried
    hmsg,      \* the message it is to send
    older,     \* thread whose graph was queried before the other's, or None
    behind,    \* a query was lost, or its graph overwritten by an older one
    crossed    \* clients whose snapshot was crossed by an update

clientVars == <<clients, flagged>>
serverVars == <<count, wants, graph>>
rosVars == <<ros, changes, event>>
pollVars == <<ppc, pgraph, pmsg>>
handlerVars == <<hpc, hc, hgraph, hmsg>>
history == <<older, behind, crossed>>
vars == <<con, clients, flagged, view, count, wants, graph, ros,
          changes, event, ppc, pgraph, pmsg, hpc, hc, hgraph, hmsg, older,
          behind, crossed>>

Init ==
    /\ con = [c \in Conn |-> "open"]
    /\ clients = {} /\ flagged = {}
    /\ view = [c \in Conn |-> NoGraph]
    /\ count = 0
    /\ wants = FALSE
    /\ graph = NoGraph
    /\ ros \in Graph
    /\ changes = 0
    /\ event = TRUE
    /\ ppc = "waiting" /\ pgraph = NoGraph /\ pmsg = NoMessage
    /\ hpc = "idle" /\ hc = None /\ hgraph = NoGraph /\ hmsg = NoMessage
    /\ older = None /\ behind = FALSE /\ crossed = {}

(* Mutant of Diff: names that went away are not reported. *)
DiffWithoutRemovals(old, new) ==
    [n \in Name |-> IF new[n] \in {old[n], Absent} THEN Keep ELSE new[n]]

(* The message update_connection_graph builds: new and changed entries,    *)
(* and the names that went away.                                           *)
Diff(old, new) == [n \in Name |-> IF old[n] = new[n] THEN Keep ELSE new[n]]

(* The message a new subscriber gets: every entry, no removals. *)
Snapshot(g) == [n \in Name |-> IF g[n] = Absent THEN Keep ELSE g[n]]

(* A client applies a message to what it knows. *)
Apply(msg, g) == [n \in Name |-> IF msg[n] = Keep THEN g[n] ELSE msg[n]]

(* Broadcast of a difference: marked clients only; sending to one whose    *)
(* connection is closed throws, and at most one is marked.                 *)
Receivers == {c \in flagged : con[c] = "open"}
Broadcast(msg) ==
    view' = [c \in Conn |->
               IF c \in Receivers THEN Apply(msg, view[c]) ELSE view[c]]

-----------------------------------------------------------------------------
(* The ROS graph and the poll thread. *)

GraphChange(n, v) ==
    /\ changes < MaxChanges
    /\ ros[n] # v
    /\ ros' = [ros EXCEPT ![n] = v]
    /\ changes' = changes + 1
    /\ event' = TRUE
    /\ UNCHANGED <<con, clientVars, serverVars, view, pollVars, handlerVars,
                   history>>

PollWake ==
    /\ ppc = "waiting" /\ event
    /\ event' = FALSE
    /\ ppc' = "woken"
    /\ UNCHANGED <<con, clientVars, serverVars, view, ros, changes, pgraph,
                   pmsg, handlerVars, history>>

(* Channels and services are updated; then, if somebody wants the graph,   *)
(* it is queried.                                                          *)
PollQuery ==
    /\ ppc = "woken"
    /\ \/ /\ wants
          /\ pgraph' = ros
          /\ ppc' = "store"
          /\ older' = IF hpc = "store" THEN "handler" ELSE None
          /\ behind' = FALSE
       \/ ~wants /\ ppc' = "waiting" /\ UNCHANGED <<pgraph, older, behind>>
    /\ UNCHANGED <<con, clientVars, serverVars, view, rosVars, pmsg,
                   handlerVars, crossed>>

(* The query throws; the loop catches it and waits for the next event. *)
PollQueryThrows ==
    /\ ppc = "woken" /\ wants
    /\ ppc' = "waiting"
    /\ behind' = TRUE
    /\ UNCHANGED <<con, clientVars, serverVars, view, rosVars, pgraph, pmsg,
                   handlerVars, older, crossed>>

(* update_connection_graph of the server, under _connection_graph_mutex. *)
PollStore ==
    /\ ppc = "store"
    /\ pmsg' = Diff(graph, pgraph)
    /\ graph' = pgraph
    /\ pgraph' = NoGraph
    /\ ppc' = "send"
    /\ behind' = (behind \/ (older = "poll" /\ hpc # "store"))
    /\ UNCHANGED <<con, clientVars, view, count, wants, rosVars, handlerVars,
                   older, crossed>>

PollSend ==
    /\ ppc = "send"
    /\ Broadcast(pmsg)
    /\ pmsg' = NoMessage
    /\ ppc' = "waiting"
    /\ crossed' = crossed \cup {c \in Receivers : hpc = "reply" /\ c = hc}
    /\ UNCHANGED <<con, clientVars, serverVars, rosVars, pgraph, handlerVars,
                   older, behind>>

-----------------------------------------------------------------------------
(* The handler thread. *)

(* Nothing makes a client log in before it sends a request. *)
Receives(c) == hpc = "idle" /\ con[c] # "done"

EndRequest ==
    hpc' = "idle" /\ hc' = None /\ hgraph' = NoGraph /\ hmsg' = NoMessage

Login(c) ==
    /\ hpc = "idle" /\ con[c] # "done"
    /\ clients' = clients \cup {c}
    /\ UNCHANGED <<con, flagged, serverVars, view, rosVars, pollVars,
                   handlerVars, history>>

(* handle_subscribe_connection_graph counts first; only the subscriber     *)
(* that brings the count to one goes on to the bridge and is marked.       *)
Subscribe(c) ==
    /\ Receives(c)
    /\ count < MaxCount
    /\ count' = count + 1
    /\ hc' = c
    /\ hpc' = IF count' = 1 THEN "watch" ELSE "copy"
    /\ UNCHANGED <<con, clientVars, wants, graph, view, rosVars, pollVars,
                   hgraph, hmsg, history>>

(* subscribe_connection_graph(true) of the bridge queries the graph; the   *)
(* query throws when a node goes away under it.                            *)
Watch ==
    /\ hpc = "watch"
    /\ wants' = TRUE
    /\ hgraph' = ros
    /\ hpc' = "store"
    /\ older' = IF ppc = "store" THEN "poll" ELSE None
    /\ behind' = FALSE
    /\ UNCHANGED <<con, clientVars, count, graph, view, rosVars, pollVars,
                   hc, hmsg, crossed>>

WatchThrows ==
    /\ hpc = "watch"
    /\ wants' = TRUE
    /\ EndRequest
    /\ UNCHANGED <<con, clientVars, count, graph, view, rosVars, pollVars,
                   history>>

WatchStore ==
    /\ hpc = "store"
    /\ hmsg' = Diff(graph, hgraph)
    /\ graph' = hgraph
    /\ hgraph' = NoGraph
    /\ hpc' = "send"
    /\ behind' = (behind \/ (older = "handler" /\ ppc # "store"))
    /\ UNCHANGED <<con, clientVars, count, wants, view, rosVars, pollVars,
                   hc, older, crossed>>

WatchSend ==
    /\ hpc = "send"
    /\ Broadcast(hmsg)
    /\ hmsg' = NoMessage
    /\ hpc' = "mark"
    /\ UNCHANGED <<con, clientVars, serverVars, rosVars, pollVars, hc,
                   hgraph, history>>

(* _clients.at throws for a client that is not logged in. *)
Mark ==
    /\ hpc = "mark"
    /\ IF hc \in clients
         THEN /\ flagged' = flagged \cup {hc}
              /\ hpc' = "copy"
              /\ UNCHANGED <<hc, hgraph, hmsg>>
         ELSE EndRequest /\ UNCHANGED flagged
    /\ crossed' = IF ppc = "send" THEN crossed \cup {hc} ELSE crossed
    /\ UNCHANGED <<con, clients, serverVars, view, rosVars, pollVars, older,
                   behind>>

Copy ==
    /\ hpc = "copy"
    /\ hmsg' = Snapshot(graph)
    /\ hpc' = "reply"
    /\ UNCHANGED <<con, clientVars, serverVars, view, rosVars, pollVars, hc,
                   hgraph, history>>

Reply ==
    /\ hpc = "reply"
    /\ view' = IF con[hc] = "open"
                 THEN [view EXCEPT ![hc] = Apply(hmsg, @)]
                 ELSE view
    /\ EndRequest
    /\ UNCHANGED <<con, clients, flagged, serverVars, rosVars, pollVars,
                   history>>

(* handle_unsubscribe_connection_graph; it throws for a client that is not *)
(* logged in and only reports one that is not marked.                      *)
Unsubscribe(c) ==
    /\ Receives(c)
    /\ c \in clients
    /\ flagged' = flagged \ {c}
    /\ view' = [view EXCEPT ![c] = NoGraph]
    /\ IF c \in flagged THEN hpc' = "uncount" /\ hc' = c
                        ELSE UNCHANGED <<hpc, hc>>
    /\ crossed' = crossed \ {c}
    /\ UNCHANGED <<con, clients, serverVars, rosVars, pollVars, hgraph, hmsg,
                   older, behind>>

(* Mutant of Uncount: the bridge stops watching whatever the count. *)
UncountStops ==
    /\ hpc = "uncount"
    /\ count' = count - 1
    /\ wants' = FALSE
    /\ EndRequest
    /\ UNCHANGED <<con, clientVars, graph, view, rosVars, pollVars, history>>

(* The end of handle_unsubscribe_connection_graph and of                   *)
(* handle_connection_closed.                                               *)
Uncount ==
    /\ hpc = "uncount"
    /\ count' = count - 1
    /\ wants' = IF count' = 0 THEN FALSE ELSE wants
    /\ EndRequest
    /\ UNCHANGED <<con, clientVars, graph, view, rosVars, pollVars, history>>

Disconnect(c) ==
    /\ con[c] = "open"
    /\ con' = [con EXCEPT ![c] = "closed"]
    /\ UNCHANGED <<clientVars, serverVars, view, rosVars, pollVars,
                   handlerVars, history>>

(* handle_connection_closed returns at once for a client not logged in. *)
Close(c) ==
    /\ hpc = "idle" /\ con[c] = "closed"
    /\ con' = [con EXCEPT ![c] = "done"]
    /\ clients' = clients \ {c}
    /\ flagged' = flagged \ {c}
    /\ view' = [view EXCEPT ![c] = NoGraph]
    /\ IF c \in flagged THEN hpc' = "uncount" /\ hc' = c
                        ELSE UNCHANGED <<hpc, hc>>
    /\ crossed' = crossed \ {c}
    /\ UNCHANGED <<serverVars, rosVars, pollVars, hgraph, hmsg, older,
                   behind>>

-----------------------------------------------------------------------------
Poll == PollWake \/ PollQuery \/ PollQueryThrows \/ PollStore \/ PollSend

HandlerStep ==
    \/ Watch \/ WatchThrows \/ WatchStore \/ WatchSend
    \/ Mark \/ Copy \/ Reply \/ Uncount

(* The bounded environment has nothing left to do, and both threads wait. *)
Exhausted ==
    /\ \A c \in Conn : con[c] = "done"
    /\ changes = MaxChanges /\ ppc = "waiting" /\ ~event /\ hpc = "idle"
    /\ UNCHANGED vars

Next ==
    \/ \E n \in Name, v \in Ids \cup {Absent} : GraphChange(n, v)
    \/ Poll
    \/ HandlerStep
    \/ \E c \in Conn : \/ Login(c)
                       \/ Subscribe(c)
                       \/ Unsubscribe(c)
                       \/ Disconnect(c)
                       \/ Close(c)
    \/ Exhausted

Spec == Init /\ [][Next]_vars

-----------------------------------------------------------------------------
(* Every variable has the type of the field it stands for. *)
TypeOK ==
    /\ con \in [Conn -> {"open", "closed", "done"}]
    /\ clients \subseteq Conn
    /\ flagged \subseteq clients
    /\ view \in [Conn -> Graph]
    /\ count \in 0..MaxCount
    /\ wants \in BOOLEAN
    /\ graph \in Graph
    /\ ros \in Graph
    /\ changes \in 0..MaxChanges
    /\ event \in BOOLEAN
    /\ ppc \in {"waiting", "woken", "store", "send"}
    /\ pgraph \in Graph
    /\ pmsg \in Message
    /\ hpc \in {"idle", "watch", "store", "send", "mark", "copy", "reply",
                "uncount"}
    /\ hc \in Conn \cup {None}
    /\ hgraph \in Graph
    /\ hmsg \in Message
    /\ older \in {"poll", "handler", None}
    /\ behind \in BOOLEAN
    /\ crossed \subseteq Conn

(* Only the subscriber that brings the count to one is marked: Broadcast   *)
(* has at most one client to send to.                                      *)
AtMostOneMarked == \A c, d \in flagged : c = d

(* The count and the mark of each client are changed in different critical *)
(* sections of handle_subscribe_connection_graph, its counterpart and      *)
(* handle_connection_closed, and the subscriber may fail between them.     *)
(* Even so the bridge watches the graph exactly while the count is         *)
(* positive, and it watches as long as some client is marked.  It may      *)
(* watch for nobody: a subscriber that is counted and not marked is never  *)
(* uncounted.                                                              *)
WatchedWhileCounted ==
    /\ hpc = "idle" => (wants <=> count > 0)
    /\ flagged # {} => wants /\ count > 0

(* subscribe_connection_graph and the poll thread query the graph, store   *)
(* it and send it in three steps each, under no common lock.  Even so,     *)
(* when the poll thread has handled the last event, a marked client has    *)
(* been told of the ROS graph, unless the last query threw or was          *)
(* overwritten by an older one, or an update crossed the snapshot of the   *)
(* client's subscription.                                                  *)
MarkedClientsCatchUp ==
    ppc = "waiting" /\ ~event /\ hpc = "idle" /\ ~behind
      => \A c \in flagged \ crossed : con[c] = "open" => view[c] = ros

(* "Subscribe to connection graph updates", the protocol document says of  *)
(* subscribeConnectionGraph: an update that the poll thread sends reaches  *)
(* every client that was sent the graph when it subscribed and has not     *)
(* unsubscribed.  handle_subscribe_connection_graph marks only the client  *)
(* that brings the count to one; others get the first message and no more. *)
UpdatesReachSubscribers ==
    [][ppc = "send" /\ ppc' = "waiting" =>
         \A c \in clients :
           con[c] = "open" /\ view[c] # NoGraph
             => view'[c] = Apply(pmsg, view[c])]_vars
=============================================================================
