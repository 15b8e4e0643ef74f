----------------------- MODULE ParameterSubscriptions -----------------------
(***************************************************************************)
(* Subscriptions to parameter updates.  The server (websocket_server.hpp)  *)
(* keeps the parameters each client asked for and tells the bridge of a    *)
(* parameter when its first subscriber comes and when its last one goes.   *)
(* The ROS 2 bridge (parameter_interface.cpp) keeps the parameters it      *)
(* follows node by node, and one ROS subscription per node.  The ROS 1     *)
(* bridge (ros1_bridge_nodelet.cpp) keeps nothing: it subscribes each      *)
(* parameter at the master, whose table is the one modelled.               *)
(*                                                                         *)
(* The handler thread serves requests and closes.  An executor thread runs *)
(* the callback of a parameter event; it reads the table of the bridge     *)
(* without the mutex the handler thread holds while it changes it.         *)
(***************************************************************************)
EXTENDS Naturals, Sequences

CONSTANTS
    Conn,         \* connection handles
    Param,        \* fully qualified parameter names
    NodeOf,       \* the node each belongs to
    White,        \* parameters that match the whitelist
    None,         \* no connection, node or parameter
    MaxChanges    \* bound on the changes of parameters

Node == {NodeOf[p] : p \in Param}
ParamsOf(n) == {p \in Param : NodeOf[p] = n}

ASSUME ParameterConstants ==
    /\ None \notin Conn \cup Param \cup Node
    /\ NodeOf \in [Param -> Node]
    /\ White \subseteq Param
    /\ MaxChanges \in Nat

VARIABLES
    ros1,      \* whether the bridge is the one for ROS 1
    con,       \* "open", "closed" (close callback queued) or "done"
    clients,   \* handles in _clients
    psubs,     \* _client_param_subscriptions
    entries,   \* nodes with an entry in _subscribed_params_by_node
    table,     \* the parameters in each entry
    rossubs,   \* nodes in _param_subscriptions_by_node
    refused,   \* parameters whose latest call to the ROS 1 master failed
    crashed,   \* an iterator past the end was erased
    changes,   \* number of parameter changes so far
    events,    \* per node, changes that wait for the executor
    epc,       \* where the event callback is
    eparam,    \* the parameter of the event it handles
    spoiled,   \* nodes left with an entry and no ROS subscription to match
    due,       \* per client, changes it was subscribed to and not told of
    hpc,       \* where the handler thread is
    hparams,   \* the parameters it is still to pass to the bridge
    hnodes,    \* nodes_to_subscribe
    astray     \* those of hparams its client unsubscribes without having
               \* subscribed them

clientVars == <<con, clients, psubs>>
bridgeVars == <<ros1, entries, table, rossubs, refused, crashed>>
eventVars == <<changes, events, epc, eparam, spoiled>>
handlerVars == <<hpc, hparams, hnodes, astray>>
vars == <<ros1, con, clients, psubs, entries, table, rossubs, refused, crashed,
          changes, events, epc, eparam, spoiled, due, hpc, hparams, hnodes,
          astray>>

Init ==
    /\ ros1 \in BOOLEAN
    /\ con = [c \in Conn |-> "open"]
    /\ clients = {}
    /\ psubs = [c \in Conn |-> {}]
    /\ entries = {}
    /\ table = [n \in Node |-> {}]
    /\ rossubs = {} /\ refused = {}
    /\ crashed = FALSE
    /\ changes = 0
    /\ events = [n \in Node |-> <<>>]
    /\ epc = "idle" /\ eparam = None
    /\ spoiled = {}
    /\ due = [c \in Conn |-> {}]
    /\ hpc = "idle" /\ hparams = {} /\ hnodes = {} /\ astray = {}

-----------------------------------------------------------------------------
(* The server. *)

(* is_parameter_subscribed *)
Subscribed(p, subs) == \E c \in Conn : p \in subs[c]

(* Nothing here asks whether the client has logged in. *)
Receives(c) == hpc = "idle" /\ con[c] # "done"

Login(c) ==
    /\ hpc = "idle" /\ con[c] # "done" /\ c \notin clients
    /\ clients' = clients \cup {c}
    /\ UNCHANGED <<con, psubs, bridgeVars, eventVars, due, handlerVars>>

(* handle_subscribe_parameter_updates: the bridge hears only of parameters *)
(* nobody has subscribed yet.                                              *)
Subscribe(c, ps) ==
    /\ Receives(c)
    /\ psubs' = [psubs EXCEPT ![c] = @ \cup ps]
    /\ hparams' = {p \in ps : ~Subscribed(p, psubs)}
    /\ hpc' = IF hparams' = {} THEN "idle" ELSE "subscribe"
    /\ UNCHANGED <<con, clients, bridgeVars, eventVars, due, hnodes, astray>>

(* Mutant of Unsubscribe: other subscribers are not looked for. *)
UnsubscribeUnshared(c, ps) ==
    /\ Receives(c)
    /\ psubs' = [psubs EXCEPT ![c] = @ \ ps]
    /\ due' = [due EXCEPT ![c] = @ \ ps]
    /\ hparams' = ps
    /\ astray' = hparams' \ psubs[c]
    /\ hpc' = IF hparams' = {} THEN "idle" ELSE "unsubscribe"
    /\ UNCHANGED <<con, clients, bridgeVars, eventVars, hnodes>>

(* handle_unsubscribe_parameter_updates and                                *)
(* unsubscribe_params_without_subscriptions, which does not ask who had    *)
(* subscribed the parameters.                                              *)
Unsubscribe(c, ps) ==
    /\ Receives(c)
    /\ psubs' = [psubs EXCEPT ![c] = @ \ ps]
    /\ due' = [due EXCEPT ![c] = @ \ ps]
    /\ hparams' = {p \in ps : ~Subscribed(p, psubs')}
    /\ astray' = hparams' \ psubs[c]
    /\ hpc' = IF hparams' = {} THEN "idle" ELSE "unsubscribe"
    /\ UNCHANGED <<con, clients, bridgeVars, eventVars, hnodes>>

Disconnect(c) ==
    /\ con[c] = "open"
    /\ con' = [con EXCEPT ![c] = "closed"]
    /\ UNCHANGED <<clients, psubs, bridgeVars, eventVars, due, handlerVars>>

(* handle_connection_closed returns at once for a client not logged in. *)
Close(c) ==
    /\ hpc = "idle" /\ con[c] = "closed"
    /\ con' = [con EXCEPT ![c] = "done"]
    /\ clients' = clients \ {c}
    /\ due' = [due EXCEPT ![c] = {}]
    /\ IF c \in clients
         THEN /\ psubs' = [psubs EXCEPT ![c] = {}]
              /\ hparams' = {p \in psubs[c] : ~Subscribed(p, psubs')}
              /\ hpc' = IF hparams' = {} THEN "idle" ELSE "unsubscribe"
         ELSE UNCHANGED <<psubs, hparams, hpc>>
    /\ UNCHANGED <<bridgeVars, eventVars, hnodes, astray>>

-----------------------------------------------------------------------------
(* The bridge: subscribe_params and unsubscribe_params.                    *)

(* One parameter of the list; one off the whitelist ends the call. *)
SubscribeParam(p) ==
    /\ ~ros1 /\ hpc = "subscribe" /\ p \in hparams
    /\ IF p \in White
         THEN LET n == NodeOf[p] IN
              /\ entries' = entries \cup {n}
              /\ table' = [table EXCEPT ![n] = @ \cup {p}]
              /\ hnodes' = hnodes \cup ({n} \ entries)
              /\ hparams' = hparams \ {p}
              /\ hpc' = IF hparams' # {} THEN "subscribe"
                        ELSE IF hnodes' = {} THEN "idle" ELSE "listen"
              /\ UNCHANGED spoiled
         ELSE /\ hpc' = "idle" /\ hparams' = {} /\ hnodes' = {}
              /\ spoiled' = spoiled \cup hnodes \cup {NodeOf[q] : q \in hparams}
              /\ UNCHANGED <<entries, table>>
    /\ UNCHANGED <<ros1, clientVars, rossubs, refused, crashed, changes, events,
                   epc, eparam, due, astray>>

(* A ROS subscription for a node that is new in the table. *)
Listen(n) ==
    /\ hpc = "listen" /\ n \in hnodes
    /\ rossubs' = rossubs \cup {n}
    /\ hnodes' = hnodes \ {n}
    /\ hpc' = IF hnodes' = {} THEN "idle" ELSE "listen"
    /\ UNCHANGED <<ros1, clientVars, entries, table, refused, crashed, eventVars,
                   due, hparams, astray>>

(* The parameter client cannot be made, as for a node name that is not     *)
(* valid: the call ends and leaves the entries as they are.                *)
ListenThrows ==
    /\ hpc = "listen"
    /\ spoiled' = spoiled \cup hnodes
    /\ hnodes' = {}
    /\ hpc' = "idle"
    /\ UNCHANGED <<ros1, clientVars, entries, table, rossubs, refused, crashed,
                   changes, events, epc, eparam, due, hparams, astray>>

(* One parameter of the list.  Erasing the end iterator, of the node's     *)
(* parameters or of the ROS subscriptions, is undefined: the process dies. *)
UnsubscribeParam(p) ==
    /\ ~ros1 /\ hpc = "unsubscribe" /\ p \in hparams
    /\ hparams' = hparams \ {p}
    /\ hpc' = IF hparams' = {} THEN "idle" ELSE "unsubscribe"
    /\ LET n == NodeOf[p]
           last == table[n] \ {p} = {} IN
       IF n \in entries
         THEN /\ crashed' = (p \notin table[n] \/ (last /\ n \notin rossubs))
              /\ table' = [table EXCEPT ![n] = @ \ {p}]
              /\ entries' = IF last THEN entries \ {n} ELSE entries
              /\ rossubs' = IF last THEN rossubs \ {n} ELSE rossubs
              /\ events' = IF last THEN [events EXCEPT ![n] = <<>>] ELSE events
         ELSE UNCHANGED <<entries, table, rossubs, crashed, events>>
    /\ astray' = IF crashed' THEN astray ELSE astray \ {p}
    /\ UNCHANGED <<ros1, refused, clientVars, changes, epc, eparam, spoiled, due, hnodes>>

(* The ROS 1 bridge: one parameter of the list, skipped if it is off the   *)
(* whitelist.  When the master refuses, the rest of the list is still      *)
(* done, and the client gets an error; the server takes nothing back.      *)
Ros1SubscribeParam(p) ==
    LET n == NodeOf[p]
        master == IF hpc = "subscribe" THEN table[n] \cup {p} ELSE table[n] \ {p}
    IN  /\ ros1 /\ hpc \in {"subscribe", "unsubscribe"} /\ p \in hparams
        /\ hparams' = hparams \ {p} /\ astray' = astray \ {p}
        /\ hpc' = IF hparams' = {} THEN "idle" ELSE hpc
        /\ \/ p \notin White /\ UNCHANGED <<table, refused>>
           \/ /\ p \in White
              /\ table' = [table EXCEPT ![n] = master]
              /\ refused' = refused \ {p}
           \/ p \in White /\ refused' = refused \cup {p} /\ UNCHANGED table
        /\ UNCHANGED <<ros1, clientVars, entries, rossubs, crashed, eventVars, due, hnodes>>

-----------------------------------------------------------------------------
(* Parameter events. *)

Followed(p) ==
    p \in table[NodeOf[p]] /\ (ros1 \/ NodeOf[p] \in rossubs)

(* A parameter changes; ROS queues an event for the node's subscription, or *)
(* the master calls back.                                                   *)
ParamChange(p) ==
    /\ changes < MaxChanges
    /\ changes' = changes + 1
    /\ events' = IF Followed(p) \/ NodeOf[p] \in rossubs
                   THEN [events EXCEPT ![NodeOf[p]] = Append(@, p)]
                   ELSE events
    /\ due' = IF Followed(p)
                THEN [c \in Conn |-> IF con[c] = "open" /\ p \in psubs[c]
                                       THEN due[c] \cup {p} ELSE due[c]]
                ELSE due
    /\ UNCHANGED <<clientVars, bridgeVars, epc, eparam, spoiled, handlerVars>>

(* Mutant of EventTake: the queue keeps one event. *)
EventTakeOne(n) ==
    /\ epc = "idle" /\ events[n] # <<>>
    /\ eparam' = Head(events[n])
    /\ events' = [events EXCEPT ![n] = <<>>]
    /\ epc' = "read"
    /\ UNCHANGED <<clientVars, bridgeVars, changes, spoiled, due, handlerVars>>

(* The executor takes the next event of a subscription, whichever it finds *)
(* ready, and starts its callback.                                         *)
EventTake(n) ==
    /\ epc = "idle" /\ events[n] # <<>>
    /\ eparam' = Head(events[n])
    /\ events' = [events EXCEPT ![n] = Tail(@)]
    /\ epc' = "read"
    /\ UNCHANGED <<clientVars, bridgeVars, changes, spoiled, due, handlerVars>>

(* operator[] on the table creates the entry of a node that has none. *)
EventRead ==
    /\ ~ros1 /\ epc = "read"
    /\ LET n == NodeOf[eparam] IN
       /\ entries' = entries \cup {n}
       /\ spoiled' = spoiled \cup ({n} \ entries)
       /\ IF eparam \in table[n] THEN epc' = "send" /\ UNCHANGED eparam
                                 ELSE epc' = "idle" /\ eparam' = None
    /\ UNCHANGED <<ros1, clientVars, table, rossubs, refused, crashed, changes,
                   events, due, handlerVars>>

(* parameter_updates of the ROS 1 bridge passes on whatever comes. *)
Ros1Update ==
    /\ ros1 /\ epc = "read"
    /\ epc' = "send"
    /\ UNCHANGED <<clientVars, bridgeVars, changes, events, eparam, spoiled, due,
                   handlerVars>>

(* update_parameter_values *)
EventSend ==
    /\ epc = "send"
    /\ due' = [c \in Conn |-> IF eparam \in psubs[c] THEN due[c] \ {eparam}
                                                     ELSE due[c]]
    /\ epc' = "idle" /\ eparam' = None
    /\ UNCHANGED <<clientVars, bridgeVars, changes, events, spoiled,
                   handlerVars>>

-----------------------------------------------------------------------------
Handler ==
    \/ \E p \in Param : SubscribeParam(p) \/ UnsubscribeParam(p) \/ Ros1SubscribeParam(p)
    \/ \E n \in Node : Listen(n)
    \/ ListenThrows

Event ==
    \/ \E n \in Node : EventTake(n)
    \/ EventRead \/ Ros1Update \/ EventSend

Network ==
    \E c \in Conn :
      \/ Login(c) \/ Disconnect(c)
      \/ \E ps \in SUBSET Param : Subscribe(c, ps) \/ Unsubscribe(c, ps)

(* Every connection is gone, or the process is, and nothing is pending. *)
Exhausted ==
    /\ \/ crashed
       \/ (\A c \in Conn : con[c] = "done") /\ hpc = "idle"
    /\ UNCHANGED vars

Next ==
    \/ /\ ~crashed
       /\ \/ Network
          \/ \E c \in Conn : Close(c)
          \/ Handler
          \/ \E p \in Param : ParamChange(p)
          \/ Event
    \/ Exhausted

Spec == Init /\ [][Next]_vars

-----------------------------------------------------------------------------
(* Every variable has the type of the field it stands for. *)
TypeOK ==
    /\ con \in [Conn -> {"open", "closed", "done"}]
    /\ clients \subseteq Conn
    /\ psubs \in [Conn -> SUBSET Param]
    /\ entries \subseteq Node
    /\ table \in [Node -> SUBSET Param]
    /\ rossubs \subseteq Node /\ (ros1 => rossubs = {})
    /\ refused \subseteq Param
    /\ crashed \in BOOLEAN
    /\ changes \in 0..MaxChanges
    /\ events \in [Node -> Seq(Param)]
    /\ epc \in {"idle", "read", "send"}
    /\ eparam \in Param \cup {None}
    /\ spoiled \subseteq Node
    /\ due \in [Conn -> SUBSET Param]
    /\ hpc \in {"idle", "subscribe", "listen", "unsubscribe"}
    /\ hparams \subseteq Param
    /\ hnodes \subseteq Node
    /\ astray \subseteq Param

(* Server and bridge agree between two requests: the table holds only      *)
(* parameters some client subscribed, and each of those is followed unless *)
(* its node is spoiled: subscribe_params returned early at a parameter off *)
(* the whitelist or threw for a node it could not make a client for, or an *)
(* event callback put back the node's entry after unsubscribe_params had   *)
(* erased it.  An erase in unsubscribe_params hits the end iterator only   *)
(* after one of these, or when a client unsubscribes a parameter it has    *)
(* not subscribed.  In ROS 1 the exceptions are the parameters the master  *)
(* refused last and those off the whitelist: an error for one of them      *)
(* costs no other.                                                         *)
TablesAgree ==
    /\ TypeOK
    /\ hpc = "idle" /\ ~crashed =>
         \A p \in Param :
           /\ p \in table[NodeOf[p]] => Subscribed(p, psubs) \/ p \in refused
           /\ Subscribed(p, psubs) =>
                \/ Followed(p)
                \/ NodeOf[p] \in spoiled
                \/ ros1 /\ p \in refused \cup (Param \ White)
    /\ crashed => spoiled # {} \/ astray # {}
    /\ ros1 => spoiled = {}

(* No change of a followed parameter is lost on its way to a client that   *)
(* stays subscribed, whatever other clients subscribe, unsubscribe or      *)
(* close meanwhile: until update_parameter_values tells the client, the    *)
(* event waits for the executor or its callback runs.                      *)
ChangesReachSubscribers ==
    ~crashed =>
      \A c \in Conn : \A p \in due[c] :
        \/ eparam = p
        \/ \E i \in 1..Len(events[NodeOf[p]]) : events[NodeOf[p]][i] = p
=============================================================================
