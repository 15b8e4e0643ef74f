--------------------------- MODULE ChannelSessions ---------------------------
(***************************************************************************)
(* Client sessions, channels and subscriptions: the websocket server       *)
(* (websocket_server.hpp) together with the ROS 2 bridge that drives it     *)
(* (ros2_bridge.cpp).                                                       *)
(*                                                                         *)
(* Three threads run here.                                                 *)
(*  - The network (ASIO) thread opens and closes connections.              *)
(*  - The handler thread, the single worker of _handler_callback_queue,    *)
(*    runs client messages and connection closes one after the other.      *)
(*  - The poll thread, rosgraph_poll_thread, follows the ROS graph and     *)
(*    adds and removes channels.                                           *)
(* A step is what a thread does in one critical section.  The poll thread  *)
(* keeps the bridge's _subscriptions_mutex over several sections; the      *)
(* handler's calls into the bridge wait for it (BridgeMutexFree).          *)
(*                                                                         *)
(* A request carries a list of items.  The list is not stored: the handler *)
(* takes one arbitrary item after another until it ends the request, which *)
(* covers the lists of every length.                                       *)
(***************************************************************************)
EXTENDS Naturals, Functions

CONSTANTS
    Conn,          \* connection handles, each used by one connection
    Topic,         \* ROS topics, a name together with its datatype
    BadTopics,     \* topics whose message definition lookup throws
    SubId,         \* subscription ids, chosen by clients
    None,          \* no connection, no topic, no subscription id
    MaxId,         \* bound on the channel ids
    MaxChanges,    \* bound on the changes of the ROS graph
    DistinctIds,   \* TRUE: no request names a subscription id twice
    QueryMayFail   \* TRUE: get_topic_names_and_types may throw

ASSUME SessionConstants ==
    /\ BadTopics \subseteq Topic
    /\ None \notin Conn \cup Topic \cup SubId
    /\ MaxId \in Nat
    /\ MaxChanges \in Nat
    /\ DistinctIds \in BOOLEAN
    /\ QueryMayFail \in BOOLEAN

ChannelId == 1..MaxId
Subscriptions == [ChannelId -> SubId \cup {None}]
NoSubscriptions == [ch \in ChannelId |-> None]

VARIABLES
    con,         \* state of each connection object
    closeq,      \* connections whose close callback is queued
    clients,     \* handles in _clients
    login,       \* those of them whose ClientInfo.login is set
    subs,        \* subscriptions_by_channel of each client
    channels,    \* ids in _channels
    nextId,      \* _next_channel_id
    topic,       \* the topic each channel id was created for
    advertised,  \* ids in the bridge's _advertised_topics
    bsubs,       \* the bridge's _subscriptions, a set of handles per channel
    view,        \* the channels each client was told of and not told to drop
    ros,         \* the visible topics of the ROS graph
    changes,     \* number of changes of the ROS graph so far
    event,       \* graph_event is set
    ppc,         \* where the poll thread is
    latest,      \* its latest_topics
    gone,        \* its channel_ids_to_remove
    fresh,       \* ids its add_channels call has just assigned
    failed,      \* history: its last query threw
    hpc,         \* where the handler thread is
    hc,          \* the connection it serves
    hsnap,       \* its copy of that client's subscriptions_by_channel
    hchans,      \* its copy of _channels, during a login
    hch,         \* the channel of the item it works on
    hsub,        \* the subscription id of that item
    hids         \* the ids the request has named so far

connVars == <<con, closeq, view>>
sessionVars == <<clients, login>>
channelVars == <<channels, nextId, topic>>
bridgeVars == <<advertised, bsubs>>
graphVars == <<ros, changes, event>>
pollVars == <<ppc, latest, gone, fresh, failed>>
handlerVars == <<hpc, hc, hsnap, hchans, hch, hsub, hids>>
vars == <<con, closeq, view, clients, login, subs, channels, nextId, topic,
          advertised, bsubs, ros, changes, event, ppc, latest, gone, fresh,
          failed, hpc, hc, hsnap, hchans, hch, hsub, hids>>

Init ==
    /\ con = [c \in Conn |-> "new"]
    /\ closeq = {}
    /\ view = [c \in Conn |-> {}]
    /\ clients = {}
    /\ login = {}
    /\ subs = [c \in Conn |-> NoSubscriptions]
    /\ channels = {}
    /\ nextId = 0
    /\ topic = [ch \in ChannelId |-> None]
    /\ advertised = {}
    /\ bsubs = [ch \in ChannelId |-> {}]
    /\ ros \in SUBSET Topic
    /\ changes = 0
    /\ event = TRUE
    /\ ppc = "waiting"
    /\ latest = {}
    /\ gone = {}
    /\ fresh = {}
    /\ failed = FALSE
    /\ hpc = "idle"
    /\ hc = None
    /\ hsnap = NoSubscriptions
    /\ hchans = {}
    /\ hch = 0
    /\ hsub = None
    /\ hids = {}

-----------------------------------------------------------------------------
(* The network thread. *)

(* handle_connection_opened: the greeting it sends changes no state here. *)
Connect(c) ==
    /\ con[c] = "new"
    /\ con' = [con EXCEPT ![c] = "open"]
    /\ UNCHANGED <<closeq, view, sessionVars, subs, channelVars, bridgeVars,
                   graphVars, pollVars, handlerVars>>

(* The connection ends; the close handler queues handle_connection_closed. *)
Disconnect(c) ==
    /\ con[c] = "open"
    /\ con' = [con EXCEPT ![c] = "closed"]
    /\ closeq' = closeq \cup {c}
    /\ view' = [view EXCEPT ![c] = {}]
    /\ UNCHANGED <<sessionVars, subs, channelVars, bridgeVars, graphVars,
                   pollVars, handlerVars>>

(* The last reference to the connection object goes: get_con_from_hdl      *)
(* throws for its handle from here on.                                     *)
Expire(c) ==
    /\ con[c] = "closed"
    /\ con' = [con EXCEPT ![c] = "expired"]
    /\ UNCHANGED <<closeq, view, sessionVars, subs, channelVars, bridgeVars,
                   graphVars, pollVars, handlerVars>>

-----------------------------------------------------------------------------
(* The ROS graph and the poll thread. *)

(* Another node creates or drops a topic; rclcpp sets the graph event. *)
GraphChange(t) ==
    /\ changes < MaxChanges
    /\ changes' = changes + 1
    /\ ros' = IF t \in ros THEN ros \ {t} ELSE ros \cup {t}
    /\ event' = TRUE
    /\ UNCHANGED <<connVars, sessionVars, subs, channelVars, bridgeVars,
                   pollVars, handlerVars>>

(* The poll thread holds _subscriptions_mutex from PollRemove to           *)
(* PollAdvertise.                                                          *)
BridgeMutexFree == ppc \in {"waiting", "woken", "polled"}

(* wait_for_graph_change and check_and_clear. *)
PollWake ==
    /\ ppc = "waiting"
    /\ event
    /\ event' = FALSE
    /\ failed' = FALSE
    /\ ppc' = "woken"
    /\ UNCHANGED <<connVars, sessionVars, subs, channelVars, bridgeVars, ros,
                   changes, latest, gone, fresh, handlerVars>>

(* get_topic_names_and_types, filtered into latest_topics. *)
PollQuery ==
    /\ ppc = "woken"
    /\ latest' = ros
    /\ ppc' = "polled"
    /\ UNCHANGED <<connVars, sessionVars, subs, channelVars, bridgeVars,
                   graphVars, gone, fresh, failed, handlerVars>>

(* The query throws; the loop catches it and waits for the next event. *)
PollQueryThrows ==
    /\ QueryMayFail
    /\ ppc = "woken"
    /\ ppc' = "waiting"
    /\ failed' = TRUE
    /\ UNCHANGED <<connVars, sessionVars, subs, channelVars, bridgeVars,
                   graphVars, latest, gone, fresh, handlerVars>>

(* Channels of topics that are gone leave the bridge's tables and, in the  *)
(* first half of remove_channels, the server's _channels.                  *)
Vanished == {ch \in advertised : topic[ch] \notin latest}

(* Mutant of PollRemove: the ROS subscriptions of a lost channel stay. *)
PollRemoveKeepsSubscriptions ==
    /\ ppc = "polled"
    /\ gone' = Vanished
    /\ advertised' = advertised \ Vanished
    /\ channels' = channels \ Vanished
    /\ ppc' = "unadvertise"
    /\ UNCHANGED <<connVars, sessionVars, subs, nextId, topic, bsubs,
                   graphVars, latest, fresh, failed, handlerVars>>

PollRemove ==
    /\ ppc = "polled"
    /\ gone' = Vanished
    /\ advertised' = advertised \ Vanished
    /\ bsubs' = [ch \in ChannelId |->
                   IF ch \in Vanished THEN {} ELSE bsubs[ch]]
    /\ channels' = channels \ Vanished
    /\ ppc' = "unadvertise"
    /\ UNCHANGED <<connVars, sessionVars, subs, nextId, topic, graphVars,
                   latest, fresh, failed, handlerVars>>

(* The clients a broadcast reaches. *)
Reachable == {c \in clients : con[c] = "open"}

(* Mutant of PollUnadvertise: kicked clients are not told. *)
PollUnadvertiseToLogin ==
    /\ ppc = "unadvertise"
    /\ subs' = [c \in Conn |-> [ch \in ChannelId |->
                  IF c \in clients /\ ch \in gone THEN None ELSE subs[c][ch]]]
    /\ view' = [c \in Conn |->
                  IF c \in Reachable \cap login THEN view[c] \ gone
                                                ELSE view[c]]
    /\ gone' = {}
    /\ ppc' = "add"
    /\ UNCHANGED <<con, closeq, sessionVars, channelVars, bridgeVars,
                   graphVars, latest, fresh, failed, handlerVars>>

(* The second half of remove_channels, under _clients_mutex. *)
PollUnadvertise ==
    /\ ppc = "unadvertise"
    /\ subs' = [c \in Conn |-> [ch \in ChannelId |->
                  IF c \in clients /\ ch \in gone THEN None ELSE subs[c][ch]]]
    /\ view' = [c \in Conn |->
                  IF c \in Reachable THEN view[c] \ gone ELSE view[c]]
    /\ gone' = {}
    /\ ppc' = "add"
    /\ UNCHANGED <<con, closeq, sessionVars, channelVars, bridgeVars,
                   graphVars, latest, fresh, failed, handlerVars>>

(* Topics without a channel; a failed definition lookup skips the topic. *)
TopicsToAdd == (latest \ {topic[ch] : ch \in advertised}) \ BadTopics

(* The first half of add_channels: one new id for each new topic. *)
PollAdd ==
    /\ ppc = "add"
    /\ \E n \in nextId..MaxId :
         \E new \in Bijection((nextId + 1)..n, TopicsToAdd) :
           /\ nextId' = n
           /\ fresh' = (nextId + 1)..n
           /\ channels' = channels \cup fresh'
           /\ topic' = [ch \in ChannelId |->
                          IF ch \in fresh' THEN new[ch] ELSE topic[ch]]
    /\ ppc' = "advertise"
    /\ UNCHANGED <<connVars, sessionVars, subs, bridgeVars, graphVars, latest,
                   gone, failed, handlerVars>>

(* Mutant of PollAdvertise: kicked clients are not told. *)
PollAdvertiseToLogin ==
    /\ ppc = "advertise"
    /\ view' = [c \in Conn |->
                  IF c \in Reachable \cap login THEN view[c] \cup fresh
                                                ELSE view[c]]
    /\ advertised' = advertised \cup fresh
    /\ fresh' = {}
    /\ latest' = {}
    /\ ppc' = "waiting"
    /\ UNCHANGED <<con, closeq, sessionVars, subs, channelVars, bsubs,
                   graphVars, gone, failed, handlerVars>>

(* Mutant of PollAdvertise: the event is cleared after the update. *)
PollAdvertiseThenClear ==
    /\ ppc = "advertise"
    /\ view' = [c \in Conn |->
                  IF c \in Reachable THEN view[c] \cup fresh ELSE view[c]]
    /\ advertised' = advertised \cup fresh
    /\ fresh' = {}
    /\ latest' = {}
    /\ event' = FALSE
    /\ ppc' = "waiting"
    /\ UNCHANGED <<con, closeq, sessionVars, subs, channelVars, bsubs, ros,
                   changes, gone, failed, handlerVars>>

(* The second half of add_channels, then _advertised_topics. *)
PollAdvertise ==
    /\ ppc = "advertise"
    /\ view' = [c \in Conn |->
                  IF c \in Reachable THEN view[c] \cup fresh ELSE view[c]]
    /\ advertised' = advertised \cup fresh
    /\ fresh' = {}
    /\ latest' = {}
    /\ ppc' = "waiting"
    /\ UNCHANGED <<con, closeq, sessionVars, subs, channelVars, bsubs,
                   graphVars, gone, failed, handlerVars>>

-----------------------------------------------------------------------------
(* The handler thread. *)

(* The idle handler thread takes a message of c off its queue: c sent it   *)
(* before it closed, and its close callback is queued behind the message.  *)
Receives(c) ==
    /\ hpc = "idle"
    /\ con[c] = "open" \/ c \in closeq

(* The request is over, served or aborted by an exception. *)
EndRequest ==
    /\ hpc' = "idle"
    /\ hc' = None
    /\ hsnap' = NoSubscriptions
    /\ hchans' = {}
    /\ hch' = 0
    /\ hsub' = None
    /\ hids' = {}

(* Mutant of Login: nobody is kicked. *)
LoginWithoutKick(c) ==
    /\ Receives(c)
    /\ login' = login \cup {c}
    /\ clients' = clients \cup {c}
    /\ hpc' = "login_info"
    /\ hc' = c
    /\ UNCHANGED <<connVars, subs, channelVars, bridgeVars, graphVars,
                   pollVars, hsnap, hchans, hch, hsub, hids>>

(* handle_login, under _clients_mutex: every client present is kicked, the *)
(* newcomer enters _clients unless it is there already (emplace).          *)
Login(c) ==
    /\ Receives(c)
    /\ \A d \in clients : con[d] # "expired"
    /\ login' = IF c \in clients THEN {} ELSE {c}
    /\ clients' = clients \cup {c}
    /\ hpc' = "login_info"
    /\ hc' = c
    /\ UNCHANGED <<connVars, subs, channelVars, bridgeVars, graphVars,
                   pollVars, hsnap, hchans, hch, hsub, hids>>

(* get_con_from_hdl throws for a client whose object is gone; the clients  *)
(* the loop met before it stay kicked, the newcomer is not stored.         *)
LoginThrows(c) ==
    /\ Receives(c)
    /\ \E d \in clients : con[d] = "expired"
    /\ \E kicked \in SUBSET {d \in clients : con[d] # "expired"} :
         login' = login \ kicked
    /\ UNCHANGED <<connVars, clients, subs, channelVars, bridgeVars, graphVars,
                   pollVars, handlerVars>>

(* serverInfo is sent and _channels copied, if the connection still exists. *)
LoginInfo ==
    /\ hpc = "login_info"
    /\ IF con[hc] = "expired"
         THEN EndRequest
         ELSE /\ hchans' = channels
              /\ hpc' = "login_send"
              /\ UNCHANGED <<hc, hsnap, hch, hsub, hids>>
    /\ UNCHANGED <<connVars, sessionVars, subs, channelVars, bridgeVars,
                   graphVars, pollVars>>

(* The copy is sent as one advertise message. *)
LoginAdvertise ==
    /\ hpc = "login_send"
    /\ view' = IF con[hc] = "open"
                 THEN [view EXCEPT ![hc] = @ \cup hchans]
                 ELSE view
    /\ EndRequest
    /\ UNCHANGED <<con, closeq, sessionVars, subs, channelVars, bridgeVars,
                   graphVars, pollVars>>

(* handle_subscribe and handle_unsubscribe copy the client's subscriptions *)
(* first; _clients.at throws for a client that is not logged in.           *)
BeginRequest(c, pc) ==
    /\ Receives(c)
    /\ c \in clients
    /\ hpc' = pc
    /\ hc' = c
    /\ hsnap' = subs[c]
    /\ UNCHANGED <<connVars, sessionVars, subs, channelVars, bridgeVars,
                   graphVars, pollVars, hchans, hch, hsub, hids>>

Subscribe(c) == BeginRequest(c, "subscribe")
Unsubscribe(c) == BeginRequest(c, "unsubscribe")

(* The ids a request may name next. *)
NextIds == IF DistinctIds THEN SubId \ hids ELSE SubId
Named(s) == IF DistinctIds THEN hids \cup {s} ELSE {}

(* One item of a subscribe request that passes both checks: the id is not  *)
(* in the copy, the channel is in _channels (read without its mutex).  An  *)
(* item that fails a check is skipped and changes nothing.                 *)
SubscribeItem ==
    /\ hpc = "subscribe"
    /\ \E s \in NextIds, ch \in channels :
         /\ \A k \in ChannelId : hsnap[k] # s
         /\ hsub' = s
         /\ hch' = ch
         /\ hids' = Named(s)
    /\ hpc' = "sub_call"
    /\ UNCHANGED <<connVars, sessionVars, subs, channelVars, bridgeVars,
                   graphVars, pollVars, hc, hsnap, hchans>>

(* The bridge's subscribe creates the ROS subscription. *)
SubscribeCall ==
    /\ hpc = "sub_call"
    /\ BridgeMutexFree
    /\ hch \in advertised
    /\ hc \notin bsubs[hch]
    /\ bsubs' = [bsubs EXCEPT ![hch] = @ \cup {hc}]
    /\ hpc' = "sub_store"
    /\ UNCHANGED <<connVars, sessionVars, subs, channelVars, advertised,
                   graphVars, pollVars, hc, hsnap, hchans, hch, hsub, hids>>

(* It throws for an unknown channel, for a client already subscribed, and  *)
(* when create_generic_subscription fails: the whole request ends.         *)
SubscribeCallThrows ==
    /\ hpc = "sub_call"
    /\ BridgeMutexFree
    /\ EndRequest
    /\ UNCHANGED <<connVars, sessionVars, subs, channelVars, bridgeVars,
                   graphVars, pollVars>>

(* The subscription is recorded, without overwriting (emplace). *)
SubscribeStore ==
    /\ hpc = "sub_store"
    /\ subs' = [subs EXCEPT ![hc][hch] = IF @ = None THEN hsub ELSE @]
    /\ hpc' = "subscribe"
    /\ hch' = 0
    /\ hsub' = None
    /\ UNCHANGED <<connVars, sessionVars, channelVars, bridgeVars, graphVars,
                   pollVars, hc, hsnap, hchans, hids>>

(* One item of an unsubscribe request that is found in the copy; an item   *)
(* that is not found is skipped.                                           *)
UnsubscribeItem ==
    /\ hpc = "unsubscribe"
    /\ \E s \in NextIds, ch \in ChannelId :
         /\ hsnap[ch] = s
         /\ hsub' = s
         /\ hch' = ch
         /\ hids' = Named(s)
    /\ hpc' = "unsub_call"
    /\ UNCHANGED <<connVars, sessionVars, subs, channelVars, bridgeVars,
                   graphVars, pollVars, hc, hsnap, hchans>>

(* The bridge knows the channel and a subscription of the client to it. *)
BridgeHas(c, ch) == ch \in advertised /\ c \in bsubs[ch]

(* The bridge's unsubscribe destroys the ROS subscription. *)
UnsubscribeCall ==
    /\ hpc = "unsub_call"
    /\ BridgeMutexFree
    /\ BridgeHas(hc, hch)
    /\ bsubs' = [bsubs EXCEPT ![hch] = @ \ {hc}]
    /\ hpc' = "unsub_erase"
    /\ UNCHANGED <<connVars, sessionVars, subs, channelVars, advertised,
                   graphVars, pollVars, hc, hsnap, hchans, hch, hsub, hids>>

(* It throws otherwise, and the request ends before the erase. *)
UnsubscribeCallThrows ==
    /\ hpc = "unsub_call"
    /\ BridgeMutexFree
    /\ ~BridgeHas(hc, hch)
    /\ EndRequest
    /\ UNCHANGED <<connVars, sessionVars, subs, channelVars, bridgeVars,
                   graphVars, pollVars>>

UnsubscribeErase ==
    /\ hpc = "unsub_erase"
    /\ subs' = [subs EXCEPT ![hc][hch] = None]
    /\ hpc' = "unsubscribe"
    /\ hch' = 0
    /\ hsub' = None
    /\ UNCHANGED <<connVars, sessionVars, channelVars, bridgeVars, graphVars,
                   pollVars, hc, hsnap, hchans, hids>>

(* The list of items is exhausted. *)
RequestDone ==
    /\ hpc \in {"subscribe", "unsubscribe"}
    /\ EndRequest
    /\ UNCHANGED <<connVars, sessionVars, subs, channelVars, bridgeVars,
                   graphVars, pollVars>>

(* handle_connection_closed: the client leaves _clients and its record is  *)
(* moved into local copies ...                                             *)
Close(c) ==
    /\ hpc = "idle"
    /\ c \in closeq
    /\ closeq' = closeq \ {c}
    /\ IF c \in clients
         THEN /\ clients' = clients \ {c}
              /\ login' = login \ {c}
              /\ hsnap' = subs[c]
              /\ subs' = [subs EXCEPT ![c] = NoSubscriptions]
              /\ hpc' = "close"
              /\ hc' = c
         ELSE UNCHANGED <<clients, login, hsnap, subs, hpc, hc>>
    /\ UNCHANGED <<con, view, channelVars, bridgeVars, graphVars, pollVars,
                   hchans, hch, hsub, hids>>

(* ... then every subscription in the copy is dropped from the bridge; its *)
(* exceptions are caught one by one.                                       *)
CloseUnsubscribe(ch) ==
    /\ hpc = "close"
    /\ hsnap[ch] # None
    /\ BridgeMutexFree
    /\ bsubs' = IF BridgeHas(hc, ch) THEN [bsubs EXCEPT ![ch] = @ \ {hc}]
                                     ELSE bsubs
    /\ hsnap' = [hsnap EXCEPT ![ch] = None]
    /\ UNCHANGED <<connVars, sessionVars, subs, channelVars, advertised,
                   graphVars, pollVars, hpc, hc, hchans, hch, hsub, hids>>

(* Mutant of CloseDone: an exception in one unsubscribe ends the close. *)
CloseDoneEarly ==
    /\ hpc = "close"
    /\ EndRequest
    /\ UNCHANGED <<connVars, sessionVars, subs, channelVars, bridgeVars,
                   graphVars, pollVars>>

CloseDone ==
    /\ hpc = "close"
    /\ hsnap = NoSubscriptions
    /\ EndRequest
    /\ UNCHANGED <<connVars, sessionVars, subs, channelVars, bridgeVars,
                   graphVars, pollVars>>

-----------------------------------------------------------------------------
Network == \E c \in Conn : Connect(c) \/ Disconnect(c) \/ Expire(c)

Poll ==
    \/ PollWake
    \/ PollQuery
    \/ PollQueryThrows
    \/ PollRemove
    \/ PollUnadvertise
    \/ PollAdd
    \/ PollAdvertise

Handler ==
    \/ \E c \in Conn : \/ Login(c)
                       \/ LoginThrows(c)
                       \/ Subscribe(c)
                       \/ Unsubscribe(c)
                       \/ Close(c)
    \/ LoginInfo
    \/ LoginAdvertise
    \/ SubscribeItem
    \/ SubscribeCall
    \/ SubscribeCallThrows
    \/ SubscribeStore
    \/ UnsubscribeItem
    \/ UnsubscribeCall
    \/ UnsubscribeCallThrows
    \/ UnsubscribeErase
    \/ RequestDone
    \/ \E ch \in ChannelId : CloseUnsubscribe(ch)
    \/ CloseDone

(* The bounded environment has nothing left to do, and both threads wait.  *)
(* Any other state without a step would be a deadlock.                     *)
Exhausted ==
    /\ \A c \in Conn : con[c] = "expired"
    /\ closeq = {}
    /\ changes = MaxChanges
    /\ ppc = "waiting" /\ ~event
    /\ hpc = "idle"
    /\ UNCHANGED vars

Next ==
    \/ Network
    \/ \E t \in Topic : GraphChange(t)
    \/ Poll
    \/ Handler
    \/ Exhausted

Spec == Init /\ [][Next]_vars

-----------------------------------------------------------------------------
(***************************************************************************)
(* Fairness.  The poll thread loops forever and only ever waits for the    *)
(* graph event.  The handler thread runs whatever is queued: each of its   *)
(* steps is taken, a request has finitely many items (RequestDone), and    *)
(* the first-in first-out queue gets to every close callback (Close).      *)
(***************************************************************************)
HandlerStep == Handler /\ hpc # "idle"

Fairness ==
    /\ WF_vars(Poll)
    /\ WF_vars(HandlerStep)
    /\ SF_vars(RequestDone)
    /\ \A c \in Conn : SF_vars(Close(c))

FairSpec == Spec /\ Fairness

-----------------------------------------------------------------------------
(* Every variable has the type of the field it stands for. *)
TypeOK ==
    /\ con \in [Conn -> {"new", "open", "closed", "expired"}]
    /\ closeq \subseteq Conn
    /\ view \in [Conn -> SUBSET ChannelId]
    /\ clients \subseteq Conn
    /\ login \subseteq clients
    /\ subs \in [Conn -> Subscriptions]
    /\ channels \subseteq ChannelId
    /\ nextId \in 0..MaxId
    /\ topic \in [ChannelId -> Topic \cup {None}]
    /\ advertised \subseteq ChannelId
    /\ bsubs \in [ChannelId -> SUBSET Conn]
    /\ ros \subseteq Topic
    /\ changes \in 0..MaxChanges
    /\ event \in BOOLEAN
    /\ ppc \in {"waiting", "woken", "polled", "unadvertise", "add",
                "advertise"}
    /\ latest \subseteq Topic
    /\ gone \subseteq ChannelId
    /\ fresh \subseteq ChannelId
    /\ failed \in BOOLEAN
    /\ hpc \in {"idle", "login_info", "login_send", "subscribe", "sub_call",
                "sub_store", "unsubscribe", "unsub_call", "unsub_erase",
                "close"}
    /\ hc \in Conn \cup {None}
    /\ hsnap \in Subscriptions
    /\ hchans \subseteq ChannelId
    /\ hch \in ChannelId \cup {0}
    /\ hsub \in SubId \cup {None}
    /\ hids \subseteq SubId

(* handle_login kicks whoever is logged in before it admits the newcomer,  *)
(* so at most one client is logged in, also when the kicking loop throws   *)
(* half way.                                                               *)
AtMostOneLogin == \A c, d \in login : c = d

(* A client that is logged in and not waiting for its first advertise      *)
(* message has been told of every channel: the copy of _channels taken by  *)
(* handle_login and the broadcasts of add_channels leave no gap, however   *)
(* the two threads interleave.                                             *)
ClientsKnowChannels ==
    \A c \in Reachable :
      (hc = c /\ hpc \in {"login_info", "login_send"})
        \/ channels \ fresh \subseteq view[c]

(* Between requests, and while no update of the channels is under way, the *)
(* server's subscriptions_by_channel and the bridge's _subscriptions list  *)
(* the same clients for every channel that exists.  In particular a client *)
(* whose close was handled has no ROS subscription left, so none leaks.    *)
SubscriptionsAgree ==
    (hpc = "idle" /\ BridgeMutexFree) =>
      \A ch \in ChannelId, c \in Conn :
        c \in bsubs[ch] <=>
          ch \in advertised /\ c \in clients /\ subs[c][ch] # None

(* _next_channel_id only counts up: an id never comes back after           *)
(* remove_channels and never changes its topic, so what a client or the    *)
(* handler thread still remembers of a removed channel can never be taken  *)
(* for a newer one.                                                        *)
ChannelIdsNotReused ==
    [][\A ch \in 1..nextId :
         /\ topic'[ch] = topic[ch]
         /\ ch \in channels' => ch \in channels]_vars

(* Once the ROS graph is stable, the server's channels become those of its *)
(* topics (but for the ones whose definition lookup throws) and stay so:   *)
(* check_and_clear comes before the query, so no change is lost.           *)
ChannelsFollowGraph ==
    <>[]({topic[ch] : ch \in channels} = ros \ BadTopics)

(* Exceptions in the poll thread included, the channels are those of the   *)
(* ROS graph whenever the thread has handled the last event, unless its    *)
(* last query threw: the event was cleared before, and nothing but the     *)
(* next change makes up for it.                                            *)
OnlyFailuresLeaveStale ==
    ppc = "waiting" /\ ~event /\ ~failed =>
      {topic[ch] : ch \in channels} = ros \ BadTopics

(* remove_channels tells every client of a channel that goes, so a client  *)
(* that still has one got it from handle_login, whose copy of _channels    *)
(* may be sent after the channel was removed.                              *)
Outdated(c) == IF c \in Reachable THEN view[c] \ (channels \cup gone) ELSE {}

OnlyLoginOutdates ==
    [][\A c \in Conn :
         Outdated(c)' \subseteq Outdated(c)
           \/ (hc = c /\ hpc = "login_send")]_vars

(* Every client that disconnects is eventually forgotten by the server and *)
(* by the bridge, whatever requests of its own or of others are queued.    *)
DepartedClientsForgotten ==
    \A c \in Conn :
      con[c] \in {"closed", "expired"} ~>
        (c \notin clients /\ \A ch \in ChannelId : c \notin bsubs[ch])

(* Protocol document: "After unsubscribing, the client may reuse the id."  *)
(* When handle_unsubscribe is done with an id that it found, no            *)
(* subscription of the client uses it any more.                            *)
UnsubscribedIdIsFree ==
    [][(/\ hpc \in {"unsub_call", "unsub_erase"}
        /\ hpc' \in {"idle", "unsubscribe"})
         => \A ch \in ChannelId : subs'[hc][ch] # hsub]_vars
=============================================================================
