--------------------------- MODULE MessageDelivery ---------------------------
(***************************************************************************)
(* The way of a message: a ROS publisher, the subscription the bridge made *)
(* for a client and its QoS, a thread of the executor in send_message, the *)
(* send queue of the connection, the client.  One channel.                 *)
(*                                                                         *)
(* Requests are run by the handler thread from a CallbackFifo; how logins, *)
(* channels and their tables interleave is the subject of ChannelSessions. *)
(***************************************************************************)
EXTENDS SendQueue, FiniteSets

CONSTANTS
    Conn,        \* connections
    Silent,      \* connections that never ask for anything
    Pub,         \* publishers of the topic
    Profile,     \* their QoS: reliable, transient, depth
    Exec,        \* threads of the executor
    SubId,       \* subscription ids
    None,        \* nothing
    MinDepth,    \* _min_qos_depth
    MaxDepth,    \* _max_qos_depth
    Budgets      \* bounds: messages, notices, requests, publishers, connections, shutdown

VARIABLES
    con,       \* state of each connection
    sendq,     \* m_send_queue
    writing,   \* m_current_msgs
    got,       \* what the client has read
    clients,   \* _clients
    subid,     \* subscriptions_by_channel of each client, for the channel
    rossub,    \* _subscriptions: the ROS subscription of each client
    pubs,      \* publishers that exist
    latched,   \* the message each transient publisher keeps
    inbox,     \* history of each ROS subscription
    exec,      \* what each executor thread is sending
    hq, hrun, hquit,   \* _handler_callback_queue
    stage,     \* the step of the callback that runs
    bound, used,       \* the bounds chosen and what is used of them
    made,      \* ROS subscriptions made for each client so far
    pushed,    \* reliable messages pushed for each connection, in order
    late,      \* messages sent under an id given up since it was
    overtaken  \* connections where a thread overtook one with an older message

netVars == <<con, sendq, writing, got>>
tableVars == <<clients, subid, rossub>>
rosVars == <<pubs, latched, inbox, exec>>
queueVars == <<hq, hrun, hquit, stage>>
histVars == <<made, pushed, late, overtaken>>
deliveryVars == <<netVars, tableVars, rosVars, queueVars, bound, used, histVars>>

(* The handler thread and its queue. *)
Request == [op : {"login", "subscribe", "unsubscribe", "close"},
            conn : Conn, id : SubId \cup {None}]

Handlers == INSTANCE CallbackFifo
    WITH Worker <- {"handler"}, Callback <- Request, None <- None,
         queue <- hq, running <- hrun, quit <- hquit

DeliveryInit ==
    /\ con = [c \in Conn |-> "none"]
    /\ sendq = [c \in Conn |-> <<>>] /\ writing = [c \in Conn |-> <<>>]
    /\ got = [c \in Conn |-> <<>>]
    /\ clients = {}
    /\ subid = [c \in Conn |-> None] /\ rossub = [c \in Conn |-> None]
    /\ bound \in Budgets /\ pubs \in SUBSET bound.pubs
    /\ latched = [p \in Pub |-> None]
    /\ inbox = [c \in Conn |-> <<>>]
    /\ exec = [e \in Exec |-> None]
    /\ Handlers!Init /\ stage = "first"
    /\ used = [messages |-> 0, notices |-> 0, requests |-> 0]
    /\ made = [c \in Conn |-> 0]
    /\ pushed = [c \in Conn |-> <<>>]
    /\ late = [c \in Conn |-> 0]
    /\ overtaken = {}

Spend(what) ==
    /\ used[what] < bound[what]
    /\ used' = [used EXCEPT ![what] = @ + 1]
    /\ UNCHANGED bound

-----------------------------------------------------------------------------
(* QoS of a new subscription, from the publishers there are. *)
Depth(p) == IF Profile[p].depth < 1 THEN 1 ELSE Profile[p].depth

(* Mutant of select_qos: the largest depth instead of the sum. *)
select_qos_largest(P) ==
    LET all == {Depth(p) : p \in P} \cup {MinDepth}
        least == CHOOSE d \in all : \A x \in all : x <= d
    IN  [depth |-> IF least > MaxDepth THEN MaxDepth ELSE least,
         reliable |-> \A p \in P : Profile[p].reliable,
         transient |-> \A p \in P : Profile[p].transient,
         known |-> P]

(* The depths add up, within the limits; reliable and transient local are  *)
(* asked for when every publisher offers them, also when there is none.    *)
select_qos(P) ==
    LET sum == MapThenSumSet(Depth, P)
        least == IF sum < MinDepth THEN MinDepth ELSE sum
    IN  [depth |-> IF least > MaxDepth THEN MaxDepth ELSE least,
         reliable |-> \A p \in P : Profile[p].reliable,
         transient |-> \A p \in P : Profile[p].transient,
         known |-> P]

(* The constants are of their types, and None is nothing else. *)
Message == [pub : Pub, n : Nat]

ASSUME DeliveryConstants ==
    /\ IsFiniteSet(Exec) /\ IsFiniteSet(Pub)
    /\ \A b \in Budgets : b.pubs \subseteq Pub
    /\ None \notin Nat
    /\ None \notin [conn : Conn, msg : Message, id : SubId \cup {None}, sub : Nat]
    /\ \A P \in SUBSET Pub : select_qos(P) # None

(* DDS connects a publisher with a subscription that asks for no more than *)
(* it offers, and keeps the last messages of a full history.               *)
Compatible(p, q) ==
    /\ q.reliable => Profile[p].reliable
    /\ q.transient => Profile[p].transient

KeepLast(s, depth) == IF Len(s) > depth THEN Tail(s) ELSE s

Latched(q) ==
    LET kept == {latched[p] : p \in {x \in pubs : latched[x] # None /\ Compatible(x, q)}}
    IN  CHOOSE s \in Bijection(1 .. Cardinality(kept), kept) : TRUE

PublisherJoins(p) ==
    /\ p \in bound.pubs \ pubs
    /\ pubs' = pubs \cup {p}
    /\ UNCHANGED <<netVars, tableVars, latched, inbox, exec, queueVars, bound, used, histVars>>

Publish(p) ==
    /\ p \in pubs
    /\ Spend("messages")
    /\ LET m == [pub |-> p, n |-> used.messages]
       IN  /\ latched' = IF Profile[p].transient THEN [latched EXCEPT ![p] = m] ELSE latched
           /\ inbox' = [c \in Conn |->
                 IF rossub[c] # None /\ Compatible(p, rossub[c])
                   THEN KeepLast(Append(inbox[c], m), rossub[c].depth) ELSE inbox[c]]
    /\ UNCHANGED <<netVars, tableVars, pubs, exec, queueVars, histVars>>

-----------------------------------------------------------------------------
(* ros_message_handler and send_message, on a thread of the executor.  The *)
(* callback group is reentrant: two messages of one subscription may be    *)
(* under way.  The message is taken without a lock, the id is read with    *)
(* the mutex, the message sent without it.                                 *)
Take(e, c) ==
    /\ exec[e] = None
    /\ inbox[c] # <<>>
    /\ inbox' = [inbox EXCEPT ![c] = Tail(@)]
    /\ exec' = [exec EXCEPT ![e] = [conn |-> c, msg |-> Head(inbox[c]), id |-> None,
                                    sub |-> made[c]]]
    /\ UNCHANGED <<netVars, tableVars, pubs, latched, queueVars, bound, used, histVars>>

(* Mutant of Lookup: the id is the one the subscription was made for. *)
LookupBound(e) ==
    LET x == exec[e]
    IN  /\ x # None /\ x.id = None
        /\ exec' = [exec EXCEPT ![e] =
              IF x.conn \in clients THEN [x EXCEPT !.id = CHOOSE s \in SubId : TRUE] ELSE None]
        /\ UNCHANGED <<netVars, tableVars, pubs, latched, inbox, queueVars, bound, used,
                       histVars>>

(* A message for a client that is gone or not subscribed is dropped. *)
Lookup(e) ==
    LET x == exec[e]
    IN  /\ x # None /\ x.id = None
        /\ exec' = [exec EXCEPT ![e] =
              IF x.conn \in clients /\ subid[x.conn] # None
                THEN [x EXCEPT !.id = subid[x.conn]] ELSE None]
        /\ UNCHANGED <<netVars, tableVars, pubs, latched, inbox, queueVars, bound, used,
                       histVars>>

(* A message is only pushed for an open connection. *)
Push(c, msg, reliable) ==
    sendq' = IF con[c] = "open"
               THEN [sendq EXCEPT ![c] = Append(@, Entry(msg, reliable))] ELSE sendq

Send(e) ==
    LET x == exec[e]
        older(f) == /\ exec[f] # None /\ exec[f].conn = x.conn /\ exec[f].sub = x.sub
                    /\ exec[f].msg.pub = x.msg.pub /\ exec[f].msg.n < x.msg.n
    IN  /\ x # None /\ x.id # None
        /\ Push(x.conn, [pub |-> x.msg.pub, n |-> x.msg.n, id |-> x.id, sub |-> x.sub], FALSE)
        /\ exec' = [exec EXCEPT ![e] = None]
        /\ late' = IF con[x.conn] = "open" /\ x.id # subid[x.conn]
                     THEN [late EXCEPT ![x.conn] = @ + 1] ELSE late
        /\ overtaken' = overtaken \cup {c \in {x.conn} : \E f \in Exec : older(f)}
        /\ UNCHANGED <<con, writing, got, tableVars, pubs, latched, inbox, queueVars,
                       bound, used, made, pushed>>

(* The server sends something else: JSON, a service or asset response, time. *)
Notice(c) ==
    /\ con[c] = "open"
    /\ Spend("notices")
    /\ Push(c, [n |-> used.notices], TRUE)
    /\ pushed' = [pushed EXCEPT ![c] = Append(@, [n |-> used.notices])]
    /\ UNCHANGED <<con, writing, got, tableVars, rosVars, queueVars, made, late, overtaken>>

-----------------------------------------------------------------------------
(* The network thread. *)
Open(c) ==
    /\ con[c] = "none" /\ c \in bound.conns
    /\ con' = [con EXCEPT ![c] = "open"]
    /\ UNCHANGED <<sendq, writing, got, tableVars, rosVars, queueVars, bound, used, histVars>>

(* A message of the client is queued for the handler thread. *)
Receive(r) ==
    /\ r.op # "close" /\ r.conn \notin Silent
    /\ (r.id = None) = (r.op = "login")
    /\ con[r.conn] = "open"
    /\ Spend("requests")
    /\ Handlers!Add(r)
    /\ UNCHANGED <<netVars, tableVars, rosVars, stage, histVars>>

(* The connection is down, whatever ended it: what was queued is lost, and  *)
(* the close handler queues a callback.                                     *)
Down(c) ==
    /\ con' = [con EXCEPT ![c] = "closed"]
    /\ sendq' = [sendq EXCEPT ![c] = <<>>]
    /\ writing' = [writing EXCEPT ![c] = <<>>]
    /\ Handlers!Add([op |-> "close", conn |-> c, id |-> None])
    /\ UNCHANGED <<got, tableVars, rosVars, stage, bound, used, histVars>>

Leave(c) == con[c] \in {"open", "closing"} /\ Down(c)

Ages(c) ==
    /\ \E k \in 1 .. Len(sendq[c]) :
         ~sendq[c][k].old /\ sendq' = [sendq EXCEPT ![c] = Aged(@, k)]
    /\ UNCHANGED <<con, writing, got, tableVars, rosVars, queueVars, bound, used, histVars>>

WriteFrame(c) ==
    /\ con[c] \in {"open", "closing"}
    /\ writing[c] = <<>> /\ sendq[c] # <<>>
    /\ \E n \in 1 .. Len(sendq[c]) :
         LET f == Frame(sendq[c], n)
         IN  /\ writing' = [writing EXCEPT ![c] = f.batch]
             /\ sendq' = [sendq EXCEPT ![c] = f.rest]
    /\ UNCHANGED <<con, got, tableVars, rosVars, queueVars, bound, used, histVars>>

(* handle_write_frame, once the client has read the frame. *)
Written(c) ==
    /\ writing[c] # <<>>
    /\ got' = [got EXCEPT ![c] = @ \o writing[c]]
    /\ writing' = [writing EXCEPT ![c] = <<>>]
    /\ UNCHANGED <<con, sendq, tableVars, rosVars, queueVars, bound, used, histVars>>

-----------------------------------------------------------------------------
(* The handler thread: a request that changes both tables takes two steps, *)
(* the call into the bridge and the change of _clients.                    *)
Runs(op, at) == hrun["handler"] # None /\ hrun["handler"].op = op /\ stage = at

Done == Handlers!End("handler") /\ stage' = "first"
Goes(at) == stage' = at /\ UNCHANGED <<hq, hrun, hquit>>

HandlerStart ==
    /\ Handlers!Start("handler")
    /\ UNCHANGED <<netVars, tableVars, rosVars, stage, bound, used, histVars>>

Login ==
    /\ Runs("login", "first")
    /\ clients' = clients \cup {hrun["handler"].conn}
    /\ Done
    /\ UNCHANGED <<netVars, subid, rossub, rosVars, bound, used, histVars>>

(* Ends early when the client is not logged in, uses the id already, or is *)
(* subscribed to the channel already, which makes the bridge throw.        *)
SubscribeCall ==
    LET c == hrun["handler"].conn
        q == select_qos(pubs)
    IN  /\ Runs("subscribe", "first")
        /\ IF c \notin clients \/ subid[c] = hrun["handler"].id \/ rossub[c] # None
             THEN Done /\ UNCHANGED <<rossub, inbox, made>>
             ELSE /\ rossub' = [rossub EXCEPT ![c] = q]
                  /\ made' = [made EXCEPT ![c] = @ + 1]
                  /\ inbox' = [inbox EXCEPT ![c] = IF q.transient THEN Latched(q) ELSE <<>>]
                  /\ Goes("second")
        /\ UNCHANGED <<netVars, clients, subid, pubs, latched, exec, bound, used,
                       pushed, late, overtaken>>

SetId(c, id) ==
    /\ subid' = [subid EXCEPT ![c] = id]
    /\ late' = [late EXCEPT ![c] = 0]

SubscribeStore ==
    /\ Runs("subscribe", "second")
    /\ SetId(hrun["handler"].conn, hrun["handler"].id)
    /\ Done
    /\ UNCHANGED <<netVars, clients, rossub, rosVars, bound, used, made, pushed, overtaken>>

(* Mutant of DropSubscription: the ROS subscription stays. *)
KeepSubscription(c) == UNCHANGED <<rossub, inbox>>

(* unsubscribe of the bridge: the ROS subscription and its history go. *)
DropSubscription(c) ==
    /\ rossub' = [rossub EXCEPT ![c] = None]
    /\ inbox' = [inbox EXCEPT ![c] = <<>>]

UnsubscribeCall ==
    LET c == hrun["handler"].conn
    IN  /\ Runs("unsubscribe", "first")
        /\ IF c \notin clients \/ subid[c] # hrun["handler"].id
             THEN Done /\ UNCHANGED <<rossub, inbox>>
             ELSE DropSubscription(c) /\ Goes("second")
        /\ UNCHANGED <<netVars, clients, subid, pubs, latched, exec, bound, used, histVars>>

UnsubscribeErase ==
    /\ Runs("unsubscribe", "second")
    /\ SetId(hrun["handler"].conn, None)
    /\ Done
    /\ UNCHANGED <<netVars, clients, rossub, rosVars, bound, used, made, pushed, overtaken>>

Close ==
    LET c == hrun["handler"].conn
    IN  /\ Runs("close", "first")
        /\ clients' = clients \ {c}
        /\ SetId(c, None)
        /\ IF subid[c] = None THEN Done ELSE Goes("second")
        /\ UNCHANGED <<netVars, rossub, rosVars, bound, used, made, pushed, overtaken>>

CloseUnsubscribe ==
    /\ Runs("close", "second")
    /\ DropSubscription(hrun["handler"].conn)
    /\ Done
    /\ UNCHANGED <<netVars, clients, subid, pubs, latched, exec, bound, used, histVars>>

Handle ==
    \/ HandlerStart \/ Login \/ SubscribeCall \/ SubscribeStore
    \/ UnsubscribeCall \/ UnsubscribeErase \/ Close \/ CloseUnsubscribe

-----------------------------------------------------------------------------
Way(c) == got[c] \o writing[c] \o sendq[c]

(* The messages of the reliable entries of a queue. *)
Reliable(q) ==
    LET upto[k \in 0 .. Len(q)] ==
            IF k = 0 THEN <<>>
            ELSE IF q[k].reliable THEN Append(upto[k - 1], q[k].msg)
            ELSE upto[k - 1]
    IN  upto[Len(q)]

(* What was sent as reliable arrives once and in order, however old it     *)
(* gets in the queue: nothing is missing while the connection lasts, nor   *)
(* from what a client has read that has read the close frame.              *)
ReliableKept ==
    \A c \in Conn :
        /\ con[c] \in {"open", "closing"} => Reliable(Way(c)) = pushed[c]
        /\ (\E x \in Range(got[c]) : x.msg.n = None) => Reliable(got[c]) = pushed[c]

(* The messages of one publisher reach a subscription in the order they    *)
(* were published: write_pop may skip some but moves none.  The only thing *)
(* that changes their order is a thread of the executor that overtakes     *)
(* another one between ros_message_handler and send, as the callback group *)
(* is reentrant.  A client that subscribes again gets a latched message    *)
(* again.                                                                  *)
OrderKept ==
    \A c \in Conn \ overtaken :
        LET way == Way(c)
            Data(i) == ~way[i].reliable
        IN  \A i, j \in 1 .. Len(way) :
                /\ i < j /\ Data(i) /\ Data(j)
                /\ way[i].msg.pub = way[j].msg.pub /\ way[i].msg.sub = way[j].msg.sub
                => way[i].msg.n < way[j].msg.n

(* send_message reads the id with the mutex and sends without it: after an *)
(* unsubscribe a client may get messages with the old id, but no more than *)
(* there are threads in the executor.                                      *)
LateMessagesBounded == \A c \in Conn : late[c] <= Cardinality(Exec)

(* The QoS asked for fits every publisher there was when the client        *)
(* subscribed, however they differ, so that each one is received; and as   *)
(* the depths were added up, a full history loses no message while each of *)
(* them stays within the depth it offers, unless the limit of the depth    *)
(* was reached or a publisher came later.                                  *)
KnownPublishersHeard ==
    [][\A c \in Conn :
         LET q == rossub'[c]
             full == inbox[c] \o <<inbox'[c][Len(inbox'[c])]>>
             of(p) == SelectSeq(full, LAMBDA m : m.pub = p)
         IN  q # None =>
               /\ \A p \in q.known : Compatible(p, q)
               /\ q = rossub[c] /\ inbox[c] # inbox'[c] /\ Len(inbox[c]) = Len(inbox'[c])
                    => \/ q.depth = MaxDepth
                       \/ \E i \in 1 .. Len(full) : full[i].pub \notin q.known
                       \/ \E p \in q.known : Len(of(p)) > Depth(p)]_deliveryVars

(* A message a thread has taken is dropped for want of a subscription id   *)
(* only if the client has no ROS subscription any more by then, or while   *)
(* the handler thread is between its two steps for that client: such as a  *)
(* latched message that arrives before the id is stored.                   *)
DroppedOnlyMidway ==
    [][\A e \in Exec :
         exec[e] # None /\ exec[e].id = None /\ exec'[e] = None =>
           LET c == exec[e].conn
           IN  rossub[c] = None \/ (stage = "second" /\ hrun["handler"].conn = c)]_deliveryVars
=============================================================================
