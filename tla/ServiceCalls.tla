---------------------------- MODULE ServiceCalls ----------------------------
(***************************************************************************)
(* Services, their calls, and the fetching of assets, in the server        *)
(* (websocket_server.hpp), the ROS 2 bridge (ros2_bridge.cpp) and its      *)
(* GenericClient (generic_client.cpp).                                     *)
(*                                                                         *)
(* The poll thread keeps the advertised services up to date.  The handler  *)
(* thread passes calls on to ROS and takes requests for assets; executor   *)
(* threads take the responses of the services and send them to the         *)
(* clients; the thread of _fetch_asset_queue fetches the assets.           *)
(*                                                                         *)
(* The bridge's _services_mutex is bmutex.  What the server does under its *)
(* own _services_mutex is one step.  The handler thread holds a client's   *)
(* pending_requests_mutex_ from the sending of a request to its storing.   *)
(***************************************************************************)
EXTENDS Naturals, Sequences, Functions

CONSTANTS
    Conn,         \* connection handles
    Name,         \* names of visible, whitelisted services
    BadNames,     \* services whose definition lookup throws
    Call,         \* calls and asset requests, each made once by a client
    Asset,        \* what an asset request asks for
    None,         \* no connection, name, call or thread
    MaxId,        \* bound on the service ids
    MaxChanges    \* bound on the changes of the ROS graph

ServiceId == 1..MaxId

ASSUME ServiceConstants ==
    /\ BadNames \subseteq Name
    /\ None \notin Conn \cup Name \cup Call \cup {Asset, "poll", "handler"}
    /\ Asset \notin Name
    /\ MaxId \in Nat
    /\ MaxChanges \in Nat

VARIABLES
    con,         \* "open", "closed" (close callback queued) or "done"
    clients,     \* handles in _clients
    view,        \* the services each client was told of and not told to drop
    services,    \* ids in the server's _services
    nextId,      \* _nextService_id
    name,        \* the name each id was created for
    advertised,  \* ids in the bridge's _advertised_services
    bclients,    \* _service_clients, the name each GenericClient talks to
    bmutex,      \* the thread that holds the bridge's _services_mutex
    ros,         \* the services of the ROS graph
    changes,     \* number of its changes so far
    event,       \* graph_event is set
    ppc,         \* where the poll thread is
    latest,      \* its service_names_and_types
    gone,        \* its services_to_remove
    fresh,       \* its service_ids
    hpc,         \* where the handler thread is
    hc,          \* the connection it serves
    hk,          \* the call it works on
    hcopy,       \* its copy of _services, during a login
    caller,      \* the client that made each call
    target,      \* the service id each call names
    meant,       \* the service that id stood for when the call was accepted
    lastSeq,     \* the last sequence number of each GenericClient
    pending,     \* pending_requests_ of them all
    wire,        \* requests a service is working on
    replies,     \* responses that wait for an executor thread
    dead,        \* requests whose response will never be delivered
    tosend,      \* responses an executor thread is to send
    fetchq,      \* _fetch_asset_queue
    answers,     \* who answered each call
    refused,     \* calls answered by an error status
    invalid      \* a response had an unknown sequence number

serverVars == <<services, nextId, name>>
bridgeVars == <<advertised, bclients, bmutex>>
graphVars == <<ros, changes, event>>
pollVars == <<ppc, latest, gone, fresh>>
handlerVars == <<hpc, hc, hk, hcopy>>
callVars == <<caller, target, meant>>
clientVars == <<lastSeq, pending>>
rosVars == <<wire, replies, dead>>
resultVars == <<tosend, fetchq, answers, refused, invalid>>
trafficVars == <<callVars, clientVars, rosVars, resultVars>>
updateVars == <<serverVars, graphVars, pollVars>>
vars == <<con, clients, view, services, nextId, name, advertised, bclients,
          bmutex, ros, changes, event, ppc, latest, gone, fresh, hpc, hc, hk,
          hcopy, caller, target, meant, lastSeq, pending, wire, replies, dead,
          tosend, fetchq, answers, refused, invalid>>

Init ==
    /\ con = [c \in Conn |-> "open"]
    /\ clients = {}
    /\ view = [c \in Conn |-> {}]
    /\ services = {} /\ nextId = 0
    /\ name = [i \in ServiceId |-> None]
    /\ advertised = {}
    /\ bclients = [i \in ServiceId |-> None]
    /\ bmutex = None
    /\ ros \in SUBSET Name
    /\ changes = 0
    /\ event = TRUE
    /\ ppc = "waiting" /\ latest = {} /\ gone = {} /\ fresh = {}
    /\ hpc = "idle" /\ hc = None /\ hk = None /\ hcopy = {}
    /\ caller = [k \in Call |-> None]
    /\ target = [k \in Call |-> 0]
    /\ meant = [k \in Call |-> None]
    /\ lastSeq = [i \in ServiceId |-> 0]
    /\ pending = {}
    /\ wire = {} /\ replies = {} /\ dead = {}
    /\ tosend = {} /\ fetchq = <<>>
    /\ answers = [k \in Call |-> <<>>]
    /\ refused = {}
    /\ invalid = FALSE

-----------------------------------------------------------------------------
(* The ROS graph and the poll thread. *)

(* A service that goes takes the requests it has not answered with it. *)
GraphChange(n) ==
    /\ changes < MaxChanges
    /\ changes' = changes + 1
    /\ event' = TRUE
    /\ LET stuck == {r \in wire : bclients[r.id] = n} IN
       IF n \in ros
         THEN /\ ros' = ros \ {n}
              /\ wire' = wire \ stuck /\ dead' = dead \cup stuck
         ELSE ros' = ros \cup {n} /\ UNCHANGED <<wire, dead>>
    /\ UNCHANGED <<con, clients, view, serverVars, bridgeVars, pollVars,
                   handlerVars, callVars, clientVars, replies, resultVars>>

PollWake ==
    /\ ppc = "waiting" /\ event
    /\ event' = FALSE
    /\ ppc' = "woken"
    /\ UNCHANGED <<con, clients, view, serverVars, bridgeVars, ros, changes,
                   latest, gone, fresh, handlerVars, trafficVars>>

(* update_advertised_services queries the graph before it takes the mutex; *)
(* when the query throws, the loop waits for the next event.               *)
PollQuery ==
    /\ ppc = "woken"
    /\ \/ latest' = ros /\ ppc' = "queried"
       \/ ppc' = "waiting" /\ UNCHANGED latest
    /\ UNCHANGED <<con, clients, view, serverVars, bridgeVars, graphVars,
                   gone, fresh, handlerVars, trafficVars>>

(* Mutant of PollErase: the mutex is not kept. *)
PollEraseUnlocked ==
    /\ ppc = "queried" /\ bmutex = None
    /\ gone' = {i \in advertised : name[i] \notin latest}
    /\ advertised' = advertised \ gone'
    /\ ppc' = "remove"
    /\ UNCHANGED <<con, clients, view, serverVars, bclients, bmutex, graphVars,
                   latest, fresh, handlerVars, trafficVars>>

(* The bridge forgets the services that have gone. *)
PollErase ==
    /\ ppc = "queried" /\ bmutex = None
    /\ bmutex' = "poll"
    /\ gone' = {i \in advertised : name[i] \notin latest}
    /\ advertised' = advertised \ gone'
    /\ ppc' = "remove"
    /\ UNCHANGED <<con, clients, view, serverVars, bclients, graphVars,
                   latest, fresh, handlerVars, trafficVars>>

(* Broadcasts reach the clients whose connection is open. *)
Told(removed, added) ==
    view' = [c \in Conn |->
               IF c \in clients /\ con[c] = "open"
                 THEN (view[c] \ removed) \cup added
                 ELSE view[c]]

(* remove_services of the server. *)
PollRemove ==
    /\ ppc = "remove"
    /\ services' = services \ gone
    /\ Told(gone, {})
    /\ gone' = {}
    /\ ppc' = "add"
    /\ UNCHANGED <<con, clients, nextId, name, bridgeVars, graphVars, latest,
                   fresh, handlerVars, trafficVars>>

ServicesToAdd == latest \ (BadNames \cup {name[i] : i \in advertised})

(* Mutant of PollAdd: nobody is told. *)
PollAddQuietly ==
    /\ ppc = "add"
    /\ \E last \in nextId..MaxId :
         \E new \in Bijection((nextId + 1)..last, ServicesToAdd) :
           /\ nextId' = last
           /\ fresh' = (nextId + 1)..last
           /\ name' = [i \in ServiceId |->
                         IF i \in fresh' THEN new[i] ELSE name[i]]
    /\ services' = services \cup fresh'
    /\ ppc' = "advertise"
    /\ UNCHANGED <<con, clients, view, bridgeVars, graphVars, latest, gone,
                   handlerVars, trafficVars>>

(* add_services of the server. *)
PollAdd ==
    /\ ppc = "add"
    /\ \E last \in nextId..MaxId :
         \E new \in Bijection((nextId + 1)..last, ServicesToAdd) :
           /\ nextId' = last
           /\ fresh' = (nextId + 1)..last
           /\ name' = [i \in ServiceId |->
                         IF i \in fresh' THEN new[i] ELSE name[i]]
    /\ services' = services \cup fresh'
    /\ Told({}, fresh')
    /\ ppc' = "advertise"
    /\ UNCHANGED <<con, clients, bridgeVars, graphVars, latest, gone,
                   handlerVars, trafficVars>>

PollAdvertise ==
    /\ ppc = "advertise"
    /\ advertised' = advertised \cup fresh
    /\ fresh' = {} /\ latest' = {}
    /\ bmutex' = None
    /\ ppc' = "waiting"
    /\ UNCHANGED <<con, clients, view, serverVars, bclients, graphVars, gone,
                   handlerVars, trafficVars>>

-----------------------------------------------------------------------------
(* The handler thread: logins and closes. *)

Receives(c) == hpc = "idle" /\ con[c] # "done"

(* handle_login stores the client, later copies _services, and sends the   *)
(* copy when it has released the mutex.                                    *)
Login(c) ==
    /\ Receives(c)
    /\ clients' = clients \cup {c}
    /\ hpc' = "login" /\ hc' = c
    /\ UNCHANGED <<con, view, bridgeVars, updateVars, hk, hcopy, trafficVars>>

LoginCopy ==
    /\ hpc = "login"
    /\ hcopy' = services
    /\ hpc' = "greet"
    /\ UNCHANGED <<con, clients, view, bridgeVars, updateVars, hc, hk,
                   trafficVars>>

LoginSend ==
    /\ hpc = "greet"
    /\ view' = IF con[hc] = "open" THEN [view EXCEPT ![hc] = @ \cup hcopy]
                                   ELSE view
    /\ hpc' = "idle" /\ hc' = None /\ hcopy' = {}
    /\ UNCHANGED <<con, clients, bridgeVars, updateVars, hk, trafficVars>>

Disconnect(c) ==
    /\ con[c] = "open"
    /\ con' = [con EXCEPT ![c] = "closed"]
    /\ UNCHANGED <<clients, view, bridgeVars, updateVars, handlerVars,
                   trafficVars>>

(* handle_connection_closed does nothing about calls under way. *)
Close(c) ==
    /\ hpc = "idle" /\ con[c] = "closed"
    /\ con' = [con EXCEPT ![c] = "done"]
    /\ clients' = clients \ {c}
    /\ UNCHANGED <<view, bridgeVars, updateVars, handlerVars, trafficVars>>

-----------------------------------------------------------------------------
(* The handler thread: calls. *)

(* An exception of the handler reaches handle_message, which sends the     *)
(* client an error status.                                                 *)
Refuse(k) == refused' = refused \cup {k} /\ hpc' = "idle" /\ hk' = None

(* SERVICE_CALL_REQUEST of handle_binary_message: the id is looked up      *)
(* under the server's mutex, which is released before the bridge is        *)
(* called.                                                                 *)
CallService(c, k, i) ==
    /\ Receives(c) /\ caller[k] = None
    /\ caller' = [caller EXCEPT ![k] = c]
    /\ target' = [target EXCEPT ![k] = i]
    /\ meant' = [meant EXCEPT ![k] = name[i]]
    /\ IF i \in services THEN hpc' = "request" /\ hk' = k /\ UNCHANGED refused
                         ELSE Refuse(k)
    /\ UNCHANGED <<con, clients, view, bridgeVars, updateVars, hc, hcopy,
                   clientVars, rosVars, tosend, fetchq, answers, invalid>>

(* Mutant of Request: a GenericClient is shared by all services. *)
RequestShared ==
    /\ hpc = "request" /\ bmutex = None
    /\ LET known == {bclients[i] : i \in ServiceId} \ {None} IN
       IF target[hk] \notin advertised
         THEN Refuse(hk) /\ UNCHANGED <<bmutex, bclients>>
         ELSE /\ bmutex' = "handler"
              /\ hpc' = IF known = {} THEN "create" ELSE "wait"
              /\ \E n \in IF known = {} THEN {None} ELSE known :
                   bclients' = [bclients EXCEPT ![target[hk]] = n]
              /\ UNCHANGED <<hk, refused>>
    /\ UNCHANGED <<con, clients, view, advertised, updateVars, hc, hcopy,
                   callVars, clientVars, rosVars, tosend, fetchq, answers,
                   invalid>>

(* Mutant of Request: it returns when the service has gone. *)
RequestReturns ==
    /\ hpc = "request" /\ bmutex = None
    /\ IF target[hk] \in advertised
         THEN /\ bmutex' = "handler"
              /\ hpc' = IF bclients[target[hk]] = None THEN "create"
                                                      ELSE "wait"
              /\ UNCHANGED hk
         ELSE hpc' = "idle" /\ hk' = None /\ UNCHANGED bmutex
    /\ UNCHANGED <<con, clients, view, advertised, bclients, updateVars, hc,
                   hcopy, trafficVars>>

(* service_request of the bridge takes the mutex, and throws when the      *)
(* service has gone in between.                                            *)
Request ==
    /\ hpc = "request" /\ bmutex = None
    /\ IF target[hk] \in advertised
         THEN /\ bmutex' = "handler"
              /\ hpc' = IF bclients[target[hk]] = None THEN "create"
                                                      ELSE "wait"
              /\ UNCHANGED <<hk, refused>>
         ELSE Refuse(hk) /\ UNCHANGED bmutex
    /\ UNCHANGED <<con, clients, view, advertised, bclients, updateVars, hc,
                   hcopy, callVars, clientVars, rosVars, tosend, fetchq,
                   answers, invalid>>

(* A GenericClient for the service; it stays in _service_clients for good. *)
Create ==
    /\ hpc = "create"
    /\ bclients' = [bclients EXCEPT ![target[hk]] = name[target[hk]]]
    /\ hpc' = "wait"
    /\ UNCHANGED <<con, clients, view, advertised, bmutex, updateVars, hc, hk,
                   hcopy, trafficVars>>

(* The type support is not found, or the client is stored and ROS then     *)
(* fails to wake its wait set.                                             *)
CreateThrows ==
    /\ hpc = "create"
    /\ \/ UNCHANGED bclients
       \/ bclients' = [bclients EXCEPT ![target[hk]] = name[target[hk]]]
    /\ Refuse(hk)
    /\ bmutex' = None
    /\ UNCHANGED <<con, clients, view, advertised, updateVars, hc, hcopy,
                   callVars, clientVars, rosVars, tosend, fetchq, answers,
                   invalid>>

(* wait_for_service, for a second at most, with the mutex held. *)
Wait ==
    /\ hpc = "wait"
    /\ bclients[target[hk]] \in ros
    /\ hpc' = "send"
    /\ UNCHANGED <<con, clients, view, bridgeVars, updateVars, hc, hk, hcopy,
                   trafficVars>>

WaitTimeout ==
    /\ hpc = "wait"
    /\ bclients[target[hk]] \notin ros
    /\ Refuse(hk)
    /\ bmutex' = None
    /\ UNCHANGED <<con, clients, view, advertised, bclients, updateVars, hc,
                   hcopy, callVars, clientVars, rosVars, tosend, fetchq,
                   answers, invalid>>

(* async_send_request numbers the request and sends it; a service that has *)
(* gone since will never answer.                                           *)
Send ==
    /\ hpc = "send"
    /\ lastSeq' = [lastSeq EXCEPT ![target[hk]] = @ + 1]
    /\ LET r == [id |-> target[hk], seq |-> lastSeq'[target[hk]]] IN
       IF bclients[target[hk]] \in ros
         THEN wire' = wire \cup {r} /\ UNCHANGED dead
         ELSE dead' = dead \cup {r} /\ UNCHANGED wire
    /\ hpc' = "store"
    /\ UNCHANGED <<con, clients, view, bridgeVars, updateVars, hc, hk, hcopy,
                   callVars, pending, replies, resultVars>>

(* The request does not deserialize, or ROS fails to send it. *)
SendThrows ==
    /\ hpc = "send"
    /\ Refuse(hk)
    /\ bmutex' = None
    /\ UNCHANGED <<con, clients, view, advertised, bclients, updateVars, hc,
                   hcopy, callVars, clientVars, rosVars, tosend, fetchq,
                   answers, invalid>>

Store ==
    /\ hpc = "store"
    /\ LET r == [id |-> target[hk], seq |-> lastSeq[target[hk]]] IN
       pending' = pending \cup {[req |-> r, call |-> hk]}
    /\ hpc' = "idle" /\ hk' = None
    /\ bmutex' = None
    /\ UNCHANGED <<con, clients, view, advertised, bclients, updateVars, hc,
                   hcopy, callVars, lastSeq, rosVars, resultVars>>

-----------------------------------------------------------------------------
(* Responses. *)

(* A service answers its requests in any order. *)
Serve(r) ==
    /\ r \in wire
    /\ wire' = wire \ {r}
    /\ replies' = replies \cup {r}
    /\ UNCHANGED <<con, clients, view, bridgeVars, updateVars, handlerVars,
                   callVars, clientVars, dead, resultVars>>

(* handle_response takes the mutex of the pending requests, which the      *)
(* handler thread holds between Send and Store.                            *)
PendingMutexFree(r) == ~(hpc = "store" /\ target[hk] = r.id)

HandleResponse(r) ==
    /\ r \in replies /\ PendingMutexFree(r)
    /\ replies' = replies \ {r}
    /\ LET found == {p \in pending : p.req = r} IN
       /\ pending' = pending \ found
       /\ tosend' = tosend \cup
                      {[call |-> p.call, by |-> bclients[r.id]] : p \in found}
       /\ invalid' = (invalid \/ found = {})
    /\ UNCHANGED <<con, clients, view, bridgeVars, updateVars, handlerVars,
                   callVars, lastSeq, wire, dead, fetchq, answers, refused>>

(* The response does not serialize: its request stays pending for good. *)
HandleResponseFails(r) ==
    /\ r \in replies /\ PendingMutexFree(r)
    /\ replies' = replies \ {r}
    /\ dead' = dead \cup {r}
    /\ UNCHANGED <<con, clients, view, bridgeVars, updateVars, handlerVars,
                   callVars, clientVars, wire, resultVars>>

(* send_binary logs and forgets the error for a connection that has gone. *)
Answer(k, by) ==
    answers' = IF con[caller[k]] = "open"
                 THEN [answers EXCEPT ![k] = Append(@, by)]
                 ELSE answers

(* send_service_response *)
SendResponse(m) ==
    /\ m \in tosend
    /\ tosend' = tosend \ {m}
    /\ Answer(m.call, m.by)
    /\ UNCHANGED <<con, clients, view, bridgeVars, updateVars, handlerVars,
                   callVars, clientVars, rosVars, fetchq, refused, invalid>>

(* handle_fetch_asset only queues the request. *)
FetchAsset(c, k) ==
    /\ Receives(c) /\ caller[k] = None
    /\ caller' = [caller EXCEPT ![k] = c]
    /\ meant' = [meant EXCEPT ![k] = Asset]
    /\ fetchq' = Append(fetchq, k)
    /\ UNCHANGED <<con, clients, view, bridgeVars, updateVars, handlerVars,
                   target, clientVars, rosVars, tosend, answers, refused,
                   invalid>>

(* fetch_asset answers with the data or with an error, in every case. *)
FetchDone ==
    /\ fetchq # <<>>
    /\ fetchq' = Tail(fetchq)
    /\ Answer(Head(fetchq), Asset)
    /\ UNCHANGED <<con, clients, view, bridgeVars, updateVars, handlerVars,
                   callVars, clientVars, rosVars, tosend, refused, invalid>>

-----------------------------------------------------------------------------
Poll ==
    \/ PollWake \/ PollQuery \/ PollErase \/ PollRemove \/ PollAdd
    \/ PollAdvertise

Handler ==
    \/ LoginCopy \/ LoginSend
    \/ Request \/ Create \/ CreateThrows \/ Wait \/ WaitTimeout
    \/ Send \/ SendThrows \/ Store

Network ==
    \E c \in Conn :
      \/ Login(c) \/ Disconnect(c) \/ Close(c)
      \/ \E k \in Call : \/ FetchAsset(c, k)
                         \/ \E i \in ServiceId : CallService(c, k, i)

Executor ==
    \/ \E r \in wire : Serve(r)
    \/ \E r \in replies : HandleResponse(r) \/ HandleResponseFails(r)
    \/ \E m \in tosend : SendResponse(m)
    \/ FetchDone

(* The bounded environment has nothing left to do, and all threads wait. *)
Exhausted ==
    /\ \A c \in Conn : con[c] = "done"
    /\ changes = MaxChanges /\ ppc = "waiting" /\ ~event /\ hpc = "idle"
    /\ wire \cup replies \cup tosend = {} /\ fetchq = <<>>
    /\ UNCHANGED vars

Next ==
    \/ \E n \in Name : GraphChange(n)
    \/ Poll
    \/ Handler
    \/ Network
    \/ Executor
    \/ Exhausted

Spec == Init /\ [][Next]_vars

-----------------------------------------------------------------------------
Req == [id : ServiceId, seq : Nat]

(* Every variable has the type of the field it stands for. *)
TypeOK ==
    /\ con \in [Conn -> {"open", "closed", "done"}]
    /\ clients \subseteq Conn
    /\ view \in [Conn -> SUBSET ServiceId]
    /\ services \subseteq ServiceId /\ advertised \subseteq ServiceId
    /\ nextId \in 0..MaxId
    /\ name \in [ServiceId -> Name \cup {None}]
    /\ bclients \in [ServiceId -> Name \cup {None}]
    /\ bmutex \in {None, "poll", "handler"}
    /\ ros \subseteq Name /\ latest \subseteq Name
    /\ changes \in 0..MaxChanges
    /\ event \in BOOLEAN
    /\ ppc \in {"waiting", "woken", "queried", "remove", "add", "advertise"}
    /\ gone \subseteq ServiceId /\ fresh \subseteq ServiceId
    /\ hpc \in {"idle", "login", "greet", "request", "create", "wait", "send",
                "store"}
    /\ hc \in Conn \cup {None}
    /\ hk \in Call \cup {None}
    /\ hcopy \subseteq ServiceId
    /\ caller \in [Call -> Conn \cup {None}]
    /\ target \in [Call -> ServiceId \cup {0}]
    /\ meant \in [Call -> Name \cup {Asset, None}]
    /\ lastSeq \in [ServiceId -> Nat]
    /\ pending \subseteq [req : Req, call : Call]
    /\ wire \subseteq Req /\ replies \subseteq Req /\ dead \subseteq Req
    /\ tosend \subseteq [call : Call, by : Name]
    /\ fetchq \in Seq(Call)
    /\ answers \in [Call -> Seq(Name \cup {Asset})]
    /\ refused \subseteq Call
    /\ invalid \in BOOLEAN

(* A client that has logged in and got its first advertiseServices message *)
(* was told of every service: the copy of _services that handle_login      *)
(* sends and the broadcasts of add_services leave no gap.                  *)
ClientsKnowServices ==
    \A c \in clients :
      \/ con[c] # "open"
      \/ hc = c /\ hpc \in {"login", "greet"}
      \/ services \subseteq view[c]

(* Whenever service_request gets the bridge's _services_mutex, the bridge  *)
(* and the server have the same services: a call the server lets through   *)
(* is refused by the bridge only if its service has gone since.            *)
BridgeKnowsServices == TypeOK /\ (bmutex # "poll" => advertised = services)

(* A call is answered at most once, by the service its id stood for when   *)
(* the server accepted it, and never both answered and refused, although   *)
(* services go and come back and clients are kept by id in                 *)
(* _service_clients.                                                       *)
AnswersMatchCalls ==
    \A k \in Call : answers[k] # <<>> =>
      answers[k] = <<meant[k]>> /\ k \notin refused

(* Until a call is answered or refused, some thread or ROS still has it:   *)
(* none is forgotten, unless its client has left.  Calls of services that  *)
(* never respond stay in pending_requests_.  A response that arrives       *)
(* before async_send_request has stored its request still finds it: an     *)
(* unknown sequence number "is not expected to happen in the first place"  *)
(* (generic_client.cpp, handle_response).                                  *)
NoCallForgotten ==
    /\ ~invalid
    /\ \A k \in Call : caller[k] # None =>
         \/ k \in refused \/ answers[k] # <<>>
         \/ con[caller[k]] # "open"
         \/ hk = k
         \/ \E p \in pending : p.call = k /\ p.req \in wire \cup replies \cup dead
         \/ \E m \in tosend : m.call = k
         \/ \E j \in 1..Len(fetchq) : fetchq[j] = k
=============================================================================
