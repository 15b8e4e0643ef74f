------------------------- MODULE ServiceCallsProofs -------------------------
(***************************************************************************)
(* The inductive invariant of ServiceCalls, for every set of connections,  *)
(* services and calls and for every bound, and the theorems it gives.      *)
(*                                                                         *)
(* First the tables: the bridge's and the server's services, their names,  *)
(* the handler thread and the views of the clients.  Then the requests to  *)
(* the services: whoever answers one finds it in pending_requests_.  Last  *)
(* the calls: a call is in at most one place, not made yet, with the       *)
(* handler thread, in pending_requests_, with an executor thread, in the   *)
(* queue of assets, answered or refused.  A step moves one call at most,   *)
(* and a call leaves these places only when its client has gone.           *)
(***************************************************************************)
EXTENDS ServiceCalls, TLAPS

(* The type invariant in three parts. *)
TableType ==
    /\ con \in [Conn -> {"open", "closed", "done"}]
    /\ clients \subseteq Conn
    /\ view \in [Conn -> SUBSET ServiceId]
    /\ services \subseteq ServiceId /\ advertised \subseteq ServiceId
    /\ nextId \in 0..MaxId
    /\ name \in [ServiceId -> Name \cup {None}]
    /\ bclients \in [ServiceId -> Name \cup {None}]
    /\ bmutex \in {None, "poll", "handler"}
    /\ ros \subseteq Name /\ latest \subseteq Name
    /\ changes \in 0..MaxChanges
    /\ event \in BOOLEAN
    /\ ppc \in {"waiting", "woken", "queried", "remove", "add", "advertise"}
    /\ gone \subseteq ServiceId /\ fresh \subseteq ServiceId

HandlerType ==
    /\ hpc \in {"idle", "login", "greet", "request", "create", "wait", "send",
                "store"}
    /\ hc \in Conn \cup {None}
    /\ hk \in Call \cup {None}
    /\ hcopy \subseteq ServiceId

CallType ==
    /\ caller \in [Call -> Conn \cup {None}]
    /\ target \in [Call -> ServiceId \cup {0}]
    /\ meant \in [Call -> Name \cup {Asset, None}]
    /\ lastSeq \in [ServiceId -> Nat]
    /\ pending \subseteq [req : Req, call : Call]
    /\ wire \subseteq Req /\ replies \subseteq Req /\ dead \subseteq Req
    /\ tosend \subseteq [call : Call, by : Name]
    /\ fetchq \in Seq(Call)
    /\ answers \in [Call -> Seq(Name \cup {Asset})]
    /\ refused \subseteq Call
    /\ invalid \in BOOLEAN

(* Who holds the bridge's mutex, and what the poll thread has in hand. *)
UpdateInv ==
    /\ bmutex = "poll" <=> ppc \in {"remove", "add", "advertise"}
    /\ bmutex = "handler" <=> hpc \in {"create", "wait", "send", "store"}
    /\ advertised = services \ (gone \cup fresh)
    /\ gone # {} => ppc = "remove"
    /\ fresh # {} => ppc = "advertise"
    /\ fresh \subseteq services /\ services \subseteq 1..nextId

(* An id keeps its name, and a GenericClient talks to the service its id   *)
(* stands for.                                                             *)
NameInv ==
    /\ \A i \in 1..nextId : name[i] \in Name
    /\ \A i \in ServiceId :
         bclients[i] # None => i <= nextId /\ bclients[i] = name[i]

(* The call the handler thread works on is meant for the service its id    *)
(* stands for.                                                             *)
HandlerInv ==
    /\ hpc \in {"login", "greet"} => hc \in Conn
    /\ hk # None <=> hpc \in {"request", "create", "wait", "send", "store"}
    /\ hk # None => target[hk] \in 1..nextId /\ meant[hk] = name[target[hk]]
    /\ hpc \in {"wait", "send", "store"} => bclients[target[hk]] # None

(* What a client is still to be told of is in the handler thread's copy,   *)
(* or the copy has not been taken yet.                                     *)
ViewInv ==
    \A c \in clients : con[c] = "open" =>
      \/ hc = c /\ hpc = "login"
      \/ hc = c /\ hpc = "greet" /\ services \subseteq view[c] \cup hcopy
      \/ services \subseteq view[c]

(* The request the handler thread has sent and not stored yet. *)
Current(r) ==
    hpc = "store" /\ r.id = target[hk] /\ r.seq = lastSeq[target[hk]]

(* Every request is on its way, answered or lost, and whoever answers it   *)
(* finds it pending, or waits for the mutex of the pending requests.       *)
RequestInv ==
    /\ wire \cap replies = {} /\ wire \cap dead = {} /\ replies \cap dead = {}
    /\ \A r \in wire \cup replies \cup dead : r.seq <= lastSeq[r.id]
    /\ \A p \in pending :
         p.req \in wire \cup replies \cup dead /\ ~Current(p.req)
    /\ \A p, q \in pending : p.req = q.req => p = q
    /\ \A r \in wire \cup replies : Current(r) \/ \E p \in pending : p.req = r
    /\ hpc = "store" => \E r \in wire \cup replies \cup dead : Current(r)
    /\ ~invalid

(* Where a call can be. *)
Waits(k) == \E p \in pending : p.call = k
Sends(k) == \E m \in tosend : m.call = k
Queues(k) == \E j \in 1..Len(fetchq) : fetchq[j] = k
Settled(k) == answers[k] # <<>> \/ k \in refused

(* No call is in two places, and none that was not made is in one. *)
PlaceInv ==
    \A k \in Call :
      /\ caller[k] = None =>
           hk # k /\ ~Waits(k) /\ ~Sends(k) /\ ~Queues(k) /\ ~Settled(k)
      /\ hk = k => ~Waits(k) /\ ~Sends(k) /\ ~Queues(k) /\ ~Settled(k)
      /\ Waits(k) => ~Sends(k) /\ ~Queues(k) /\ ~Settled(k)
      /\ Sends(k) => ~Queues(k) /\ ~Settled(k)
      /\ Queues(k) => ~Settled(k)
      /\ answers[k] # <<>> => k \notin refused

(* No call is twice in one place. *)
OnceInv ==
    /\ \A p, q \in pending : p.call = q.call => p = q
    /\ \A m, n \in tosend : m.call = n.call => m = n
    /\ \A i, j \in 1..Len(fetchq) : fetchq[i] = fetchq[j] => i = j

(* Who answers is who was meant. *)
SentInv ==
    /\ \A p \in pending :
         bclients[p.req.id] = meant[p.call] /\ bclients[p.req.id] # None
    /\ \A m \in tosend : m.by = meant[m.call]
    /\ \A j \in 1..Len(fetchq) : meant[fetchq[j]] = Asset
    /\ \A k \in Call : answers[k] # <<>> => answers[k] = <<meant[k]>>

(* A call that was made and is in none of the places is of a client that   *)
(* has gone.                                                               *)
KeptInv ==
    \A k \in Call : caller[k] # None =>
      \/ con[caller[k]] # "open"
      \/ hk = k \/ Waits(k) \/ Sends(k) \/ Queues(k) \/ Settled(k)

IInv ==
    /\ TypeOK /\ UpdateInv /\ NameInv /\ HandlerInv /\ ViewInv
    /\ RequestInv /\ PlaceInv /\ OnceInv /\ SentInv /\ KeptInv

-----------------------------------------------------------------------------
(* A leaf is for Zenon unless it names SMT, for arithmetic and records. *)
USE Zenon

(* The type invariant falls into the parts the steps are shown to keep. *)
LEMMA TypeParts == TypeOK <=> TableType /\ HandlerType /\ CallType
BY DEF TypeOK, TableType, HandlerType, CallType

(* Every step keeps the types of the tables and of the poll thread. *)
LEMMA TableStep ==
    ASSUME TableType, HandlerType, HandlerInv, [Next]_vars
    PROVE  TableType'
<1> USE ServiceConstants DEF TableType, ServiceId
<1> USE DEF serverVars, bridgeVars, graphVars, pollVars, updateVars
<1>1. ASSUME NEW n \in Name, GraphChange(n) PROVE TableType'
  BY <1>1, SMT DEF GraphChange
<1>2. CASE PollWake
  BY <1>2 DEF PollWake
<1>3. CASE PollQuery
  BY <1>3 DEF PollQuery
<1>4. CASE PollErase
  BY <1>4 DEF PollErase
<1>5. CASE PollRemove
  BY <1>5 DEF PollRemove, Told
<1>6. CASE PollAdd
  BY <1>6, SMT DEF PollAdd, Told, ServicesToAdd, Bijection, Injection,
     Surjection
<1>7. CASE PollAdvertise
  BY <1>7 DEF PollAdvertise
<1>8. ASSUME NEW c \in Conn, Login(c) \/ Disconnect(c) \/ Close(c)
      PROVE  TableType'
  <2>1. CASE Login(c)
    BY <2>1 DEF Login
  <2>2. CASE Disconnect(c)
    BY <2>2 DEF Disconnect
  <2>3. CASE Close(c)
    BY <2>3 DEF Close
  <2> QED BY <1>8, <2>1, <2>2, <2>3
<1>9. CASE LoginSend
  BY <1>9 DEF LoginSend, HandlerType
<1>10. CASE Request
  BY <1>10 DEF Request
<1>11. CASE Create \/ CreateThrows
  <2>1. target[hk] \in ServiceId
    BY <1>11, SMT DEF Create, CreateThrows, HandlerInv
  <2> QED BY <1>11, <2>1 DEF Create, CreateThrows
<1>12. CASE WaitTimeout \/ SendThrows \/ Store
  BY <1>12 DEF WaitTimeout, SendThrows, Store
<1>13. CASE \/ LoginCopy \/ Wait \/ Send \/ Executor \/ UNCHANGED vars
            \/ \E c \in Conn, k \in Call :
                 FetchAsset(c, k) \/ \E i \in ServiceId : CallService(c, k, i)
  <2>1. UNCHANGED <<con, clients, view, serverVars, bridgeVars, graphVars,
                    pollVars>>
    <3> HIDE DEF TableType
    <3> QED BY <1>13 DEF LoginCopy, Wait, Send, Executor, Serve,
            HandleResponse, HandleResponseFails, SendResponse, FetchDone,
            FetchAsset, CallService, vars
  <2> QED BY <2>1
<1> HIDE DEF TableType
<1> QED BY <1>1, <1>2, <1>3, <1>4, <1>5, <1>6, <1>7, <1>8, <1>9, <1>10,
           <1>11, <1>12, <1>13
    DEF Next, Poll, Handler, Network, Exhausted

(* Every step keeps the types of the handler thread. *)
LEMMA HandlerTypeStep ==
    ASSUME TableType, HandlerType, [Next]_vars
    PROVE  HandlerType'
<1> USE ServiceConstants DEF HandlerType
<1> USE DEF handlerVars
<1>1. ASSUME NEW c \in Conn, Login(c) PROVE HandlerType'
  BY <1>1 DEF Login
<1>2. CASE LoginCopy \/ LoginSend
  BY <1>2 DEF LoginCopy, LoginSend, TableType
<1>3. ASSUME NEW c \in Conn, NEW k \in Call, NEW i \in ServiceId,
             CallService(c, k, i)
      PROVE  HandlerType'
  BY <1>3 DEF CallService, Refuse
<1>4. CASE Request
  BY <1>4 DEF Request, Refuse
<1>5. CASE Create \/ CreateThrows
  BY <1>5 DEF Create, CreateThrows, Refuse
<1>6. CASE Wait \/ WaitTimeout
  BY <1>6 DEF Wait, WaitTimeout, Refuse
<1>7. CASE Send \/ SendThrows \/ Store
  BY <1>7 DEF Send, SendThrows, Store, Refuse
<1>8. CASE \/ Poll \/ Executor \/ UNCHANGED vars
           \/ \E n \in Name : GraphChange(n)
           \/ \E c \in Conn : \/ Disconnect(c) \/ Close(c)
                              \/ \E k \in Call : FetchAsset(c, k)
  <2>1. UNCHANGED handlerVars
    <3> HIDE DEF HandlerType
    <3> QED BY <1>8 DEF Poll, PollWake, PollQuery, PollErase, PollRemove,
            PollAdd, PollAdvertise, Executor, Serve, HandleResponse,
            HandleResponseFails, SendResponse, FetchDone, GraphChange,
            Disconnect, Close, FetchAsset, vars
  <2> QED BY <2>1
<1> HIDE DEF HandlerType
<1> QED BY <1>1, <1>2, <1>3, <1>4, <1>5, <1>6, <1>7, <1>8
    DEF Next, Handler, Network, Exhausted

-----------------------------------------------------------------------------
(* The bridge's mutex keeps the tables of the bridge and the server equal. *)
LEMMA UpdateStep ==
    ASSUME TableType, HandlerType, UpdateInv, [Next]_vars
    PROVE  UpdateInv'
<1> USE ServiceConstants DEF TableType, HandlerType, UpdateInv
<1> USE DEF serverVars, bridgeVars, pollVars, updateVars, handlerVars
<1>1. CASE PollWake \/ PollQuery
  BY <1>1 DEF PollWake, PollQuery
<1>2. CASE PollErase
  BY <1>2 DEF PollErase
<1>3. CASE PollRemove
  BY <1>3 DEF PollRemove
<1>4. CASE PollAdd
  <2>1. /\ UNCHANGED <<bmutex, hpc, advertised, gone>>
        /\ ppc = "add" /\ ppc' = "advertise"
        /\ nextId' >= nextId /\ nextId' \in Nat
        /\ fresh' = (nextId + 1)..nextId'
        /\ services' = services \cup fresh'
    <3> HIDE DEF HandlerType, UpdateInv
    <3> QED BY <1>4, SMT DEF PollAdd
  <2>2. advertised' = services' \ (gone' \cup fresh')
    BY <2>1, SMT
  <2>3. services' \subseteq 1..nextId'
    BY <2>1, SMT
  <2> QED BY <2>1, <2>2, <2>3
<1>5. CASE PollAdvertise
  BY <1>5 DEF PollAdvertise
<1>6. CASE \/ LoginCopy \/ LoginSend \/ Create \/ Wait \/ Send
           \/ \E c \in Conn : Login(c)
           \/ \E c \in Conn, k \in Call, i \in ServiceId : CallService(c, k, i)
  <2>1. /\ UNCHANGED <<bmutex, ppc, advertised, services, gone, fresh, nextId>>
        /\ hpc' \in {"create", "wait", "send", "store"}
             <=> hpc \in {"create", "wait", "send", "store"}
    <3> HIDE DEF TableType, HandlerType, UpdateInv
    <3> QED BY <1>6 DEF LoginCopy, LoginSend, Create, Wait, Send, Login,
            CallService, Receives, Refuse
  <2> QED BY <2>1
<1>7. CASE Request
  BY <1>7 DEF Request, Refuse
<1>8. CASE CreateThrows \/ WaitTimeout \/ SendThrows \/ Store
  <2>1. /\ UNCHANGED <<ppc, advertised, services, gone, fresh, nextId>>
        /\ hpc \in {"create", "wait", "send", "store"}
        /\ hpc' = "idle" /\ bmutex' = None
    <3> HIDE DEF TableType, HandlerType, UpdateInv
    <3> QED BY <1>8 DEF CreateThrows, WaitTimeout, SendThrows, Store, Refuse
  <2> QED BY <2>1
<1>9. CASE \/ Executor \/ UNCHANGED vars
           \/ \E n \in Name : GraphChange(n)
           \/ \E c \in Conn : \/ Disconnect(c) \/ Close(c)
                              \/ \E k \in Call : FetchAsset(c, k)
  <2>1. UNCHANGED <<bmutex, ppc, hpc, advertised, services, gone, fresh,
                    nextId>>
    <3> HIDE DEF TableType, HandlerType, UpdateInv
    <3> QED BY <1>9 DEF Executor, Serve, HandleResponse, HandleResponseFails,
            SendResponse, FetchDone, GraphChange, Disconnect, Close,
            FetchAsset, vars
  <2> QED BY <2>1
<1> HIDE DEF TableType, HandlerType, UpdateInv
<1> QED BY <1>1, <1>2, <1>3, <1>4, <1>5, <1>6, <1>7, <1>8, <1>9
    DEF Next, Poll, Handler, Network, Exhausted

(* Ids keep their names, and their GenericClients, once they have them. *)
LEMMA NamesKept ==
    ASSUME TableType, HandlerType, NameInv, HandlerInv, [Next]_vars
    PROVE  /\ NameInv'
           /\ nextId' \in nextId..MaxId
           /\ \A i \in 1..nextId : name'[i] = name[i]
           /\ \A i \in ServiceId :
                bclients[i] # None => bclients'[i] = bclients[i]
<1> USE ServiceConstants DEF TableType, NameInv, ServiceId
<1> USE DEF serverVars, bridgeVars, updateVars
<1>1. CASE PollAdd
  BY <1>1, SMT DEF PollAdd, ServicesToAdd, Bijection, Injection, Surjection
<1>2. CASE Create \/ CreateThrows
  <2>1. /\ UNCHANGED <<name, nextId>>
        /\ bclients' \in {bclients,
                          [bclients EXCEPT ![target[hk]] = name[target[hk]]]}
        /\ target[hk] \in 1..nextId
    <3> HIDE DEF TableType, NameInv
    <3> QED BY <1>2 DEF Create, CreateThrows, HandlerInv
  <2> QED BY <2>1, SMT
<1>3. CASE \/ PollWake \/ PollQuery \/ PollErase \/ PollRemove \/ PollAdvertise
           \/ LoginCopy \/ LoginSend \/ Request \/ Wait \/ WaitTimeout
           \/ Send \/ SendThrows \/ Store \/ Network \/ Executor
           \/ UNCHANGED vars
           \/ \E n \in Name : GraphChange(n)
  <2>1. UNCHANGED <<name, nextId, bclients>>
    <3> HIDE DEF TableType, NameInv
    <3>1. CASE PollWake \/ PollQuery \/ PollErase \/ PollRemove \/ PollAdvertise
      BY <3>1 DEF PollWake, PollQuery, PollErase, PollRemove, PollAdvertise
    <3>2. CASE LoginCopy \/ LoginSend \/ Request \/ Wait \/ WaitTimeout
      BY <3>2 DEF LoginCopy, LoginSend, Request, Wait, WaitTimeout
    <3>3. CASE Send \/ SendThrows \/ Store \/ UNCHANGED vars
      BY <3>3 DEF Send, SendThrows, Store, vars
    <3>4. CASE Network \/ \E n \in Name : GraphChange(n)
      BY <3>4 DEF Network, Login, Disconnect, Close, FetchAsset, CallService,
         GraphChange
    <3>5. CASE Executor
      BY <3>5 DEF Executor, Serve, HandleResponse, HandleResponseFails,
         SendResponse, FetchDone
    <3> QED BY <1>3, <3>1, <3>2, <3>3, <3>4, <3>5
  <2> QED BY <2>1, SMT
<1> HIDE DEF TableType, NameInv
<1> QED BY <1>1, <1>2, <1>3 DEF Next, Poll, Handler, Exhausted

(* The call in hand stays meant for the service its id stands for. *)
LEMMA HandlerStepInv ==
    ASSUME TableType, HandlerType, CallType, UpdateInv, NameInv, HandlerInv,
           [Next]_vars
    PROVE  HandlerInv'
<1> USE ServiceConstants DEF TableType, HandlerType, HandlerInv, ServiceId
<1> USE DEF serverVars, bridgeVars, updateVars, handlerVars, callVars,
      trafficVars
<1>0. /\ nextId' \in nextId..MaxId
      /\ \A i \in 1..nextId : name'[i] = name[i]
      /\ \A i \in ServiceId : bclients[i] # None => bclients'[i] = bclients[i]
  <2> HIDE DEF TableType, HandlerType, HandlerInv, ServiceId
  <2> QED BY NamesKept
<1>1. ASSUME NEW c \in Conn, Login(c) PROVE HandlerInv'
  BY <1>1 DEF Login, Receives
<1>2. CASE LoginCopy \/ LoginSend
  BY <1>2 DEF LoginCopy, LoginSend
<1>3. ASSUME NEW c \in Conn, NEW k \in Call, NEW i \in ServiceId,
             CallService(c, k, i)
      PROVE  HandlerInv'
  <2>1. /\ UNCHANGED <<name, nextId, bclients, hc>>
        /\ hpc = "idle"
        /\ target'[k] = i /\ meant'[k] = name[i]
        /\ \/ i \in services /\ hpc' = "request" /\ hk' = k
           \/ hpc' = "idle" /\ hk' = None
    <3> HIDE DEF TableType, HandlerType, HandlerInv
    <3> QED BY <1>3 DEF CallService, Receives, Refuse, CallType
  <2>2. i \in services => i \in 1..nextId
    BY DEF UpdateInv
  <2> QED BY <2>1, <2>2
<1>4. CASE Request
  BY <1>4 DEF Request, Refuse
<1>5. CASE Create
  <2>1. name[target[hk]] \in Name
    BY <1>5 DEF Create, NameInv
  <2> QED BY <1>5, <2>1, SMT DEF Create
<1>6. CASE CreateThrows \/ WaitTimeout \/ SendThrows \/ Store
  <2>1. UNCHANGED hc /\ hpc' = "idle" /\ hk' = None
    <3> HIDE DEF TableType, HandlerType, HandlerInv
    <3> QED BY <1>6 DEF CreateThrows, WaitTimeout, SendThrows, Store, Refuse
  <2> QED BY <2>1
<1>7. CASE Wait
  BY <1>7 DEF Wait
<1>8. CASE Send
  BY <1>8 DEF Send
<1>9. ASSUME NEW c \in Conn, NEW k \in Call, FetchAsset(c, k)
      PROVE  HandlerInv'
  BY <1>9 DEF FetchAsset, Receives
<1>10. CASE \/ Poll \/ Executor \/ UNCHANGED vars
            \/ \E n \in Name : GraphChange(n)
            \/ \E c \in Conn : Disconnect(c) \/ Close(c)
  <2>1. UNCHANGED <<handlerVars, target, meant>>
    <3> HIDE DEF TableType, HandlerType, HandlerInv
    <3> QED BY <1>10 DEF Poll, PollWake, PollQuery, PollErase, PollRemove,
            PollAdd, PollAdvertise, Executor, Serve, HandleResponse,
            HandleResponseFails, SendResponse, FetchDone, GraphChange,
            Disconnect, Close, vars
  <2>2. ASSUME hk # None
        PROVE  /\ target[hk] \in 1..nextId'
               /\ meant[hk] = name'[target[hk]]
               /\ bclients[target[hk]] # None =>
                    bclients'[target[hk]] = bclients[target[hk]]
    <3>1. target[hk] \in 1..nextId /\ target[hk] \in ServiceId
      BY <2>2, SMT
    <3> QED BY <1>0, <2>2, <3>1, SMT
  <2>3. hpc \in {"wait", "send", "store"} => hk # None
    OBVIOUS
  <2> QED BY <2>1, <2>2, <2>3
<1> HIDE DEF TableType, HandlerType, HandlerInv
<1> QED BY <1>1, <1>2, <1>3, <1>4, <1>5, <1>6, <1>7, <1>8, <1>9, <1>10
    DEF Next, Handler, Network, Exhausted

(* Copies and broadcasts leave no gap in what a client is told. *)
LEMMA ViewStep ==
    ASSUME TableType, HandlerType, HandlerInv, ViewInv, [Next]_vars
    PROVE  ViewInv'
<1> USE ServiceConstants DEF TableType, HandlerType, ViewInv
<1> USE DEF serverVars, updateVars, handlerVars
<1>1. CASE PollRemove
  BY <1>1 DEF PollRemove, Told
<1>2. CASE PollAdd
  <2>1. /\ UNCHANGED <<con, clients, handlerVars>>
        /\ services' = services \cup fresh'
        /\ Told({}, fresh')
    BY <1>2 DEF PollAdd
  <2> QED BY <2>1 DEF Told
<1>3. ASSUME NEW c \in Conn, Login(c) PROVE ViewInv'
  BY <1>3 DEF Login, Receives
<1>4. ASSUME NEW c \in Conn, Disconnect(c) \/ Close(c) PROVE ViewInv'
  <2>1. CASE Disconnect(c)
    BY <2>1, SMT DEF Disconnect
  <2>2. CASE Close(c)
    BY <2>2, SMT DEF Close
  <2> QED BY <1>4, <2>1, <2>2
<1>5. CASE LoginCopy
  BY <1>5 DEF LoginCopy
<1>6. CASE LoginSend
  <2>1. /\ hc \in Conn
        /\ UNCHANGED <<con, clients, services>>
        /\ hpc = "greet"
        /\ \A c \in Conn : con[c] = "open" =>
             view'[c] = IF c = hc THEN view[c] \cup hcopy ELSE view[c]
    BY <1>6 DEF LoginSend, HandlerInv
  <2>2. ASSUME NEW c \in clients, con[c] = "open"
        PROVE  services \subseteq view'[c]
    <3>1. \/ c = hc /\ services \subseteq view[c] \cup hcopy
          \/ services \subseteq view[c]
      BY <2>1, <2>2
    <3>2. view'[c] = IF c = hc THEN view[c] \cup hcopy ELSE view[c]
      BY <2>1, <2>2
    <3> HIDE DEF TableType, HandlerType, ViewInv
    <3> QED BY <3>1, <3>2
  <2> QED BY <2>1, <2>2
<1>7. CASE \/ Request \/ Create \/ CreateThrows \/ Wait \/ WaitTimeout
           \/ Send \/ SendThrows \/ Store
           \/ \E c \in Conn, k \in Call, i \in ServiceId : CallService(c, k, i)
  <2>1. /\ UNCHANGED <<con, clients, view, services>>
        /\ hpc \notin {"login", "greet"}
    <3> HIDE DEF TableType, HandlerType, ViewInv
    <3> QED BY <1>7 DEF Request, Create, CreateThrows, Wait, WaitTimeout,
            Send, SendThrows, Store, CallService, Receives
  <2> QED BY <2>1
<1>8. CASE \/ PollWake \/ PollQuery \/ PollErase \/ PollAdvertise
           \/ Executor \/ UNCHANGED vars
           \/ \E n \in Name : GraphChange(n)
           \/ \E c \in Conn, k \in Call : FetchAsset(c, k)
  <2>1. UNCHANGED <<con, clients, view, services, handlerVars>>
    <3> HIDE DEF TableType, HandlerType, ViewInv
    <3> QED BY <1>8 DEF PollWake, PollQuery, PollErase, PollAdvertise,
            Executor, Serve, HandleResponse, HandleResponseFails,
            SendResponse, FetchDone, GraphChange, FetchAsset, vars
  <2> QED BY <2>1
<1> HIDE DEF TableType, HandlerType, ViewInv
<1> QED BY <1>1, <1>2, <1>3, <1>4, <1>5, <1>6, <1>7, <1>8
    DEF Next, Poll, Handler, Network, Exhausted

-----------------------------------------------------------------------------
(* Every step keeps the types of the calls and their requests. *)
LEMMA CallTypeStep ==
    ASSUME TableType, HandlerType, CallType, HandlerInv, SentInv, [Next]_vars
    PROVE  CallType'
<1> USE ServiceConstants DEF CallType, ServiceId
<1> USE DEF callVars, clientVars, rosVars, resultVars, trafficVars
<1>1. ASSUME NEW n \in Name, GraphChange(n) PROVE CallType'
  BY <1>1 DEF GraphChange
<1>2. ASSUME NEW c \in Conn, NEW k \in Call, NEW i \in ServiceId,
             CallService(c, k, i)
      PROVE  CallType'
  BY <1>2, SMTT(30) DEF CallService, Refuse, TableType
<1>3. CASE Request \/ CreateThrows \/ WaitTimeout \/ SendThrows
  <2>1. /\ UNCHANGED <<callVars, clientVars, rosVars, tosend, fetchq, answers,
                       invalid>>
        /\ refused' \in {refused, refused \cup {hk}}
        /\ hk \in Call
    <3> HIDE DEF CallType
    <3> QED BY <1>3 DEF Request, CreateThrows, WaitTimeout, SendThrows, Refuse,
            HandlerInv, HandlerType
  <2> QED BY <2>1
<1>4. CASE Send
  <2>1. target[hk] \in ServiceId
    BY <1>4, SMT DEF Send, HandlerInv, TableType
  <2>2. /\ lastSeq' = [lastSeq EXCEPT ![target[hk]] = @ + 1]
        /\ wire' \cup dead' = wire \cup dead \cup
             {[id |-> target[hk], seq |-> lastSeq'[target[hk]]]}
        /\ UNCHANGED <<callVars, pending, replies, resultVars>>
    BY <1>4 DEF Send
  <2>3. lastSeq' \in [ServiceId -> Nat]
    BY <2>1, <2>2, SMT
  <2>4. wire' \cup dead' \subseteq Req
    BY <2>1, <2>2, <2>3, SMT DEF Req
  <2> QED BY <2>2, <2>3, <2>4
<1>5. CASE Store
  <2>1. hk \in Call /\ target[hk] \in ServiceId
    BY <1>5, SMT DEF Store, HandlerInv, HandlerType, TableType
  <2>2. [id |-> target[hk], seq |-> lastSeq[target[hk]]] \in Req
    BY <2>1 DEF Req
  <2> QED BY <1>5, <2>1, <2>2, SMT DEF Store
<1>6. ASSUME NEW r \in wire, Serve(r) PROVE CallType'
  BY <1>6 DEF Serve
<1>7. ASSUME NEW r \in replies, HandleResponse(r) PROVE CallType'
  <2>1. ASSUME NEW p \in pending, p.req = r
        PROVE  [call |-> p.call, by |-> bclients[r.id]]
                 \in [call : Call, by : Name]
    BY <2>1 DEF SentInv, TableType, Req
  <2> QED BY <1>7, <2>1, SMT DEF HandleResponse
<1>8. ASSUME NEW r \in replies, HandleResponseFails(r) PROVE CallType'
  BY <1>8 DEF HandleResponseFails
<1>9. ASSUME NEW m \in tosend, SendResponse(m) PROVE CallType'
  <2>1. m.call \in Call /\ m.by \in Name
    OBVIOUS
  <2> QED BY <1>9, <2>1, SMT DEF SendResponse, Answer
<1>10. ASSUME NEW c \in Conn, NEW k \in Call, FetchAsset(c, k)
       PROVE  CallType'
  BY <1>10, SMT DEF FetchAsset
<1>11. CASE FetchDone
  BY <1>11, SMT DEF FetchDone, Answer
<1>12. CASE \/ Poll \/ LoginCopy \/ LoginSend \/ Create \/ Wait
            \/ UNCHANGED vars
            \/ \E c \in Conn : Login(c) \/ Disconnect(c) \/ Close(c)
  <2>1. UNCHANGED trafficVars
    <3> HIDE DEF CallType
    <3> QED BY <1>12 DEF Poll, PollWake, PollQuery, PollErase, PollRemove,
            PollAdd, PollAdvertise, LoginCopy, LoginSend, Create, Wait, Login,
            Disconnect, Close, vars
  <2> QED BY <2>1
<1> HIDE DEF CallType
<1> QED BY <1>1, <1>2, <1>3, <1>4, <1>5, <1>6, <1>7, <1>8, <1>9, <1>10,
           <1>11, <1>12
    DEF Next, Handler, Network, Executor, Exhausted

(* Requests in flight are pending, or about to be. *)
LEMMA RequestStep ==
    ASSUME TableType, HandlerType, CallType, HandlerInv, RequestInv,
           [Next]_vars
    PROVE  RequestInv'
<1> USE ServiceConstants DEF CallType, RequestInv
<1> USE DEF handlerVars, callVars, clientVars, rosVars, resultVars,
      trafficVars
<1>1. ASSUME NEW n \in Name, GraphChange(n) PROVE RequestInv'
  <2>1. /\ UNCHANGED <<hpc, hk, target, lastSeq, pending, replies, invalid>>
        /\ wire' \subseteq wire /\ wire' \cup dead' = wire \cup dead
        /\ wire' \cap dead' = {}
    BY ZenonT(40), <1>1 DEF GraphChange
  <2>2. \A r : Current(r)' <=> Current(r)
    BY <2>1 DEF Current
  <2>3. replies' \cap dead' = {}
    BY <2>1
  <2> HIDE DEF CallType
  <2> QED BY <2>1, <2>2, <2>3
<1>2. CASE Send
  <2> DEFINE t == target[hk]
             new == [id |-> t, seq |-> lastSeq[t] + 1]
  <2>1. t \in ServiceId
    BY <1>2, SMT DEF Send, HandlerInv, TableType, ServiceId
  <2>2. /\ UNCHANGED <<hk, target, pending, replies, invalid>>
        /\ hpc = "send" /\ hpc' = "store"
        /\ lastSeq' = [lastSeq EXCEPT ![t] = @ + 1]
        /\ \/ wire' = wire \cup {new} /\ dead' = dead
           \/ wire' = wire /\ dead' = dead \cup {new}
    BY <1>2, <2>1 DEF Send
  <2>3. new \in Req /\ new \notin wire \cup replies \cup dead
    BY <2>1, SMT DEF Req
  <2>4. \A r : Current(r)' <=> r.id = t /\ r.seq = lastSeq[t] + 1
    BY <2>1, <2>2 DEF Current
  <2>5. \A r \in wire \cup replies \cup dead : ~Current(r)'
    BY <2>1, <2>4, SMT DEF Req
  <2>6. \A r \in wire' \cup replies' \cup dead' : r.seq <= lastSeq'[r.id]
    BY <2>1, <2>2, SMT DEF Req
  <2>7. \A r \in wire \cup replies : \E p \in pending : p.req = r
    BY <2>2 DEF Current
  <2>8. \A r : r = new => Current(r)'
    <3>1. new.id = t /\ new.seq = lastSeq[t] + 1
      OBVIOUS
    <3> HIDE DEF new, t, CallType, RequestInv
    <3> QED BY <2>4, <3>1
  <2> HIDE DEF new, t
  <2>9. /\ wire' \cap replies' = {} /\ wire' \cap dead' = {}
        /\ replies' \cap dead' = {}
    BY <2>2, <2>3, SMT
  <2>10. \A r \in wire' \cup replies' :
           Current(r)' \/ \E p \in pending : p.req = r
    BY <2>2, <2>7, <2>8
  <2>11. \E r \in wire' \cup replies' \cup dead' : Current(r)'
    BY <2>2, <2>8
  <2>12. \A p \in pending :
           p.req \in wire' \cup replies' \cup dead' /\ ~Current(p.req)'
    <3>1. SUFFICES ASSUME NEW p \in pending
                   PROVE  \E r \in wire' \cup replies' \cup dead' :
                            r = p.req /\ ~Current(r)'
      BY <2>2, SMT
    <3> QED BY <2>2, <2>5
  <2> QED BY <2>2, <2>6, <2>9, <2>10, <2>11, <2>12
<1>3. CASE Store
  <2> DEFINE t == target[hk]
             new == [id |-> t, seq |-> lastSeq[t]]
  <2>1. t \in ServiceId /\ hk \in Call
    BY <1>3, SMT DEF Store, HandlerInv, HandlerType, TableType, ServiceId
  <2>2. /\ UNCHANGED <<lastSeq, wire, replies, dead, invalid>>
        /\ hpc = "store" /\ hpc' # "store"
        /\ pending' = pending \cup {[req |-> new, call |-> hk]}
    BY <1>3 DEF Store
  <2>3. \A r \in wire \cup replies \cup dead : Current(r) => r = new
    BY <2>1, SMT DEF Current, Req
  <2>4. Current(new)
    BY <2>2 DEF Current
  <2>5. new \in wire \cup replies \cup dead
    BY <2>2, <2>3
  <2>6. \A r : ~Current(r)'
    BY <2>2 DEF Current
  <2>7. \A p \in pending : p.req # new
    BY <2>4
  <2> HIDE DEF new, t
  <2>8. \A p, q \in pending' : p.req = q.req => p = q
    BY <2>2, <2>7, SMT
  <2>9. \A p \in pending' : p.req \in wire \cup replies \cup dead
    BY <2>2, <2>5, SMT
  <2>10. \A r \in wire \cup replies : \E p \in pending' : p.req = r
    <3>1. \E p \in pending' : p.req = new
      <4> HIDE DEF CallType, RequestInv
      <4>1. [req |-> new, call |-> hk] \in pending'
        BY <2>2
      <4>2. [req |-> new, call |-> hk].req = new
        OBVIOUS
      <4> QED BY <4>1, <4>2
    <3>2. \A r \in wire \cup replies : r = new \/ \E p \in pending : p.req = r
      BY <2>3
    <3> QED BY <2>2, <3>1, <3>2
  <2> QED BY <2>2, <2>6, <2>8, <2>9, <2>10
<1>4. ASSUME NEW r \in wire, Serve(r) PROVE RequestInv'
  <2>1. /\ UNCHANGED <<hpc, hk, target, lastSeq, pending, dead, invalid>>
        /\ wire' = wire \ {r} /\ replies' = replies \cup {r}
    BY <1>4 DEF Serve
  <2>2. \A q : Current(q)' <=> Current(q)
    BY <2>1 DEF Current
  <2> HIDE DEF CallType
  <2> QED BY <2>1, <2>2, SMT
<1>5. ASSUME NEW r \in replies, HandleResponse(r) PROVE RequestInv'
  <2>1. /\ UNCHANGED <<hpc, hk, target, lastSeq, wire, dead>>
        /\ replies' = replies \ {r}
        /\ pending' = {p \in pending : p.req # r}
        /\ invalid' = (invalid \/ {p \in pending : p.req = r} = {})
    BY <1>5 DEF HandleResponse
  <2>2. \A q : Current(q)' <=> Current(q)
    BY <2>1 DEF Current
  <2>3. ~Current(r)
    BY <1>5 DEF HandleResponse, PendingMutexFree, Current
  <2>4. PICK p \in pending : p.req = r
    BY <2>3
  <2>5. invalid' = FALSE
    BY <2>1, <2>4
  <2> HIDE DEF CallType
  <2> QED BY <2>1, <2>2, <2>3, <2>5, SMT
<1>6. ASSUME NEW r \in replies, HandleResponseFails(r) PROVE RequestInv'
  <2>1. /\ UNCHANGED <<hpc, hk, target, lastSeq, pending, wire, invalid>>
        /\ replies' = replies \ {r} /\ dead' = dead \cup {r}
    BY <1>6 DEF HandleResponseFails
  <2>2. \A q : Current(q)' <=> Current(q)
    BY <2>1 DEF Current
  <2> HIDE DEF CallType
  <2> QED BY <2>1, <2>2, SMT
<1>7. CASE \/ LoginCopy \/ LoginSend \/ Request \/ Create \/ CreateThrows
           \/ Wait \/ WaitTimeout \/ SendThrows \/ \E c \in Conn : Login(c)
           \/ \E c \in Conn, k \in Call : FetchAsset(c, k)
           \/ \E c \in Conn, k \in Call, i \in ServiceId : CallService(c, k, i)
  <2>1. /\ UNCHANGED <<clientVars, rosVars, invalid>>
        /\ hpc # "store" /\ hpc' # "store"
    <3> HIDE DEF CallType, RequestInv
    <3>1. CASE LoginCopy \/ LoginSend \/ \E c \in Conn : Login(c)
      BY <3>1 DEF LoginCopy, LoginSend, Login, Receives
    <3>2. CASE Request \/ Create \/ CreateThrows
      BY <3>2 DEF Request, Create, CreateThrows, Refuse
    <3>3. CASE Wait \/ WaitTimeout \/ SendThrows
      BY <3>3 DEF Wait, WaitTimeout, SendThrows, Refuse
    <3>4. ASSUME NEW c \in Conn, NEW k \in Call,
                 FetchAsset(c, k) \/ \E i \in ServiceId : CallService(c, k, i)
          PROVE  /\ UNCHANGED <<clientVars, rosVars, invalid>>
                 /\ hpc # "store" /\ hpc' # "store"
      BY <3>4 DEF FetchAsset, CallService, Receives, Refuse
    <3> QED BY <1>7, <3>1, <3>2, <3>3, <3>4
  <2>2. \A r : ~Current(r) /\ ~Current(r)'
    BY <2>1 DEF Current
  <2> QED BY <2>1, <2>2
<1>8. CASE \/ Poll \/ FetchDone \/ UNCHANGED vars
           \/ \E m \in tosend : SendResponse(m)
           \/ \E c \in Conn : Disconnect(c) \/ Close(c)
  <2>1. UNCHANGED <<clientVars, rosVars, invalid, handlerVars, callVars>>
    <3> HIDE DEF CallType, RequestInv
    <3> QED BY <1>8 DEF Poll, PollWake, PollQuery, PollErase, PollRemove,
            PollAdd, PollAdvertise, FetchDone, SendResponse, Disconnect,
            Close, vars
  <2>2. \A r : Current(r)' <=> Current(r)
    BY <2>1 DEF Current
  <2> QED BY <2>1, <2>2
<1> HIDE DEF CallType, RequestInv
<1> QED BY <1>1, <1>2, <1>3, <1>4, <1>5, <1>6, <1>7, <1>8
    DEF Next, Handler, Network, Executor, Exhausted

-----------------------------------------------------------------------------
(* The calls. *)


placeVars == <<caller, meant, hk, pending, tosend, fetchq, answers, refused>>

(* The handler thread's exception ends its call. *)
Refusing ==
    /\ hk \in Call /\ hk' = None
    /\ refused' = refused \cup {hk}
    /\ UNCHANGED <<caller, meant, pending, tosend, fetchq, answers>>

(* The steps that move a call. *)
LEMMA CallSteps ==
    ASSUME HandlerType, HandlerInv, [Next]_vars
    PROVE  \/ UNCHANGED placeVars
           \/ Refusing
           \/ \E c \in Conn, k \in Call, i \in ServiceId : CallService(c, k, i)
           \/ \E c \in Conn, k \in Call : FetchAsset(c, k)
           \/ Store
           \/ \E r \in replies : HandleResponse(r)
           \/ \E m \in tosend : SendResponse(m)
           \/ FetchDone
<1> USE DEF serverVars, bridgeVars, graphVars, pollVars, handlerVars, callVars,
      clientVars, rosVars, resultVars, trafficVars, updateVars
<1>1. CASE \/ Poll \/ UNCHANGED vars
           \/ \E n \in Name : GraphChange(n)
           \/ \E c \in Conn : Login(c) \/ Disconnect(c) \/ Close(c)
  BY <1>1 DEF placeVars, Poll, PollWake, PollQuery, PollErase, PollRemove,
     PollAdd, PollAdvertise, GraphChange, Login, Disconnect, Close, vars
<1>2. CASE LoginCopy \/ LoginSend \/ Create \/ Wait \/ Send
  BY <1>2 DEF placeVars, LoginCopy, LoginSend, Create, Wait, Send
<1>3. CASE \/ \E r \in wire : Serve(r)
           \/ \E r \in replies : HandleResponseFails(r)
  BY <1>3 DEF placeVars, Serve, HandleResponseFails
<1>4. CASE Request \/ CreateThrows \/ WaitTimeout \/ SendThrows
  <2>1. hk \in Call
    BY <1>4 DEF Request, CreateThrows, WaitTimeout, SendThrows, HandlerType,
       HandlerInv
  <2> QED BY <1>4, <2>1 DEF placeVars, Refusing, Refuse, Request, CreateThrows,
          WaitTimeout, SendThrows
<1> QED BY <1>1, <1>2, <1>3, <1>4
    DEF Next, Handler, Network, Executor, Exhausted

(* A connection that is not open stays so. *)
LEMMA ClosedStays ==
    ASSUME TableType, [Next]_vars, NEW c \in Conn, con'[c] = "open"
    PROVE  con[c] = "open"
<1> USE DEF serverVars, bridgeVars, graphVars, pollVars, handlerVars, callVars,
      clientVars, rosVars, resultVars, trafficVars, updateVars
<1>1. CASE \E d \in Conn : Disconnect(d) \/ Close(d)
  BY <1>1 DEF Disconnect, Close, TableType
<1>2. CASE \/ Poll \/ Handler \/ Executor \/ UNCHANGED vars
           \/ \E n \in Name : GraphChange(n)
           \/ \E d \in Conn, k \in Call :
                FetchAsset(d, k) \/ \E i \in ServiceId : CallService(d, k, i)
           \/ \E d \in Conn : Login(d)
  <2>1. UNCHANGED con
    <3>1. CASE Poll \/ \E n \in Name : GraphChange(n)
      BY <3>1 DEF Poll, PollWake, PollQuery, PollErase, PollRemove, PollAdd,
         PollAdvertise, GraphChange
    <3>2. CASE Handler
      BY <3>2 DEF Handler, LoginCopy, LoginSend, Request, Create,
         CreateThrows, Wait, WaitTimeout, Send, SendThrows, Store
    <3>3. CASE Executor \/ UNCHANGED vars
      BY <3>3 DEF Executor, Serve, HandleResponse, HandleResponseFails,
         SendResponse, FetchDone, vars
    <3>4. CASE \/ \E d \in Conn, k \in Call :
                    FetchAsset(d, k) \/ \E i \in ServiceId : CallService(d, k, i)
               \/ \E d \in Conn : Login(d)
      BY <3>4 DEF FetchAsset, CallService, Login
    <3> QED BY <1>2, <3>1, <3>2, <3>3, <3>4
  <2> QED BY <2>1
<1> QED BY <1>1, <1>2 DEF Next, Network, Exhausted

(* A step that moves no call. *)
LEMMA SamePlaces ==
    ASSUME CallType, PlaceInv, OnceInv, SentInv, KeptInv, UNCHANGED placeVars,
           \A i \in ServiceId :
             bclients[i] # None => bclients'[i] = bclients[i],
           \A c \in Conn : con'[c] = "open" => con[c] = "open"
    PROVE  PlaceInv' /\ OnceInv' /\ SentInv' /\ KeptInv'
<1> USE ServiceConstants DEF placeVars
<1>1. PlaceInv'
  BY DEF PlaceInv, Waits, Sends, Queues, Settled
<1>2. OnceInv'
  BY DEF OnceInv
<1>3. SentInv'
  BY DEF SentInv, CallType, Req
<1>4. KeptInv'
  BY DEF KeptInv, Waits, Sends, Queues, Settled, CallType
<1> QED BY <1>1, <1>2, <1>3, <1>4

(* A call that is refused was with the handler thread only. *)
LEMMA RefusedPlaces ==
    ASSUME CallType, PlaceInv, OnceInv, SentInv, KeptInv, Refusing,
           \A i \in ServiceId :
             bclients[i] # None => bclients'[i] = bclients[i],
           \A c \in Conn : con'[c] = "open" => con[c] = "open"
    PROVE  PlaceInv' /\ OnceInv' /\ SentInv' /\ KeptInv'
<1> USE ServiceConstants DEF Refusing
<1>1. \A k \in Call :
        /\ Waits(k)' = Waits(k) /\ Sends(k)' = Sends(k)
        /\ Queues(k)' = Queues(k)
        /\ Settled(k)' <=> Settled(k) \/ k = hk
  BY DEF Waits, Sends, Queues, Settled
<1>2. PlaceInv'
  <2>1. answers[hk] = <<>>
    BY DEF PlaceInv, Settled
  <2> QED BY <1>1, <2>1 DEF PlaceInv
<1>3. OnceInv'
  BY DEF OnceInv
<1>4. SentInv'
  BY DEF SentInv, CallType, Req
<1>5. KeptInv'
  BY <1>1 DEF KeptInv, CallType
<1> QED BY <1>2, <1>3, <1>4, <1>5

(* A call that is made was in no place before. *)
LEMMA CalledPlaces ==
    ASSUME TableType, CallType, HandlerInv, PlaceInv, OnceInv, SentInv, KeptInv,
           NEW c \in Conn, NEW k \in Call, NEW i \in ServiceId,
           CallService(c, k, i)
    PROVE  PlaceInv' /\ OnceInv' /\ SentInv' /\ KeptInv'
<1> USE ServiceConstants
<1>1. /\ caller[k] = None /\ hk = None
      /\ caller' = [caller EXCEPT ![k] = c]
      /\ meant' = [meant EXCEPT ![k] = name[i]]
      /\ \/ hk' = k /\ refused' = refused
         \/ hk' = None /\ refused' = refused \cup {k}
      /\ UNCHANGED <<con, bclients, pending, tosend, fetchq, answers>>
  BY DEF CallService, Receives, Refuse, HandlerInv, clientVars, bridgeVars
<1>2. \A x \in Call :
        /\ Waits(x)' = Waits(x) /\ Sends(x)' = Sends(x)
        /\ Queues(x)' = Queues(x)
        /\ Settled(x)' <=> Settled(x) \/ (x = k /\ hk' = None)
  BY <1>1 DEF Waits, Sends, Queues, Settled
<1>3. ~Waits(k) /\ ~Sends(k) /\ ~Queues(k) /\ ~Settled(k) /\ answers[k] = <<>>
  BY <1>1 DEF PlaceInv, Settled
<1>4. \A x \in Call : /\ caller'[x] = IF x = k THEN c ELSE caller[x]
                      /\ meant'[x] = IF x = k THEN name[i] ELSE meant[x]
  BY <1>1 DEF CallType
<1>5. PlaceInv'
  BY <1>1, <1>2, <1>3, <1>4, SMT DEF PlaceInv
<1>6. OnceInv'
  BY <1>1 DEF OnceInv
<1>7. SentInv'
  BY <1>1, <1>3, <1>4, SMT DEF SentInv, CallType, Waits, Sends, Queues
<1>8. KeptInv'
  BY <1>1, <1>2, <1>4 DEF KeptInv
<1> QED BY <1>5, <1>6, <1>7, <1>8

(* An asset request goes to the queue. *)
LEMMA QueuedPlaces ==
    ASSUME CallType, HandlerInv, PlaceInv, OnceInv, SentInv, KeptInv,
           NEW c \in Conn, NEW k \in Call, FetchAsset(c, k)
    PROVE  PlaceInv' /\ OnceInv' /\ SentInv' /\ KeptInv'
<1> USE ServiceConstants
<1>1. /\ caller[k] = None /\ hk = None
      /\ caller' = [caller EXCEPT ![k] = c]
      /\ meant' = [meant EXCEPT ![k] = Asset]
      /\ fetchq' = Append(fetchq, k)
      /\ UNCHANGED <<con, bclients, hk, refused, pending, tosend, answers>>
  BY DEF FetchAsset, Receives, HandlerInv, clientVars, bridgeVars, handlerVars
<1>2. /\ Len(fetchq') = Len(fetchq) + 1 /\ Len(fetchq) \in Nat
      /\ \A j \in 1..Len(fetchq) : fetchq'[j] = fetchq[j] /\ fetchq[j] \in Call
      /\ fetchq'[Len(fetchq) + 1] = k
  <2>1. fetchq \in Seq(Call)
    BY DEF CallType
  <2> QED BY <1>1, <2>1, SMT
<1>3. \A x \in Call :
        /\ Waits(x)' = Waits(x) /\ Sends(x)' = Sends(x)
        /\ Settled(x)' = Settled(x)
        /\ Queues(x)' <=> Queues(x) \/ x = k
  BY <1>1, <1>2, SMT DEF Waits, Sends, Queues, Settled
<1>4. ~Waits(k) /\ ~Sends(k) /\ ~Queues(k) /\ ~Settled(k) /\ answers[k] = <<>>
  BY <1>1 DEF PlaceInv, Settled
<1>5. \A x \in Call : /\ caller'[x] = IF x = k THEN c ELSE caller[x]
                      /\ meant'[x] = IF x = k THEN Asset ELSE meant[x]
  BY <1>1 DEF CallType
<1>6. PlaceInv'
  BY ZenonT(40), <1>1, <1>3, <1>4, <1>5 DEF PlaceInv
<1>7. OnceInv'
  BY <1>1, <1>2, <1>4, SMT DEF OnceInv, Queues
<1>8. SentInv'
  <2>1. \A j \in 1..Len(fetchq') : meant'[fetchq'[j]] = Asset
    BY <1>2, <1>5, SMT DEF SentInv
  <2>2. \A p \in pending' : /\ bclients'[p.req.id] = meant'[p.call]
                            /\ bclients'[p.req.id] # None
    BY <1>1, <1>4, <1>5 DEF SentInv, CallType, Waits
  <2>3. \A m \in tosend' : m.by = meant'[m.call]
    <3>1. \A m \in tosend : m.by = meant[m.call] /\ m.call \in Call
      BY DEF SentInv, CallType
    <3> QED BY <1>1, <1>4, <1>5, <3>1 DEF Sends
  <2>4. \A x \in Call : answers'[x] # <<>> => answers'[x] = <<meant'[x]>>
    <3>1. \A x \in Call : answers[x] # <<>> => answers[x] = <<meant[x]>>
      BY DEF SentInv
    <3> QED BY <1>1, <1>4, <1>5, <3>1
  <2> QED BY <2>1, <2>2, <2>3, <2>4 DEF SentInv
<1>9. KeptInv'
  BY ZenonT(40), <1>1, <1>3, <1>5 DEF KeptInv
<1> QED BY <1>6, <1>7, <1>8, <1>9

(* A call whose request is stored leaves the handler thread. *)
LEMMA StoredPlaces ==
    ASSUME TableType, HandlerType, CallType, NameInv, HandlerInv, PlaceInv,
           OnceInv, SentInv, KeptInv, Store
    PROVE  PlaceInv' /\ OnceInv' /\ SentInv' /\ KeptInv'
<1> USE ServiceConstants
<1> DEFINE new == [req |-> [id |-> target[hk], seq |-> lastSeq[target[hk]]],
                   call |-> hk]
<1>1. /\ hk \in Call /\ hk' = None
      /\ pending' = pending \cup {new}
      /\ UNCHANGED <<con, bclients, caller, meant, refused, tosend, fetchq,
                     answers>>
  BY DEF Store, HandlerInv, HandlerType, callVars, resultVars
<1>2. /\ new.call = hk /\ new.req.id = target[hk]
      /\ bclients[target[hk]] = meant[hk] /\ bclients[target[hk]] # None
  BY SMT DEF Store, HandlerInv, NameInv, TableType, ServiceId
<1> HIDE DEF new
<1>3. \A x \in Call :
        /\ Sends(x)' = Sends(x) /\ Queues(x)' = Queues(x)
        /\ Settled(x)' = Settled(x)
        /\ Waits(x)' <=> Waits(x) \/ x = hk
  BY <1>1, <1>2 DEF Waits, Sends, Queues, Settled
<1>4. /\ ~Waits(hk) /\ ~Sends(hk) /\ ~Queues(hk) /\ ~Settled(hk)
      /\ caller[hk] # None
  BY <1>1 DEF PlaceInv
<1>5. PlaceInv'
  BY <1>1, <1>3, <1>4 DEF PlaceInv
<1>6. OnceInv'
  BY ZenonT(40), <1>1, <1>2, <1>4 DEF OnceInv, Waits
<1>7. SentInv'
  BY <1>1, <1>2 DEF SentInv
<1>8. KeptInv'
  BY <1>1, <1>3 DEF KeptInv
<1> QED BY <1>5, <1>6, <1>7, <1>8

(* A response takes its call, and only that, out of pending_requests_. *)
LEMMA RespondedPlaces ==
    ASSUME CallType, RequestInv, PlaceInv, OnceInv, SentInv, KeptInv,
           NEW r \in replies, HandleResponse(r)
    PROVE  PlaceInv' /\ OnceInv' /\ SentInv' /\ KeptInv'
<1> USE ServiceConstants
<1>1. ~Current(r)
  BY DEF HandleResponse, PendingMutexFree, Current
<1>2. PICK p \in pending : p.req = r
  BY <1>1 DEF RequestInv
<1>3. {q \in pending : q.req = r} = {p}
  BY <1>2 DEF RequestInv
<1> DEFINE new == [call |-> p.call, by |-> bclients[r.id]]
<1>4. /\ pending' = pending \ {p}
      /\ tosend' = tosend \cup {new}
      /\ UNCHANGED <<con, bclients, hk, caller, meant, refused>>
      /\ UNCHANGED <<fetchq, answers>>
  BY <1>3 DEF HandleResponse, handlerVars, callVars, bridgeVars
<1>5. p.call \in Call /\ new.call = p.call /\ new.by = meant[p.call]
  BY <1>2 DEF CallType, SentInv
<1> HIDE DEF new
<1>6. \A x \in Call :
        /\ Queues(x)' = Queues(x) /\ Settled(x)' = Settled(x)
        /\ Waits(x)' <=> Waits(x) /\ x # p.call
        /\ Sends(x)' <=> Sends(x) \/ x = p.call
  <2>1. \A x \in Call : Waits(x)' <=> Waits(x) /\ x # p.call
    BY <1>4 DEF Waits, OnceInv
  <2> QED BY <1>4, <1>5, <2>1 DEF Sends, Queues, Settled
<1>7. Waits(p.call)
  BY DEF Waits
<1>8. PlaceInv'
  BY <1>4, <1>5, <1>6, <1>7 DEF PlaceInv
<1>9. OnceInv'
  <2>1. ~Sends(p.call)
    BY <1>5, <1>7 DEF PlaceInv
  <2> QED BY <1>4, <1>5, <2>1 DEF OnceInv, Sends
<1>10. SentInv'
  BY <1>4, <1>5 DEF SentInv
<1>11. KeptInv'
  BY <1>4, <1>6 DEF KeptInv
<1> QED BY <1>8, <1>9, <1>10, <1>11

(* A response that is sent answers its call, unless its client has gone. *)
LEMMA SentPlaces ==
    ASSUME CallType, PlaceInv, OnceInv, SentInv, KeptInv,
           NEW m \in tosend, SendResponse(m)
    PROVE  PlaceInv' /\ OnceInv' /\ SentInv' /\ KeptInv'
<1> USE ServiceConstants
<1> DEFINE k == m.call
<1>1. /\ k \in Call
      /\ tosend' = tosend \ {m}
      /\ UNCHANGED <<con, bclients, hk, caller, meant, refused>>
      /\ UNCHANGED <<pending, fetchq>>
  BY DEF SendResponse, CallType, handlerVars, callVars, clientVars, bridgeVars
<1>2. Sends(k)
  BY DEF Sends
<1>3. ~Settled(k) /\ answers[k] = <<>> /\ k \notin refused
  BY <1>1, <1>2 DEF PlaceInv, Settled
<1>4. \A x \in Call :
        answers'[x] = IF x = k /\ con[caller[k]] = "open" THEN <<meant[k]>>
                                                          ELSE answers[x]
  <2>1. m.by = meant[k]
    BY DEF SentInv
  <2>2. Append(answers[k], m.by) = <<m.by>>
    BY <1>3, SMT
  <2> QED BY <1>1, <2>1, <2>2 DEF SendResponse, Answer, CallType
<1>5. <<meant[k]>> # <<>>
  OBVIOUS
<1>6. \A x \in Call : Sends(x)' <=> Sends(x) /\ x # k
  BY <1>1 DEF Sends, OnceInv
<1> HIDE DEF k
<1>7. \A x \in Call :
        /\ Waits(x)' = Waits(x) /\ Queues(x)' = Queues(x)
        /\ Settled(x)' <=> Settled(x) \/ (x = k /\ con[caller[k]] = "open")
  BY <1>1, <1>4, <1>5 DEF Waits, Queues, Settled
<1>8. PlaceInv'
  <2>1. caller[k] # None /\ hk # k /\ ~Waits(k) /\ ~Queues(k)
    BY <1>1, <1>2 DEF PlaceInv
  <2> QED BY <1>1, <1>3, <1>4, <1>6, <1>7, <2>1 DEF PlaceInv
<1>9. OnceInv'
  BY <1>1 DEF OnceInv
<1>10. SentInv'
  BY <1>1, <1>4 DEF SentInv
<1>11. KeptInv'
  BY <1>1, <1>6, <1>7 DEF KeptInv
<1> QED BY <1>8, <1>9, <1>10, <1>11

(* An asset that is fetched answers its request. *)
LEMMA FetchedPlaces ==
    ASSUME CallType, PlaceInv, OnceInv, SentInv, KeptInv, FetchDone
    PROVE  PlaceInv' /\ OnceInv' /\ SentInv' /\ KeptInv'
<1> USE ServiceConstants
<1> DEFINE k == Head(fetchq)
<1>1. /\ fetchq # <<>> /\ fetchq' = Tail(fetchq)
      /\ UNCHANGED <<con, bclients, hk, caller, meant, refused>>
      /\ UNCHANGED <<pending, tosend>>
  BY DEF FetchDone, handlerVars, callVars, clientVars, bridgeVars
<1>2. /\ Len(fetchq) \in Nat /\ 1 \in 1..Len(fetchq) /\ k = fetchq[1]
      /\ Len(fetchq') = Len(fetchq) - 1 /\ k \in Call
      /\ \A j \in 1..Len(fetchq') : /\ fetchq'[j] = fetchq[j + 1]
                                    /\ j + 1 \in 1..Len(fetchq)
  <2>1. fetchq \in Seq(Call)
    BY DEF CallType
  <2> HIDE DEF CallType
  <2> QED BY <1>1, <2>1, SMT
<1>3. Queues(k)
  BY <1>2 DEF Queues
<1>4. ~Settled(k) /\ answers[k] = <<>> /\ k \notin refused
  BY <1>2, <1>3 DEF PlaceInv, Settled
<1>5. \A x \in Call :
        answers'[x] = IF x = k /\ con[caller[k]] = "open" THEN <<meant[k]>>
                                                          ELSE answers[x]
  <2>1. meant[k] = Asset
    BY <1>2 DEF SentInv
  <2>2. Append(answers[k], Asset) = <<Asset>>
    BY <1>4, SMT
  <2> QED BY <1>2, <2>1, <2>2 DEF FetchDone, Answer, CallType
<1>6. <<meant[k]>> # <<>>
  OBVIOUS
<1>7. \A x \in Call : Queues(x)' <=> Queues(x) /\ x # k
  <2>1. ASSUME NEW x \in Call, Queues(x)' PROVE Queues(x) /\ x # k
    <3>1. PICK j \in 1..Len(fetchq') : fetchq'[j] = x
      BY <2>1 DEF Queues
    <3>2. fetchq[j + 1] = x /\ j + 1 \in 1..Len(fetchq) /\ j + 1 # 1
      BY <1>2, <3>1, SMT
    <3> QED BY <1>2, <3>2 DEF Queues, OnceInv
  <2>2. ASSUME NEW x \in Call, Queues(x), x # k PROVE Queues(x)'
    <3>1. PICK j \in 1..Len(fetchq) : fetchq[j] = x
      BY <2>2 DEF Queues
    <3>2. j - 1 \in 1..Len(fetchq') /\ fetchq'[j - 1] = x
      BY <1>2, <2>2, <3>1, SMT
    <3> QED BY <3>2 DEF Queues
  <2> QED BY <2>1, <2>2
<1> HIDE DEF k
<1>8. \A x \in Call :
        /\ Waits(x)' = Waits(x) /\ Sends(x)' = Sends(x)
        /\ Settled(x)' <=> Settled(x) \/ (x = k /\ con[caller[k]] = "open")
  BY <1>1, <1>2, <1>5, <1>6 DEF Waits, Sends, Settled
<1>9. PlaceInv'
  <2>1. caller[k] # None /\ hk # k /\ ~Waits(k) /\ ~Sends(k)
    BY <1>2, <1>3 DEF PlaceInv
  <2> QED BY <1>1, <1>2, <1>4, <1>5, <1>7, <1>8, <2>1 DEF PlaceInv
<1>10. OnceInv'
  BY <1>1, <1>2, SMT DEF OnceInv
<1>11. SentInv'
  <2>1. \A j \in 1..Len(fetchq') : meant[fetchq'[j]] = Asset
    BY <1>2, SMT DEF SentInv
  <2>2. \A x \in Call : answers'[x] # <<>> => answers'[x] = <<meant[x]>>
    BY <1>5 DEF SentInv
  <2> QED BY <1>1, <2>1, <2>2 DEF SentInv
<1>12. KeptInv'
  BY <1>1, <1>7, <1>8 DEF KeptInv
<1> QED BY <1>9, <1>10, <1>11, <1>12

(* Every step keeps each call in one place, answered by the service it was *)
(* meant for, unless its client has gone.                                  *)
LEMMA CallInvStep ==
    ASSUME TableType, HandlerType, CallType, NameInv, HandlerInv, RequestInv,
           PlaceInv, OnceInv, SentInv, KeptInv, [Next]_vars
    PROVE  PlaceInv' /\ OnceInv' /\ SentInv' /\ KeptInv'
<1>1. \A i \in ServiceId : bclients[i] # None => bclients'[i] = bclients[i]
  BY NamesKept
<1>2. \A c \in Conn : con'[c] = "open" => con[c] = "open"
  BY ClosedStays
<1>3. CASE UNCHANGED placeVars
  BY <1>1, <1>2, <1>3, SamePlaces
<1>4. CASE Refusing
  BY <1>1, <1>2, <1>4, RefusedPlaces
<1> QED BY <1>3, <1>4, CallSteps, CalledPlaces, QueuedPlaces, StoredPlaces,
           RespondedPlaces, SentPlaces, FetchedPlaces

-----------------------------------------------------------------------------
(* The invariant holds in the first state. *)
LEMMA InitInv == Init => IInv
<1> SUFFICES ASSUME Init PROVE IInv
  OBVIOUS
<1> USE ServiceConstants DEF Init
<1>1. TableType
  BY SMT DEF TableType
<1>2. HandlerType
  BY DEF HandlerType
<1>3. CallType
  <2>1. caller \in [Call -> Conn \cup {None}]
    OBVIOUS
  <2>2. target \in [Call -> ServiceId \cup {0}]
    OBVIOUS
  <2>3. meant \in [Call -> Name \cup {Asset, None}]
    OBVIOUS
  <2>4. lastSeq \in [ServiceId -> Nat]
    OBVIOUS
  <2>5. /\ pending = {} /\ wire = {} /\ replies = {} /\ dead = {}
        /\ tosend = {} /\ refused = {} /\ invalid = FALSE
    OBVIOUS
  <2>6. fetchq \in Seq(Call)
    BY SMT
  <2>7. answers \in [Call -> Seq(Name \cup {Asset})]
    BY SMT
  <2> HIDE DEF Init
  <2> QED BY <2>1, <2>2, <2>3, <2>4, <2>5, <2>6, <2>7 DEF CallType
<1>4. UpdateInv /\ NameInv
  BY SMT DEF UpdateInv, NameInv
<1>5. HandlerInv /\ ViewInv
  BY DEF HandlerInv, ViewInv
<1>6. RequestInv
  BY DEF RequestInv, Current
<1>7. PlaceInv
  BY SMT DEF PlaceInv, Waits, Sends, Queues, Settled
<1>8. OnceInv /\ SentInv /\ KeptInv
  BY SMT DEF OnceInv, SentInv, KeptInv
<1> HIDE DEF Init
<1> QED BY <1>1, <1>2, <1>3, <1>4, <1>5, <1>6, <1>7, <1>8, TypeParts
    DEF IInv

(* Every step keeps it. *)
LEMMA NextInv == IInv /\ [Next]_vars => IInv'
<1> SUFFICES ASSUME IInv, [Next]_vars PROVE IInv'
  OBVIOUS
<1>1. TableType /\ HandlerType /\ CallType
  BY TypeParts DEF IInv
<1>2. TableType' /\ HandlerType' /\ CallType'
  BY <1>1, TableStep, HandlerTypeStep, CallTypeStep DEF IInv
<1>3. TypeOK'
  BY <1>2 DEF TypeOK, TableType, HandlerType, CallType
<1>4. UpdateInv' /\ NameInv' /\ HandlerInv' /\ ViewInv'
  BY <1>1, UpdateStep, NamesKept, HandlerStepInv, ViewStep DEF IInv
<1>5. RequestInv'
  BY <1>1, RequestStep DEF IInv
<1>6. PlaceInv' /\ OnceInv' /\ SentInv' /\ KeptInv'
  BY <1>1, CallInvStep DEF IInv
<1> QED BY <1>3, <1>4, <1>5, <1>6 DEF IInv

(* So it holds throughout. *)
LEMMA ServiceInv == Spec => []IInv
BY InitInv, NextInv, PTL DEF Spec

(* A client whose login is complete was told of every service, whatever    *)
(* add_services and remove_services did during handle_login.               *)
THEOREM ServicesTold == Spec => []ClientsKnowServices
<1>1. IInv => ClientsKnowServices
  BY DEF IInv, ViewInv, ClientsKnowServices
<1> QED BY <1>1, ServiceInv, PTL

(* Types are correct, and service_request finds the tables of the bridge   *)
(* and the server equal whenever it gets _services_mutex.                  *)
THEOREM ServicesAgree == Spec => []BridgeKnowsServices
<1>1. IInv => BridgeKnowsServices
  <2> SUFFICES ASSUME IInv, bmutex # "poll" PROVE advertised = services
    BY DEF IInv, BridgeKnowsServices
  <2>1. gone = {} /\ fresh = {}
    BY DEF IInv, UpdateInv
  <2> QED BY <2>1 DEF IInv, UpdateInv
<1> QED BY <1>1, ServiceInv, PTL

(* A call is answered at most once, by the service that was meant, and not *)
(* when it was refused: neither handle_response nor the GenericClients of  *)
(* services that went and came back mix up two calls.                      *)
THEOREM CallsAnsweredOnce == Spec => []AnswersMatchCalls
<1>1. IInv => AnswersMatchCalls
  BY DEF IInv, SentInv, PlaceInv, AnswersMatchCalls
<1> QED BY <1>1, ServiceInv, PTL

(* No call is lost between the threads, and handle_response finds the      *)
(* request of every response, because async_send_request holds             *)
(* pending_requests_mutex_ from the sending to the storing.                *)
THEOREM CallsKept == Spec => []NoCallForgotten
<1>1. IInv => NoCallForgotten
  <2> SUFFICES ASSUME IInv PROVE NoCallForgotten
    OBVIOUS
  <2>1. \A p \in pending : p.req \in wire \cup replies \cup dead
    BY DEF IInv, RequestInv
  <2>2. ~invalid
    BY DEF IInv, RequestInv
  <2>3. KeptInv
    BY DEF IInv
  <2> QED BY <2>1, <2>2, <2>3
      DEF NoCallForgotten, KeptInv, Waits, Sends, Queues, Settled
<1> QED BY <1>1, ServiceInv, PTL
=============================================================================
