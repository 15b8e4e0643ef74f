------------------------------ MODULE Lifecycle ------------------------------
(***************************************************************************)
(* Start, run and end of a ROS 2 bridge: the constructor of CoBridge, the  *)
(* signal that ends the executor, the destructor, Server::stop with the    *)
(* close handshakes and their bounded wait, the destruction of the         *)
(* members, and the thread of the HTTP server.  While the server runs,     *)
(* messages are delivered as in MessageDelivery.                           *)
(***************************************************************************)
EXTENDS MessageDelivery

CONSTANT MaxWaits    \* bound: rounds of the wait for the close handshakes

ASSUME WaitBound == MaxWaits \in Nat

VARIABLES
    main,       \* where the main thread is
    rosOk,      \* rclcpp::ok()
    poll,       \* _rosgraph_poll_thread
    httpOn,     \* HttpServer::_running
    http,       \* HttpServer::_server_thread
    io,         \* Server::_server_thread, which runs the io_service
    listening,  \* the acceptor is open
    waited,     \* duration_ms
    closing,    \* connections
    gone,       \* what has been destroyed
    unseen,     \* stop found no client although a connection was open
    missed,     \* a queue was stopped as its worker was about to block
    leftover,   \* callbacks queued or running when stop returned
    misuse      \* callbacks that used what had been destroyed

httpVars == <<httpOn, http>>
stopVars == <<listening, waited, closing, gone>>
endVars == <<unseen, missed, leftover, misuse>>
lifeVars == <<main, rosOk, poll, httpVars, io, stopVars, endVars>>
vars == <<deliveryVars, lifeVars>>

(* Before the constructor runs, or with the bridge up where a scenario is  *)
(* not about how it starts and stops.                                      *)
Init ==
    /\ DeliveryInit
    /\ rosOk = TRUE /\ waited = 0 /\ closing = {} /\ gone = {}
    /\ unseen = FALSE /\ missed = FALSE /\ leftover = {} /\ misuse = {}
    /\ \/ /\ bound.shutdown
          /\ main = "construct" /\ listening = FALSE /\ httpOn = FALSE
          /\ poll = "none" /\ http = "none" /\ io = "none"
       \/ /\ ~bound.shutdown
          /\ main = "spin" /\ listening = TRUE /\ httpOn = TRUE
          /\ poll = "running" /\ http = "select" /\ io = "running"

Main(from, to) == main = from /\ main' = to

-----------------------------------------------------------------------------
(* HttpServer::run_server. *)

(* Mutant of HttpFails: the thread that fails resets _running. *)
HttpFailsAndResets ==
    /\ http = "setup"
    /\ http' = "exited" /\ httpOn' = FALSE
    /\ UNCHANGED <<deliveryVars, main, rosOk, poll, io, stopVars, endVars>>

(* The socket cannot be set up: the thread ends, _running stays set. *)
HttpFails ==
    /\ http = "setup"
    /\ http' = "exited"
    /\ UNCHANGED <<deliveryVars, main, rosOk, poll, httpOn, io, stopVars, endVars>>

(* select, with a timeout, between two tests of _running; a connection is  *)
(* accepted, its request read with a timeout, answered, and closed.        *)
HttpLoop ==
    /\ \/ http = "setup" /\ http' = "select"
       \/ http = "select" /\ httpOn /\ bound.shutdown /\ http' = "serve"
       \/ http = "serve" /\ http' = "select"
       \/ http = "select" /\ ~httpOn /\ http' = "exited"
    /\ UNCHANGED <<deliveryVars, main, rosOk, poll, httpOn, io, stopVars, endVars>>

-----------------------------------------------------------------------------
(* The constructor: the HTTP server, the websocket server, the poll thread. *)
StartHttp ==
    /\ Main("construct", "listen")
    /\ httpOn' = TRUE /\ http' = "setup"
    /\ UNCHANGED <<deliveryVars, rosOk, poll, io, stopVars, endVars>>

StartServer ==
    /\ Main("listen", "spin")
    /\ listening' = TRUE /\ io' = "running" /\ poll' = "running"
    /\ UNCHANGED <<deliveryVars, rosOk, httpVars, waited, closing, gone, endVars>>

(* listen or start_accept fails: the constructor throws and the members    *)
(* there are get destroyed, the HTTP server first.                         *)
StartServerThrows ==
    /\ Main("listen", "throw")
    /\ UNCHANGED <<deliveryVars, rosOk, poll, httpVars, io, stopVars, endVars>>

(* Mutant of StopHttp: the thread is joined before _running is reset. *)
StopHttpLater ==
    /\ \/ Main("stopHttp", IF httpOn THEN "joinHttp" ELSE "stop")
       \/ Main("throw", IF httpOn THEN "throwJoin" ELSE "destroy")
    /\ UNCHANGED <<deliveryVars, rosOk, poll, httpVars, io, stopVars, endVars>>

(* HttpServer::stop: the thread is joined if _running was set. *)
StopHttp ==
    /\ \/ Main("stopHttp", IF httpOn THEN "joinHttp" ELSE "stop")
       \/ Main("throw", IF httpOn THEN "throwJoin" ELSE "destroy")
    /\ httpOn' = FALSE
    /\ UNCHANGED <<deliveryVars, rosOk, poll, http, io, stopVars, endVars>>

JoinHttp ==
    /\ http = "exited"
    /\ Main("joinHttp", "stop") \/ Main("throwJoin", "destroy")
    /\ http' = "joined"
    /\ UNCHANGED <<deliveryVars, rosOk, poll, httpOn, io, stopVars, endVars>>

-----------------------------------------------------------------------------
(* A signal shuts ROS down: spin returns once its threads are done, the    *)
(* poll thread leaves its loop, and the destructor joins it.               *)
Signal ==
    /\ main = "spin" /\ rosOk /\ bound.shutdown
    /\ rosOk' = FALSE
    /\ UNCHANGED <<deliveryVars, main, poll, httpVars, io, stopVars, endVars>>

SpinReturns ==
    /\ ~rosOk /\ \A e \in Exec : exec[e] = None
    /\ Main("spin", "joinPoll")
    /\ UNCHANGED <<deliveryVars, rosOk, poll, httpVars, io, stopVars, endVars>>

PollExits ==
    /\ poll = "running" /\ ~rosOk
    /\ poll' = "exited"
    /\ UNCHANGED <<deliveryVars, main, rosOk, httpVars, io, stopVars, endVars>>

JoinPoll ==
    /\ poll = "exited"
    /\ Main("joinPoll", "stopHttp")
    /\ poll' = "joined"
    /\ UNCHANGED <<deliveryVars, rosOk, httpVars, io, stopVars, endVars>>

-----------------------------------------------------------------------------
(* Server::stop. *)
Alive(c) == con[c] \in {"open", "closing"}

(* Mutant of StopListening: the test for a server that was stopped is inverted. *)
StopInverted ==
    /\ Main("stop", "destroy")
    /\ UNCHANGED <<deliveryVars, rosOk, poll, httpVars, io, stopVars, endVars>>

StopListening ==
    /\ Main("stop", "snapshot")
    /\ listening' = FALSE
    /\ UNCHANGED <<deliveryVars, rosOk, poll, httpVars, io, waited, closing, gone, endVars>>

(* Only clients that have logged in are closed.  The object of a closed    *)
(* connection whose callback has not run yet may still be there.           *)
StopSnapshot ==
    /\ \E S \in SUBSET {c \in clients : ~Alive(c)} :
         closing' = {c \in clients : Alive(c)} \cup S
    /\ Main("snapshot", IF closing' = {} THEN "join" ELSE "close")
    /\ unseen' = (closing' = {} /\ \E c \in Conn : Alive(c))
    /\ UNCHANGED <<deliveryVars, rosOk, poll, httpVars, io, listening, waited, gone,
                   missed, leftover, misuse>>

(* The close frame is reliable and goes to the end of the send queue. *)
CloseFrame == [n |-> None]

StopClose ==
    LET S == {c \in closing : con[c] = "open"}
    IN  /\ Main("close", "wait")
        /\ con' = [c \in Conn |-> IF c \in S THEN "closing" ELSE con[c]]
        /\ sendq' = [c \in Conn |->
              IF c \in S THEN Append(sendq[c], Entry(CloseFrame, TRUE)) ELSE sendq[c]]
        /\ pushed' = [c \in Conn |->
              IF c \in S THEN Append(pushed[c], CloseFrame) ELSE pushed[c]]
        /\ UNCHANGED <<writing, got, tableVars, rosVars, queueVars, bound, used, made, late,
                       overtaken, rosOk, poll, httpVars, io, stopVars, endVars>>

(* One round; poll_one does on this thread what the network thread would. *)
StopWait ==
    /\ Main("wait", IF io = "returned" THEN "join"
                    ELSE IF waited < MaxWaits THEN "wait" ELSE "terminate")
    /\ waited' = IF waited < MaxWaits THEN waited + 1 ELSE waited
    /\ UNCHANGED <<deliveryVars, rosOk, poll, httpVars, io, listening, closing, gone, endVars>>

(* The connections left are shut down, then the io_service is stopped: the *)
(* network thread reports them closed if it gets to it in between.         *)
StopTerminate ==
    /\ Main("terminate", "halt")
    /\ con' = [c \in Conn |-> IF c \in closing /\ Alive(c) THEN "terminated" ELSE con[c]]
    /\ UNCHANGED <<sendq, writing, got, tableVars, rosVars, queueVars, bound, used, histVars,
                   rosOk, poll, httpVars, io, stopVars, endVars>>

StopHalt ==
    /\ Main("halt", "join")
    /\ io' = IF io = "running" THEN "halted" ELSE io
    /\ UNCHANGED <<deliveryVars, rosOk, poll, httpVars, stopVars, endVars>>

StopJoin ==
    /\ io = "returned"
    /\ Main("join", "clear")
    /\ UNCHANGED <<deliveryVars, rosOk, poll, httpVars, io, stopVars, endVars>>

StopClear ==
    /\ Main("clear", "destroy")
    /\ clients' = {}
    /\ subid' = [c \in Conn |-> None]
    /\ leftover' = Range(hq) \cup ({hrun["handler"]} \ {None})
    /\ UNCHANGED <<netVars, rossub, rosVars, queueVars, bound, used, histVars, rosOk, poll,
                   httpVars, io, stopVars, unseen, missed, misuse>>

-----------------------------------------------------------------------------
(* The members are destroyed: those of the bridge, then those of the       *)
(* server, of which all that are declared after the callback queue go      *)
(* before it is stopped and its thread joined.  Those of the bridge begin  *)
(* with _fetch_asset_queue.  The stop of a queue may miss a worker that    *)
(* found nothing to do and is about to block, as in CallbackQueue.         *)
Destroy ==
    /\ \/ Main("destroy", "joinFetch") /\ missed' \in BOOLEAN /\ UNCHANGED <<gone, hquit>>
       \/ /\ ~missed /\ Main("joinFetch", "destroyTables") /\ gone' = {"bridge"}
          /\ UNCHANGED <<missed, hquit>>
       \/ /\ Main("destroyTables", "quit") /\ gone' = {"bridge", "tables"}
          /\ UNCHANGED <<missed, hquit>>
       \/ /\ Main("quit", "joinHandler") /\ hquit' = TRUE /\ UNCHANGED gone
          /\ missed' \in {FALSE} \cup {hrun["handler"] = None /\ hq = <<>>}
       \/ /\ ~missed /\ hrun["handler"] = None /\ Main("joinHandler", "destroyed")
          /\ UNCHANGED <<gone, missed, hquit>>
    /\ UNCHANGED <<netVars, tableVars, rosVars, hq, hrun, stage, bound, used, histVars, rosOk,
                   poll, httpVars, io, listening, waited, closing, unseen, leftover, misuse>>

(* A worker that missed the notification may wake up for no reason. *)
SpuriousWakeup ==
    /\ missed /\ missed' = FALSE
    /\ UNCHANGED <<deliveryVars, main, rosOk, poll, httpVars, io, stopVars, unseen, leftover,
                   misuse>>

-----------------------------------------------------------------------------
(* The other threads while all that goes on. *)
Executor ==
    /\ \E e \in Exec : (main = "spin" /\ \E c \in Conn : Take(e, c)) \/ Lookup(e) \/ Send(e)
    /\ UNCHANGED lifeVars

Ros ==
    /\ main = "spin"
    /\ \E p \in Pub : PublisherJoins(p) \/ Publish(p)
    /\ UNCHANGED lifeVars

(* run() returns when it is stopped, or has nothing left to wait for. *)
NetworkReturns ==
    /\ \/ io = "halted"
       \/ io = "running" /\ ~listening /\ \A c \in Conn : con[c] \in {"none", "closed"}
    /\ io' = "returned"
    /\ UNCHANGED <<deliveryVars, main, rosOk, poll, httpVars, stopVars, endVars>>

(* What a client does, and when: nothing obliges it to. *)
Client ==
    /\ io = "running"
    /\ \E c \in Conn : (listening /\ Open(c)) \/ Leave(c) \/ Written(c)
                       \/ \E r \in Request : Receive(r)
    /\ UNCHANGED lifeVars

Network ==
    /\ io = "running"
    /\ \E c \in Conn :
          \/ WriteFrame(c)
          \/ con[c] = "terminated" /\ Down(c)
    /\ UNCHANGED lifeVars

Time ==
    /\ io = "running"
    /\ \E c \in Conn : Ages(c) \/ Notice(c)
    /\ UNCHANGED lifeVars

Handler ==
    /\ hquit => hrun["handler"] # None
    /\ Handle
    /\ misuse' = IF \/ "tables" \in gone /\ hrun["handler"] # None
                    \/ "bridge" \in gone /\ rossub' # rossub
                   THEN misuse \cup {hrun["handler"]} ELSE misuse
    /\ UNCHANGED <<main, rosOk, poll, httpVars, io, stopVars, unseen, missed, leftover>>

MainThread ==
    \/ StartHttp \/ StopHttp \/ JoinHttp \/ SpinReturns \/ JoinPoll
    \/ StopListening \/ StopSnapshot \/ StopClose \/ StopWait \/ StopTerminate
    \/ StopHalt \/ StopJoin \/ StopClear \/ Destroy

Terminated ==
    /\ \/ main = "destroyed"
       \/ main = "spin" /\ ~bound.shutdown
       \/ main = "join" /\ unseen
       \/ missed
    /\ UNCHANGED vars

Next ==
    \/ MainThread \/ StartServer \/ StartServerThrows \/ Signal
    \/ HttpFails \/ HttpLoop \/ PollExits \/ SpuriousWakeup
    \/ Executor \/ Ros \/ NetworkReturns \/ Network \/ Client \/ Time \/ Handler
    \/ Terminated

Spec == Init /\ [][Next]_vars

(***************************************************************************)
(* The threads of the process are scheduled, and a call they wait in has a *)
(* timeout or an end.  Nothing obliges a client, a publisher or a user.    *)
(***************************************************************************)
FairSpec ==
    /\ Spec
    /\ WF_vars(MainThread) /\ WF_vars(HttpLoop) /\ WF_vars(PollExits)
    /\ WF_vars(Executor) /\ WF_vars(NetworkReturns) /\ WF_vars(Handler)

-----------------------------------------------------------------------------
(* Every variable has the type of the field or thread it stands for. *)
TypeOK ==
    /\ con \in [Conn -> {"none", "open", "closing", "terminated", "closed"}]
    /\ clients \subseteq Conn /\ closing \subseteq Conn
    /\ subid \in [Conn -> SubId \cup {None}]
    /\ pubs \subseteq Pub
    /\ hq \in Seq(Request) /\ hrun["handler"] \in Request \cup {None}
    /\ stage \in {"first", "second"}
    /\ poll \in {"none", "running", "exited", "joined"}
    /\ http \in {"none", "setup", "select", "serve", "exited", "joined"}
    /\ io \in {"none", "running", "halted", "returned"}
    /\ waited \in 0 .. MaxWaits
    /\ misuse \subseteq Request

(* A thread object that still has a thread is never destroyed: when the    *)
(* bridge is gone, or its constructor has thrown, the poll thread, the     *)
(* HTTP thread and the handler thread were joined, also when the HTTP      *)
(* server could not bind and its thread ended by itself.  Nor does a       *)
(* client that had logged in when Server::stop looked stay open.           *)
NothingOutlives ==
    /\ TypeOK
    /\ main = "destroyed" =>
         /\ http = "joined" /\ poll = (IF io = "none" THEN "none" ELSE "joined")
         /\ hrun["handler"] = None
    /\ main \in {"clear", "destroy", "joinFetch", "destroyTables", "quit", "joinHandler", "destroyed"}
         => \A c \in closing : ~Alive(c)

(* Callbacks do run while members they use are destroyed, but only those   *)
(* that were queued or running when Server::stop returned: it has joined   *)
(* the network thread, and no other thread queues any.                     *)
MisuseOnlyOfLeftovers == misuse \subseteq leftover

(* After a signal the destructor comes to its end, whatever clients do:    *)
(* they are waited for a bounded time.  There are two exceptions.  With no *)
(* client but a connection that has not logged in, stop closes nothing,    *)
(* and waits for the network thread as long as it stays.  And the stop of  *)
(* a callback queue, of the server or for assets, that misses its worker   *)
(* joins a thread that sleeps on.                                          *)
ShutdownCompletes == ~rosOk ~> (main = "destroyed" \/ unseen \/ missed)
=============================================================================
