------------------------ MODULE ConnectionGraphProofs ------------------------
(***************************************************************************)
(* For any number of clients, any graph and any number of changes: the     *)
(* bridge watches while the server counts subscribers, one client at most  *)
(* is marked, and it catches up with the ROS graph except after one of the *)
(* three accidents that the history variables record.                      *)
(*                                                                         *)
(* The argument follows the graph on its way: the one queried last is the  *)
(* ROS graph (GraphInv), the server's graph is what the marked client will *)
(* have been told when the messages under way have arrived (ViewInv), and  *)
(* the client starts from nothing, because the views left over from other  *)
(* subscriptions keep the count positive (LeakInv).                        *)
(***************************************************************************)
EXTENDS ConnectionGraph, TLAPS

(* The subscription of the marked client is counted once. *)
Own == IF flagged # {} \/ hpc = "uncount" THEN 1 ELSE 0

(* The count, the mark and the bridge's flag at each place of the handler. *)
CountInv ==
    /\ hpc # "idle" => hc \in Conn
    /\ hpc = "idle" => (wants <=> count > 0)
    /\ hpc \notin {"idle", "watch"} => wants
    /\ hpc \in {"watch", "store", "send", "mark"} => count = 1 /\ flagged = {}
    /\ hpc \in {"copy", "reply", "uncount"} => count > 0
    /\ hpc = "uncount" => flagged = {}
    /\ flagged # {} => wants /\ count > 0
    /\ AtMostOneMarked

(* A client that knows of the graph and is not marked has a subscription   *)
(* of its own in the count, which nothing takes out again.                 *)
LeakInv ==
    /\ hpc \in {"copy", "reply"} /\ hc \notin flagged => count > Own
    /\ \A d \in Conn \ flagged : view[d] # NoGraph => count > Own
    /\ hpc \in {"watch", "store", "send", "mark"} =>
         \A d \in Conn : view[d] = NoGraph

(* The graph queried last, wherever it is. *)
Newest ==
    IF ppc = "store" /\ older # "poll" THEN pgraph
    ELSE IF hpc = "store" /\ older # "handler" THEN hgraph
    ELSE graph

Serving == flagged # {} \/ hpc \in {"store", "send", "mark"}

(* While somebody is served, the graph queried last is the ROS graph, or   *)
(* the poll thread is about to query again.                                *)
GraphInv ==
    /\ ppc = "store" /\ hpc = "store" => older # None
    /\ Serving /\ ~behind => event \/ ppc = "woken" \/ Newest = ros

(* What a client knows once the messages under way have been sent. *)
Replied(c) == IF hpc = "reply" /\ hc = c THEN Apply(hmsg, view[c]) ELSE view[c]
Told(c) == IF ppc = "send" THEN Apply(pmsg, Replied(c)) ELSE Replied(c)

Served == {c \in flagged \ crossed : con[c] = "open"}

(* That is the server's graph, or before the snapshot a part of it. *)
ViewInv ==
    /\ ppc = "send" /\ Served # {} =>
         \A n \in Name : pmsg[n] \in {Keep, graph[n]}
    /\ \A c \in Served :
         IF hpc = "copy" /\ hc = c
           THEN \A n \in Name : Told(c)[n] \in {Absent, graph[n]}
           ELSE \A n \in Name : Told(c)[n] = graph[n]

IInv == TypeOK /\ CountInv /\ LeakInv /\ GraphInv /\ ViewInv

-----------------------------------------------------------------------------
(* Messages are messages, and a client's view stays a graph. *)
LEMMA ApplyType ==
    ASSUME NEW msg \in Message, NEW g \in Graph
    PROVE  Apply(msg, g) \in Graph
BY DEF Apply, Message, Graph

(* The difference of two graphs is a message. *)
LEMMA DiffType ==
    ASSUME NEW old \in Graph, NEW new \in Graph
    PROVE  Diff(old, new) \in Message
BY DEF Diff, Message, Graph

(* The snapshot of a graph is a message. *)
LEMMA SnapshotType ==
    ASSUME NEW g \in Graph
    PROVE  Snapshot(g) \in Message
BY DEF Snapshot, Message, Graph

(* So are the empty graph and the empty message. *)
LEMMA NothingType == NoGraph \in Graph /\ NoMessage \in Message
BY DEF NoGraph, NoMessage, Message, Graph

(* Every variable keeps its type; the count stays in its bounds. *)
LEMMA TypeStep ==
    ASSUME TypeOK, CountInv, [Next]_vars
    PROVE  TypeOK'
<1> USE GraphConstants, NothingType DEF TypeOK, CountInv
<1> USE DEF clientVars, serverVars, rosVars, pollVars, handlerVars, history
<1>1. ASSUME NEW n \in Name, NEW v \in Ids \cup {Absent},
            GraphChange(n, v)
     PROVE  TypeOK'
  BY <1>1 DEF GraphChange, Graph
<1>2. CASE PollWake
  BY <1>2 DEF PollWake
<1>3. CASE PollQuery
  BY <1>3 DEF PollQuery
<1>4. CASE PollQueryThrows
  BY <1>4 DEF PollQueryThrows
<1>5. CASE PollStore
  BY <1>5, DiffType DEF PollStore
<1>6. CASE PollSend
  BY <1>6, ApplyType DEF PollSend, Broadcast, Receivers
<1>7. ASSUME NEW c \in Conn, Login(c) PROVE TypeOK'
  BY <1>7 DEF Login
<1>8. ASSUME NEW c \in Conn, Subscribe(c) PROVE TypeOK'
  BY <1>8 DEF Subscribe, Receives
<1>9. CASE Watch
  BY <1>9 DEF Watch
<1>10. CASE WatchThrows
  BY <1>10 DEF WatchThrows, EndRequest
<1>11. CASE WatchStore
  BY <1>11, DiffType DEF WatchStore
<1>12. CASE WatchSend
  BY <1>12, ApplyType DEF WatchSend, Broadcast, Receivers
<1>13. CASE Mark
  BY <1>13 DEF Mark, EndRequest
<1>14. CASE Copy
  BY <1>14, SnapshotType DEF Copy
<1>15. CASE Reply
  BY <1>15, ApplyType DEF Reply, EndRequest
<1>16. ASSUME NEW c \in Conn, Unsubscribe(c) PROVE TypeOK'
  BY <1>16 DEF Unsubscribe, Receives
<1>17. CASE Uncount
  BY <1>17 DEF Uncount, EndRequest
<1>18. ASSUME NEW c \in Conn, Disconnect(c) PROVE TypeOK'
  BY <1>18 DEF Disconnect
<1>19. ASSUME NEW c \in Conn, Close(c) PROVE TypeOK'
  BY <1>19 DEF Close
<1>20. CASE UNCHANGED vars
  BY <1>20 DEF vars
<1> HIDE DEF TypeOK, CountInv
<1> QED BY <1>1, <1>2, <1>3, <1>4, <1>5, <1>6, <1>7, <1>8, <1>9, <1>10,
           <1>11, <1>12, <1>13, <1>14, <1>15, <1>16, <1>17, <1>18, <1>19,
           <1>20
    DEF Next, Poll, HandlerStep, Exhausted

(* The count follows the handler through its requests. *)
LEMMA CountStep ==
    ASSUME TypeOK, CountInv, [Next]_vars
    PROVE  CountInv'
<1> USE DEF TypeOK, CountInv, AtMostOneMarked
<1> USE DEF clientVars, serverVars, rosVars, pollVars, handlerVars, history
<1>1. ASSUME NEW n \in Name, NEW v \in Ids \cup {Absent},
            GraphChange(n, v)
     PROVE  CountInv'
  BY <1>1 DEF GraphChange
<1>2. CASE PollWake
  BY <1>2 DEF PollWake
<1>3. CASE PollQuery
  BY <1>3 DEF PollQuery
<1>4. CASE PollQueryThrows
  BY <1>4 DEF PollQueryThrows
<1>5. CASE PollStore
  BY <1>5 DEF PollStore
<1>6. CASE PollSend
  BY <1>6 DEF PollSend, Broadcast, Receivers
<1>7. ASSUME NEW c \in Conn, Login(c) PROVE CountInv'
  BY <1>7 DEF Login
<1>8. ASSUME NEW c \in Conn, Subscribe(c) PROVE CountInv'
  BY <1>8 DEF Subscribe, Receives
<1>9. CASE Watch
  BY <1>9 DEF Watch
<1>10. CASE WatchThrows
  BY <1>10 DEF WatchThrows, EndRequest
<1>11. CASE WatchStore
  BY <1>11 DEF WatchStore
<1>12. CASE WatchSend
  BY <1>12 DEF WatchSend, Broadcast, Receivers
<1>13. CASE Mark
  BY <1>13 DEF Mark, EndRequest
<1>14. CASE Copy
  BY <1>14 DEF Copy
<1>15. CASE Reply
  BY <1>15 DEF Reply, EndRequest
<1>16. ASSUME NEW c \in Conn, Unsubscribe(c) PROVE CountInv'
  BY <1>16 DEF Unsubscribe, Receives
<1>17. CASE Uncount
  BY <1>17 DEF Uncount, EndRequest
<1>18. ASSUME NEW c \in Conn, Disconnect(c) PROVE CountInv'
  BY <1>18 DEF Disconnect
<1>19. ASSUME NEW c \in Conn, Close(c) PROVE CountInv'
  BY <1>19 DEF Close
<1>20. CASE UNCHANGED vars
  BY <1>20 DEF vars
<1> HIDE DEF TypeOK, CountInv, AtMostOneMarked
<1> QED BY <1>1, <1>2, <1>3, <1>4, <1>5, <1>6, <1>7, <1>8, <1>9, <1>10,
           <1>11, <1>12, <1>13, <1>14, <1>15, <1>16, <1>17, <1>18, <1>19,
           <1>20
    DEF Next, Poll, HandlerStep, Exhausted

(* Only the marked client takes its subscription out of the count. *)
LEMMA LeakStep ==
    ASSUME TypeOK, CountInv, LeakInv, [Next]_vars
    PROVE  LeakInv'
<1> USE DEF TypeOK, CountInv, AtMostOneMarked, LeakInv, Own
<1> USE DEF clientVars, serverVars, rosVars, pollVars, handlerVars, history
<1>1. ASSUME NEW n \in Name, NEW v \in Ids \cup {Absent},
            GraphChange(n, v)
     PROVE  LeakInv'
  BY <1>1 DEF GraphChange
<1>2. CASE PollWake
  BY <1>2 DEF PollWake
<1>3. CASE PollQuery
  BY <1>3 DEF PollQuery
<1>4. CASE PollQueryThrows
  BY <1>4 DEF PollQueryThrows
<1>5. CASE PollStore
  BY <1>5 DEF PollStore
<1>6. CASE PollSend
  BY <1>6 DEF PollSend, Broadcast, Receivers
<1>7. ASSUME NEW c \in Conn, Login(c) PROVE LeakInv'
  BY <1>7 DEF Login
<1>8. ASSUME NEW c \in Conn, Subscribe(c) PROVE LeakInv'
  BY <1>8 DEF Subscribe, Receives
<1>9. CASE Watch
  BY <1>9 DEF Watch
<1>10. CASE WatchThrows
  BY <1>10 DEF WatchThrows, EndRequest
<1>11. CASE WatchStore
  BY <1>11 DEF WatchStore
<1>12. CASE WatchSend
  BY <1>12 DEF WatchSend, Broadcast, Receivers
<1>13. CASE Mark
  BY <1>13 DEF Mark, EndRequest
<1>14. CASE Copy
  BY <1>14 DEF Copy
<1>15. CASE Reply
  BY <1>15 DEF Reply, EndRequest
<1>16. ASSUME NEW c \in Conn, Unsubscribe(c) PROVE LeakInv'
  BY <1>16 DEF Unsubscribe, Receives
<1>17. CASE Uncount
  BY <1>17 DEF Uncount, EndRequest
<1>18. ASSUME NEW c \in Conn, Disconnect(c) PROVE LeakInv'
  BY <1>18 DEF Disconnect
<1>19. ASSUME NEW c \in Conn, Close(c) PROVE LeakInv'
  BY <1>19 DEF Close
<1>20. CASE UNCHANGED vars
  BY <1>20 DEF vars
<1> HIDE DEF TypeOK, CountInv, AtMostOneMarked, LeakInv, Own
<1> QED BY <1>1, <1>2, <1>3, <1>4, <1>5, <1>6, <1>7, <1>8, <1>9, <1>10,
           <1>11, <1>12, <1>13, <1>14, <1>15, <1>16, <1>17, <1>18, <1>19,
           <1>20
    DEF Next, Poll, HandlerStep, Exhausted

(* The threads overwrite each other, and the history says when. *)
LEMMA GraphStep ==
    ASSUME TypeOK, CountInv, GraphInv, [Next]_vars
    PROVE  GraphInv'
<1> USE GraphConstants DEF TypeOK, CountInv, GraphInv, Newest, Serving
<1> USE DEF clientVars, serverVars, rosVars, pollVars, handlerVars, history
<1>1. ASSUME NEW n \in Name, NEW v \in Ids \cup {Absent},
            GraphChange(n, v)
     PROVE  GraphInv'
  BY <1>1 DEF GraphChange
<1>2. CASE PollWake
  BY <1>2 DEF PollWake
<1>3. CASE PollQuery
  BY <1>3 DEF PollQuery
<1>4. CASE PollQueryThrows
  BY <1>4 DEF PollQueryThrows
<1>5. CASE PollStore
  BY <1>5 DEF PollStore
<1>6. CASE PollSend
  BY <1>6 DEF PollSend, Broadcast, Receivers
<1>7. ASSUME NEW c \in Conn, Login(c) PROVE GraphInv'
  BY <1>7 DEF Login
<1>8. ASSUME NEW c \in Conn, Subscribe(c) PROVE GraphInv'
  BY <1>8 DEF Subscribe, Receives
<1>9. CASE Watch
  BY <1>9 DEF Watch
<1>10. CASE WatchThrows
  BY <1>10 DEF WatchThrows, EndRequest
<1>11. CASE WatchStore
  BY <1>11 DEF WatchStore
<1>12. CASE WatchSend
  BY <1>12 DEF WatchSend, Broadcast, Receivers
<1>13. CASE Mark
  BY <1>13 DEF Mark, EndRequest
<1>14. CASE Copy
  BY <1>14 DEF Copy
<1>15. CASE Reply
  BY <1>15 DEF Reply, EndRequest
<1>16. ASSUME NEW c \in Conn, Unsubscribe(c) PROVE GraphInv'
  BY <1>16 DEF Unsubscribe, Receives
<1>17. CASE Uncount
  BY <1>17 DEF Uncount, EndRequest
<1>18. ASSUME NEW c \in Conn, Disconnect(c) PROVE GraphInv'
  BY <1>18 DEF Disconnect
<1>19. ASSUME NEW c \in Conn, Close(c) PROVE GraphInv'
  BY <1>19 DEF Close
<1>20. CASE UNCHANGED vars
  BY <1>20 DEF vars
<1> HIDE DEF TypeOK, CountInv, GraphInv, Newest, Serving
<1> QED BY <1>1, <1>2, <1>3, <1>4, <1>5, <1>6, <1>7, <1>8, <1>9, <1>10,
           <1>11, <1>12, <1>13, <1>14, <1>15, <1>16, <1>17, <1>18, <1>19,
           <1>20
    DEF Next, Poll, HandlerStep, Exhausted

(* A step keeps it that leaves alone the server's graph, the messages on   *)
(* their way and the views of those served.                                *)
LEMMA SameView ==
    ASSUME ViewInv,
           UNCHANGED <<pmsg, graph>>,
           ppc' = "send" <=> ppc = "send",
           Served' \subseteq Served,
           \A c \in Served' :
             /\ view'[c] = view[c]
             /\ hpc = "reply" /\ hc = c <=> hpc' = "reply" /\ hc' = c
             /\ hpc = "reply" /\ hc = c => hmsg' = hmsg
             /\ hpc = "copy" /\ hc = c => hpc' = "copy" /\ hc' = c
    PROVE  ViewInv'
<1>1. \A c \in Served' : Told(c)' = Told(c)
  BY DEF Told, Replied
<1>2. Served' # {} => Served # {}
  OBVIOUS
<1> HIDE DEF Told, Served
<1>3. ASSUME NEW c \in Served', NEW n \in Name
      PROVE  IF hpc' = "copy" /\ hc' = c
               THEN Told(c)'[n] \in {Absent, graph'[n]}
               ELSE Told(c)'[n] = graph'[n]
  <2>1. IF hpc = "copy" /\ hc = c THEN Told(c)[n] \in {Absent, graph[n]}
                                 ELSE Told(c)[n] = graph[n]
    BY DEF ViewInv
  <2> QED BY <1>1, <2>1
<1>4. ppc' = "send" /\ Served' # {} =>
        \A n \in Name : pmsg'[n] \in {Keep, graph'[n]}
  BY <1>2 DEF ViewInv
<1> QED BY <1>3, <1>4 DEF ViewInv

(* What the marked client will have been told stays the graph. *)
LEMMA ViewStep ==
    ASSUME TypeOK, CountInv, LeakInv, ViewInv, [Next]_vars
    PROVE  ViewInv'
<1> USE GraphConstants DEF TypeOK, CountInv, Served
<1> USE DEF clientVars, serverVars, rosVars, pollVars, handlerVars, history
<1>1. ASSUME NEW n \in Name, NEW v \in Ids \cup {Absent},
            GraphChange(n, v)
     PROVE  ViewInv'
  BY <1>1, SameView DEF GraphChange
<1>2. CASE PollWake
  BY <1>2, SameView DEF PollWake
<1>3. CASE PollQuery
  BY <1>3, SameView DEF PollQuery
<1>4. CASE PollQueryThrows
  BY <1>4, SameView DEF PollQueryThrows
<1>5. CASE PollStore
  <2>1. /\ ppc # "send" /\ ppc' = "send"
        /\ pmsg' = Diff(graph, pgraph) /\ graph' = pgraph
        /\ UNCHANGED <<hpc, hc, hmsg, view, Served>>
        /\ \A n \in Name : pgraph[n] # Keep
    BY <1>5 DEF PollStore, Graph
  <2> HIDE DEF TypeOK, CountInv, Served
  <2>2. \A n \in Name : pmsg'[n] \in {Keep, graph'[n]}
    BY <2>1 DEF Diff
  <2>3. ASSUME NEW c \in Served'
        PROVE  Told(c)' = Apply(pmsg', Told(c))
    BY <2>1 DEF Told, Replied
  <2>4. ASSUME NEW c \in Served', NEW n \in Name
        PROVE  IF hpc' = "copy" /\ hc' = c
                 THEN Told(c)'[n] \in {Absent, graph'[n]}
                 ELSE Told(c)'[n] = graph'[n]
    <3>1. IF hpc = "copy" /\ hc = c THEN Told(c)[n] \in {Absent, graph[n]}
                                   ELSE Told(c)[n] = graph[n]
      BY <2>1 DEF ViewInv
    <3>2. /\ graph[n] = graph'[n] => Told(c)'[n] = Told(c)[n]
          /\ graph[n] # graph'[n] => Told(c)'[n] = graph'[n]
      BY <2>1, <2>3 DEF Diff, Apply
    <3> QED BY <2>1, <3>1, <3>2
  <2> QED BY <2>2, <2>4 DEF ViewInv
<1>6. CASE PollSend
  <2>1. /\ ppc = "send" /\ ppc' = "waiting"
        /\ UNCHANGED <<con, flagged, hpc, hc, hmsg, graph>>
        /\ Served' \subseteq Served
        /\ \A c \in Served' : hpc # "reply" \/ hc # c
    BY <1>6 DEF PollSend, Receivers
  <2>2. \A c \in Served' : view'[c] = Apply(pmsg, view[c])
    BY <1>6 DEF PollSend, Broadcast, Receivers
  <2>3. \A c \in Served' : Told(c)' = Told(c)
    <3> HIDE DEF TypeOK, CountInv, Served
    <3> QED BY <2>1, <2>2 DEF Told, Replied
  <2> HIDE DEF TypeOK, CountInv, Served
  <2> QED BY <2>1, <2>3 DEF ViewInv
<1>7. ASSUME NEW c \in Conn, Login(c) PROVE ViewInv'
  BY <1>7, SameView DEF Login
<1>8. ASSUME NEW c \in Conn, Subscribe(c) PROVE ViewInv'
  BY <1>8, SameView DEF Subscribe, Receives
<1>9. CASE Watch
  BY <1>9, SameView DEF Watch
<1>10. CASE WatchThrows
  BY SMTT(30), <1>10, SameView DEF WatchThrows, EndRequest
<1>11. CASE WatchStore
  BY SMTT(30), <1>11 DEF WatchStore, ViewInv
<1>12. CASE WatchSend
  BY <1>12 DEF WatchSend, Broadcast, Receivers, ViewInv
<1>13. CASE Mark
  <2>1. CASE hc \in clients
    <3>1. /\ UNCHANGED <<ppc, pmsg, hmsg, graph, view>>
          /\ flagged = {} /\ hpc' = "copy" /\ hc' = hc
          /\ Served' \subseteq {hc}
          /\ Served' # {} => ppc # "send"
      BY <1>13, <2>1 DEF Mark
    <3>2. view[hc] = NoGraph
      BY <1>13 DEF Mark, LeakInv
    <3>3. \A c \in Served' : Told(c)' = NoGraph
      <4> HIDE DEF TypeOK, CountInv, Served
      <4> QED BY <3>1, <3>2 DEF Told, Replied
    <3>4. \A n \in Name : NoGraph[n] = Absent
      BY SMTT(30) DEF NoGraph
    <3> HIDE DEF TypeOK, CountInv, Served
    <3> QED BY <3>1, <3>3, <3>4 DEF ViewInv
  <2>2. CASE hc \notin clients
    BY SMTT(30), <1>13, <2>2 DEF Mark, EndRequest, ViewInv
  <2> QED BY SMTT(30), <2>1, <2>2
<1>14. CASE Copy
  <2>1. /\ hpc = "copy" /\ hpc' = "reply" /\ hmsg' = Snapshot(graph)
        /\ UNCHANGED <<ppc, pmsg, graph, view, hc, Served>>
        /\ pmsg \in Message /\ graph \in Graph /\ view \in [Conn -> Graph]
        /\ Served \subseteq Conn
    BY <1>14 DEF Copy
  <2>2. \A c \in Served' : c # hc => Told(c)' = Told(c)
    <3> HIDE DEF TypeOK, CountInv, Served
    <3> QED BY <2>1 DEF Told, Replied
  <2>3. ASSUME NEW c \in Served', c = hc, NEW n \in Name
        PROVE  Told(c)'[n] = graph[n]
    <3>1. Told(c)[n] \in {Absent, graph[n]}
      BY <2>1, <2>3 DEF ViewInv
    <3>2. Replied(c) = view[c] /\ Replied(c)' = Apply(Snapshot(graph), view[c])
      BY SMTT(30), <2>1, <2>3 DEF Replied
    <3>3. ppc = "send" => pmsg[n] \in {Keep, graph[n]}
      BY <2>1, <2>3 DEF ViewInv
    <3>4. graph[n] # Keep
      BY <2>1 DEF Graph
    <3> HIDE DEF TypeOK, CountInv, Served
    <3>5. Replied(c)'[n] = IF graph[n] = Absent THEN view[c][n] ELSE graph[n]
      BY <3>2, <3>4 DEF Apply, Snapshot
    <3>6. CASE ppc = "send"
      <4>1. /\ Told(c)[n] = IF pmsg[n] = Keep THEN view[c][n] ELSE pmsg[n]
            /\ Told(c)'[n] = IF pmsg[n] = Keep THEN Replied(c)'[n] ELSE pmsg[n]
        BY <2>1, <3>2, <3>6 DEF Told, Apply
      <4>2. pmsg[n] # Keep => Told(c)'[n] = graph[n]
        BY <3>3, <3>6, <4>1
      <4>3. pmsg[n] = Keep => Told(c)'[n] = graph[n]
        BY <3>1, <3>5, <4>1
      <4> QED BY <4>2, <4>3
    <3>7. CASE ppc # "send"
      <4>1. Told(c)[n] = view[c][n] /\ Told(c)'[n] = Replied(c)'[n]
        BY <2>1, <3>2, <3>7 DEF Told
      <4> QED BY <3>1, <3>5, <4>1
    <3> QED BY SMTT(30), <3>6, <3>7
  <2> HIDE DEF TypeOK, CountInv, Served
  <2>4. ASSUME NEW c \in Served', NEW n \in Name
        PROVE  Told(c)'[n] = graph'[n]
    <3>1. c # hc => Told(c)[n] = graph[n]
      BY <2>1 DEF ViewInv
    <3> QED BY <2>1, <2>2, <2>3, <3>1
  <2>5. ppc' = "send" /\ Served' # {} =>
          \A n \in Name : pmsg'[n] \in {Keep, graph'[n]}
    BY <2>1 DEF ViewInv
  <2> QED BY <2>1, <2>4, <2>5 DEF ViewInv
<1>15. CASE Reply
  <2>1. /\ hpc = "reply" /\ hpc' = "idle"
        /\ UNCHANGED <<ppc, pmsg, graph, Served>>
        /\ \A c \in Served :
             view'[c] = IF c = hc THEN Apply(hmsg, view[c]) ELSE view[c]
    BY SMTT(30), <1>15 DEF Reply, EndRequest
  <2>2. \A c \in Served' : Told(c)' = Told(c)
    <3> HIDE DEF TypeOK, CountInv, Served
    <3> QED BY <2>1 DEF Told, Replied
  <2> HIDE DEF TypeOK, CountInv, Served
  <2>3. ASSUME NEW c \in Served', NEW n \in Name
        PROVE  Told(c)'[n] = graph'[n]
    <3>1. Told(c)[n] = graph[n]
      BY <2>1 DEF ViewInv
    <3> QED BY <2>1, <2>2, <3>1
  <2>4. ppc' = "send" /\ Served' # {} =>
          \A n \in Name : pmsg'[n] \in {Keep, graph'[n]}
    BY <2>1 DEF ViewInv
  <2> QED BY <2>1, <2>3, <2>4 DEF ViewInv
<1>16. ASSUME NEW c \in Conn, Unsubscribe(c) PROVE ViewInv'
  BY SMTT(30), <1>16, SameView DEF Unsubscribe, Receives
<1>17. CASE Uncount
  BY <1>17, SameView DEF Uncount, EndRequest
<1>18. ASSUME NEW c \in Conn, Disconnect(c) PROVE ViewInv'
  BY SMTT(30), <1>18, SameView DEF Disconnect
<1>19. ASSUME NEW c \in Conn, Close(c) PROVE ViewInv'
  BY SMTT(30), <1>19, SameView DEF Close
<1>20. CASE UNCHANGED vars
  BY <1>20, SameView DEF vars
<1> HIDE DEF TypeOK, CountInv, Served
<1> QED BY <1>1, <1>2, <1>3, <1>4, <1>5, <1>6, <1>7, <1>8, <1>9, <1>10,
           <1>11, <1>12, <1>13, <1>14, <1>15, <1>16, <1>17, <1>18, <1>19,
           <1>20
    DEF Next, Poll, HandlerStep, Exhausted

-----------------------------------------------------------------------------
(* Nobody is subscribed at the start. *)
LEMMA InitIInv == Init => IInv
<1> SUFFICES ASSUME Init PROVE IInv
  BY SMTT(30)
<1>1. TypeOK
  <2>1. con \in [Conn -> {"open", "closed", "done"}]
    BY DEF Init
  <2>2. view \in [Conn -> Graph]
    BY NothingType DEF Init
  <2>3. count \in 0..MaxCount /\ changes \in 0..MaxChanges
    BY GraphConstants DEF Init
  <2>4. /\ graph \in Graph /\ ros \in Graph
        /\ pgraph \in Graph /\ hgraph \in Graph
        /\ pmsg \in Message /\ hmsg \in Message
    BY NothingType DEF Init
  <2>5. /\ clients \subseteq Conn /\ flagged \subseteq clients
        /\ wants \in BOOLEAN /\ event \in BOOLEAN /\ behind \in BOOLEAN
        /\ crossed \subseteq Conn
    BY DEF Init
  <2>6. /\ ppc = "waiting" /\ hpc = "idle"
        /\ hc = None /\ older = None
    BY DEF Init
  <2> QED BY <2>1, <2>2, <2>3, <2>4, <2>5, <2>6 DEF TypeOK
<1>2. CountInv
  BY DEF Init, CountInv, AtMostOneMarked
<1>3. LeakInv
  BY DEF Init, LeakInv
<1>4. GraphInv
  BY DEF Init, GraphInv
<1>5. ViewInv
  BY DEF Init, ViewInv, Served
<1> QED BY <1>1, <1>2, <1>3, <1>4, <1>5 DEF IInv

(* The invariant holds in every state of the program. *)
THEOREM GraphInvariant == Spec => []IInv
<1>1. IInv /\ [Next]_vars => IInv'
  BY TypeStep, CountStep, LeakStep, GraphStep, ViewStep DEF IInv
<1> QED BY <1>1, InitIInv, PTL DEF Spec

(* Every variable keeps its type. *)
THEOREM GraphTypeOK == Spec => []TypeOK
BY GraphInvariant, PTL DEF IInv

(* The bridge watches the ROS graph exactly while the count of the server  *)
(* is positive, and as long as a client is marked, for any number of them. *)
THEOREM GraphWatched == Spec => []WatchedWhileCounted
<1>1. IInv => WatchedWhileCounted
  BY DEF IInv, CountInv, WatchedWhileCounted
<1> QED BY <1>1, GraphInvariant, PTL

(* Whatever the ROS graph does and however the poll thread and the handler *)
(* interleave, the marked client is up to date when they rest, unless a    *)
(* query was lost or overwritten or an update crossed its snapshot.        *)
THEOREM GraphCatchUp == Spec => []MarkedClientsCatchUp
<1>1. IInv => MarkedClientsCatchUp
  <2> SUFFICES ASSUME IInv, ppc = "waiting", ~event, hpc = "idle", ~behind,
                      NEW c \in flagged \ crossed, con[c] = "open"
               PROVE  view[c] = ros
    BY DEF MarkedClientsCatchUp
  <2>1. graph = ros
    BY SMTT(30) DEF IInv, GraphInv, Serving, Newest
  <2>2. \A n \in Name : view[c][n] = graph[n]
    BY DEF IInv, ViewInv, Served, Told, Replied
  <2>3. view[c] \in Graph /\ graph \in Graph
    BY DEF IInv, TypeOK
  <2> QED BY <2>1, <2>2, <2>3 DEF Graph
<1> QED BY <1>1, GraphInvariant, PTL
=============================================================================
