----------------------- MODULE ChannelSessionsProofs -----------------------
(***************************************************************************)
(* Proofs of the safety properties of ChannelSessions, for every set of    *)
(* connections, topics and subscription ids and for every bound.  Among    *)
(* them: the channels are out of date only after a query that threw, and a *)
(* client keeps a channel that is gone only if handle_login sent it.       *)
(***************************************************************************)
EXTENDS ChannelSessions, TLAPS

(* What the handler thread's position says about its local variables. *)
HandlerInv ==
    /\ hpc # "idle" => hc \in Conn
    /\ hpc \notin {"idle", "close"} => hc \in clients
    /\ hpc = "close" => hc \notin clients
    /\ hpc \in {"sub_call", "sub_store", "unsub_call", "unsub_erase"} =>
         hch \in 1..nextId /\ hsub \in SubId

(* A client is connected or was; only clients have subscriptions. *)
ClientInv ==
    /\ \A c \in clients \cup closeq : con[c] # "new"
    /\ \A c \in Conn \ clients : subs[c] = NoSubscriptions

(* The server's and the bridge's channels differ only while the poll       *)
(* thread is between the two halves of add_channels.                       *)
ChannelInv ==
    /\ nextId <= MaxId
    /\ channels \subseteq 1..nextId
    /\ fresh \subseteq channels
    /\ advertised = channels \ fresh
    /\ fresh # {} => ppc = "advertise"
    /\ gone \cap channels = {}
    /\ gone \subseteq 1..nextId
    /\ gone # {} => ppc = "unadvertise"

(* No subscription exists for an id that is not assigned yet, or whose     *)
(* channel the bridge does not know yet.                                   *)
Unused(ch) == ch \in fresh \/ ch > nextId

UnusedInv ==
    \A ch \in ChannelId : Unused(ch) =>
      /\ \A c \in Conn : subs[c][ch] = None
      /\ hsnap[ch] = None
      /\ hpc = "sub_store" => hch # ch

(* The server and the bridge agree on the subscriptions, up to the one the *)
(* handler thread is working on.                                           *)
InBridge(c, ch) ==
    \/ c = hc /\ hpc = "sub_store" /\ hch = ch
    \/ c = hc /\ hpc = "close" /\ hsnap[ch] # None
    \/ subs[c][ch] # None /\ ~(c = hc /\ hpc = "unsub_erase" /\ hch = ch)

AgreementInv ==
    \A ch \in ChannelId, c \in Conn :
      c \in bsubs[ch] <=> ch \in advertised /\ InBridge(c, ch)

(* What a client is still to be told of the channels is in the handler     *)
(* thread's copy, or the copy has not been taken yet.                      *)
ViewInv ==
    \A c \in Reachable :
      \/ hc = c /\ hpc = "login_info"
      \/ /\ hc = c /\ hpc = "login_send"
         /\ advertised \subseteq view[c] \cup hchans
      \/ advertised \subseteq view[c]

IInv ==
    /\ TypeOK
    /\ AtMostOneLogin
    /\ HandlerInv
    /\ ClientInv
    /\ ChannelInv
    /\ UnusedInv
    /\ AgreementInv
    /\ ViewInv

-----------------------------------------------------------------------------
(* A leaf is for Zenon unless it names SMT, for arithmetic and functions.  *)
USE Zenon

(* The empty map of subscriptions is one. *)
LEMMA NoSubscriptionsType == NoSubscriptions \in Subscriptions
  BY DEF NoSubscriptions, Subscriptions

(* Every step keeps the variables in their types. *)
LEMMA TypeStep ==
    ASSUME TypeOK, HandlerInv, ChannelInv, [Next]_vars
    PROVE  TypeOK'
<1> USE SessionConstants DEF TypeOK, Subscriptions, NoSubscriptions,
      ChannelId, HandlerInv, ChannelInv, connVars, sessionVars, channelVars,
      bridgeVars, graphVars, pollVars, handlerVars
<1>1. CASE \E c \in Conn : Connect(c)
  BY <1>1, SMT DEF Connect
<1>2. CASE \E c \in Conn : Disconnect(c)
  BY <1>2, SMT DEF Disconnect
<1>3. CASE \E c \in Conn : Expire(c)
  BY <1>3, SMT DEF Expire
<1>4. CASE \E t \in Topic : GraphChange(t)
  BY <1>4, SMT DEF GraphChange
<1>5. CASE PollWake
  BY <1>5 DEF PollWake
<1>6. CASE PollQuery
  BY ZenonT(40), <1>6 DEF PollQuery
<1>7. CASE PollQueryThrows
  BY <1>7 DEF PollQueryThrows
<1>8. CASE PollRemove
  BY <1>8 DEF PollRemove, Vanished
<1>9. CASE PollUnadvertise
  BY <1>9, SMT DEF PollUnadvertise, Reachable
<1>10. CASE PollAdd
  BY <1>10, SMTT(30) DEF PollAdd, TopicsToAdd, Bijection, Injection, Surjection
<1>11. CASE PollAdvertise
  BY ZenonT(40), <1>11 DEF PollAdvertise, Reachable
<1>12. CASE \E c \in Conn : Login(c)
  BY <1>12, SMT DEF Login, Receives
<1>13. CASE \E c \in Conn : LoginThrows(c)
  BY <1>13, SMT DEF LoginThrows, Receives
<1>14. CASE \E c \in Conn : Subscribe(c)
  BY <1>14, SMT DEF Subscribe, BeginRequest, Receives
<1>15. CASE \E c \in Conn : Unsubscribe(c)
  BY <1>15, SMT DEF Unsubscribe, BeginRequest, Receives
<1>16. CASE \E c \in Conn : Close(c)
  <2>1. PICK c \in Conn : Close(c)
    BY <1>16
  <2>2. CASE c \in clients
    <3>1. subs' \in [Conn -> Subscriptions] /\ hsnap' \in Subscriptions
      <4> HIDE DEF Subscriptions, NoSubscriptions
      <4> QED
        BY <2>1, <2>2, NoSubscriptionsType, SMT DEF Close
    <3> QED
      BY ZenonT(40), <2>1, <2>2, <3>1 DEF Close
  <2>3. CASE c \notin clients
    BY <2>1, <2>3 DEF Close
  <2> QED
    BY <2>2, <2>3
<1>17. CASE LoginInfo
  BY <1>17 DEF LoginInfo, EndRequest
<1>18. CASE LoginAdvertise
  BY <1>18 DEF LoginAdvertise, EndRequest
<1>19. CASE SubscribeItem
  BY <1>19 DEF SubscribeItem, NextIds, Named
<1>20. CASE SubscribeCall
  BY <1>20 DEF SubscribeCall, BridgeMutexFree
<1>21. CASE SubscribeCallThrows
  BY <1>21 DEF SubscribeCallThrows, EndRequest
<1>22. CASE SubscribeStore
  BY <1>22, SMT DEF SubscribeStore
<1>23. CASE UnsubscribeItem
  BY ZenonT(40), <1>23 DEF UnsubscribeItem, NextIds, Named
<1>24. CASE UnsubscribeCall
  BY <1>24 DEF UnsubscribeCall, BridgeMutexFree, BridgeHas
<1>25. CASE UnsubscribeCallThrows
  BY <1>25 DEF UnsubscribeCallThrows, EndRequest
<1>26. CASE UnsubscribeErase
  BY <1>26 DEF UnsubscribeErase
<1>27. CASE RequestDone
  BY <1>27 DEF RequestDone, EndRequest
<1>28. CASE \E ch \in ChannelId : CloseUnsubscribe(ch)
  BY <1>28, SMT DEF CloseUnsubscribe, BridgeMutexFree, BridgeHas
<1>29. CASE CloseDone
  BY <1>29 DEF CloseDone, EndRequest
<1>30. CASE UNCHANGED vars
  BY <1>30, SMT DEF vars
<1> QED   BY <1>1, <1>2, <1>3, <1>4, <1>5, <1>6, <1>7, <1>8, <1>9, <1>10,
     <1>11, <1>12, <1>13, <1>14, <1>15, <1>16, <1>17, <1>18, <1>19, <1>20,
     <1>21, <1>22, <1>23, <1>24, <1>25, <1>26, <1>27, <1>28, <1>29, <1>30
  DEF Next, Network, Poll, Handler, Exhausted

(* Only a login admits a client, and it has kicked the others first. *)
LEMMA LoginStep ==
    ASSUME TypeOK, AtMostOneLogin, [Next]_vars
    PROVE  AtMostOneLogin'
<1> USE SessionConstants DEF TypeOK, AtMostOneLogin, connVars, sessionVars,
      channelVars, bridgeVars, graphVars, pollVars, handlerVars
<1>1. CASE \E c \in Conn : Login(c)
  BY <1>1 DEF Login, Receives
<1>2. CASE \E c \in Conn : LoginThrows(c)
  BY <1>2 DEF LoginThrows, Receives
<1>3. CASE \E c \in Conn : Close(c)
  BY <1>3 DEF Close
<1>4. CASE PollWake \/ PollQuery \/ PollQueryThrows \/ PollRemove \/
           PollUnadvertise \/ PollAdd \/ PollAdvertise \/ LoginInfo \/
           LoginAdvertise \/ SubscribeItem \/ SubscribeCall \/
           SubscribeCallThrows \/ SubscribeStore \/ UnsubscribeItem \/
           UnsubscribeCall \/ UnsubscribeCallThrows \/ UnsubscribeErase \/
           RequestDone \/ CloseDone \/ (\E c \in Conn : Connect(c) \/
           Disconnect(c) \/ Expire(c) \/ Subscribe(c) \/ Unsubscribe(c)) \/
           (\E t \in Topic : GraphChange(t)) \/ (\E ch \in ChannelId :
           CloseUnsubscribe(ch))
  BY <1>4 DEF Connect, Disconnect, Expire, GraphChange, PollWake, PollQuery,
     PollQueryThrows, PollRemove, Vanished, PollUnadvertise, Reachable,
     PollAdd, TopicsToAdd, Bijection, Injection, Surjection, PollAdvertise,
     Subscribe, BeginRequest, Receives, Unsubscribe, LoginInfo, EndRequest,
     LoginAdvertise, SubscribeItem, NextIds, Named, SubscribeCall,
     BridgeMutexFree, SubscribeCallThrows, SubscribeStore, UnsubscribeItem,
     UnsubscribeCall, BridgeHas, UnsubscribeCallThrows, UnsubscribeErase,
     RequestDone, CloseUnsubscribe, CloseDone
<1>5. CASE UNCHANGED vars
  BY <1>5 DEF vars
<1> QED   BY <1>1, <1>2, <1>3, <1>4, <1>5
  DEF Next, Network, Poll, Handler, Exhausted

(* The handler thread's local variables fit its position. *)
LEMMA HandlerInvStep ==
    ASSUME TypeOK, HandlerInv, ClientInv, ChannelInv, UnusedInv, [Next]_vars
    PROVE  HandlerInv'
<1> USE SessionConstants DEF TypeOK, Subscriptions, NoSubscriptions,
      ChannelId, HandlerInv, ClientInv, ChannelInv, UnusedInv, Unused,
      connVars, sessionVars, channelVars, bridgeVars, graphVars, pollVars,
      handlerVars
<1>1. CASE PollAdd
  BY <1>1, SMT DEF PollAdd, TopicsToAdd, Bijection, Injection, Surjection
<1>2. CASE \E c \in Conn : Login(c)
  BY ZenonT(40), <1>2 DEF Login, Receives
<1>3. CASE \E c \in Conn : LoginThrows(c)
  BY <1>3 DEF LoginThrows, Receives
<1>4. CASE \E c \in Conn : Subscribe(c)
  BY <1>4 DEF Subscribe, BeginRequest, Receives
<1>5. CASE \E c \in Conn : Unsubscribe(c)
  BY <1>5 DEF Unsubscribe, BeginRequest, Receives
<1>6. CASE \E c \in Conn : Close(c)
  BY <1>6, SMT DEF Close
<1>7. CASE LoginInfo
  BY <1>7 DEF LoginInfo, EndRequest
<1>8. CASE SubscribeItem
  BY ZenonT(40), <1>8 DEF SubscribeItem, NextIds, Named
<1>9. CASE SubscribeCall
  BY <1>9 DEF SubscribeCall, BridgeMutexFree
<1>10. CASE SubscribeStore
  BY <1>10 DEF SubscribeStore
<1>11. CASE UnsubscribeItem
  BY <1>11, SMT DEF UnsubscribeItem, NextIds, Named
<1>12. CASE UnsubscribeCall
  BY <1>12 DEF UnsubscribeCall, BridgeMutexFree, BridgeHas
<1>13. CASE UnsubscribeErase
  BY <1>13 DEF UnsubscribeErase
<1>14. CASE \E ch \in ChannelId : CloseUnsubscribe(ch)
  BY <1>14 DEF CloseUnsubscribe, BridgeMutexFree, BridgeHas
<1>15. CASE LoginAdvertise \/ SubscribeCallThrows \/ UnsubscribeCallThrows \/
            RequestDone \/ CloseDone
  BY <1>15 DEF LoginAdvertise, EndRequest, SubscribeCallThrows,
     UnsubscribeCallThrows, RequestDone, CloseDone
<1>16. CASE PollWake \/ PollQuery \/ PollQueryThrows \/ PollRemove \/
            PollUnadvertise \/ PollAdvertise \/ (\E c \in Conn : Connect(c) \/
            Disconnect(c) \/ Expire(c)) \/ (\E t \in Topic : GraphChange(t))
  BY ZenonT(40), <1>16 DEF Connect, Disconnect, Expire, GraphChange, PollWake, PollQuery,
     PollQueryThrows, PollRemove, Vanished, PollUnadvertise, Reachable,
     PollAdvertise
<1>17. CASE UNCHANGED vars
  BY <1>17 DEF vars
<1> QED   BY <1>1, <1>2, <1>3, <1>4, <1>5, <1>6, <1>7, <1>8, <1>9, <1>10,
     <1>11, <1>12, <1>13, <1>14, <1>15, <1>16, <1>17
  DEF Next, Network, Poll, Handler, Exhausted

(* Clients come from connections, subscriptions from clients. *)
LEMMA ClientInvStep ==
    ASSUME TypeOK, HandlerInv, ClientInv, [Next]_vars
    PROVE  ClientInv'
<1> USE SessionConstants DEF TypeOK, Subscriptions, NoSubscriptions,
      ChannelId, HandlerInv, ClientInv, connVars, sessionVars, channelVars,
      bridgeVars, graphVars, pollVars, handlerVars
<1>1. CASE \E c \in Conn : Connect(c)
  BY <1>1, SMT DEF Connect
<1>2. CASE \E c \in Conn : Disconnect(c)
  BY <1>2, SMT DEF Disconnect
<1>3. CASE \E c \in Conn : Expire(c)
  BY <1>3, SMT DEF Expire
<1>4. CASE PollUnadvertise
  BY <1>4 DEF PollUnadvertise, Reachable
<1>5. CASE \E c \in Conn : Login(c)
  BY <1>5 DEF Login, Receives
<1>6. CASE SubscribeStore
  BY <1>6 DEF SubscribeStore
<1>7. CASE UnsubscribeErase
  BY <1>7 DEF UnsubscribeErase
<1>8. CASE \E c \in Conn : Close(c)
  <2>1. PICK c \in Conn : Close(c)
    BY <1>8
  <2>2. CASE c \in clients
    BY <2>1, <2>2, SMTT(30) DEF Close
  <2>3. CASE c \notin clients
    BY <2>1, <2>3 DEF Close
  <2> QED
    BY <2>2, <2>3
<1>9. CASE PollWake \/ PollQuery \/ PollQueryThrows \/ PollRemove \/ PollAdd
           \/ PollAdvertise \/ LoginInfo \/ LoginAdvertise \/ SubscribeItem \/
           SubscribeCall \/ SubscribeCallThrows \/ UnsubscribeItem \/
           UnsubscribeCall \/ UnsubscribeCallThrows \/ RequestDone \/
           CloseDone \/ (\E c \in Conn : LoginThrows(c) \/ Subscribe(c) \/
           Unsubscribe(c)) \/ (\E t \in Topic : GraphChange(t)) \/ (\E ch \in
           ChannelId : CloseUnsubscribe(ch))
  BY <1>9 DEF GraphChange, PollWake, PollQuery, PollQueryThrows, PollRemove,
     Vanished, PollAdd, TopicsToAdd, Bijection, Injection, Surjection,
     PollAdvertise, Reachable, LoginThrows, Receives, Subscribe, BeginRequest,
     Unsubscribe, LoginInfo, EndRequest, LoginAdvertise, SubscribeItem,
     NextIds, Named, SubscribeCall, BridgeMutexFree, SubscribeCallThrows,
     UnsubscribeItem, UnsubscribeCall, BridgeHas, UnsubscribeCallThrows,
     RequestDone, CloseUnsubscribe, CloseDone
<1>10. CASE UNCHANGED vars
  BY <1>10 DEF vars
<1> QED   BY <1>1, <1>2, <1>3, <1>4, <1>5, <1>6, <1>7, <1>8, <1>9, <1>10
  DEF Next, Network, Poll, Handler, Exhausted

(* The poll thread keeps the tables of channels consistent. *)
LEMMA ChannelInvStep ==
    ASSUME TypeOK, ChannelInv, [Next]_vars
    PROVE  ChannelInv'
<1> USE SessionConstants DEF TypeOK, ChannelId, ChannelInv, connVars,
      sessionVars, channelVars, bridgeVars, graphVars, pollVars, handlerVars
<1>1. CASE PollRemove
  BY <1>1 DEF PollRemove, Vanished
<1>2. CASE PollUnadvertise
  BY <1>2 DEF PollUnadvertise, Reachable
<1>3. CASE PollAdd
  BY <1>3, SMT DEF PollAdd, TopicsToAdd, Bijection, Injection, Surjection
<1>4. CASE PollAdvertise
  BY <1>4 DEF PollAdvertise, Reachable
<1>5. CASE PollWake \/ PollQuery \/ PollQueryThrows
  BY <1>5 DEF PollWake, PollQuery, PollQueryThrows
<1>6. CASE (\E c \in Conn : Connect(c) \/ Disconnect(c) \/ Expire(c)) \/ (\E t
           \in Topic : GraphChange(t))
  BY <1>6 DEF Connect, Disconnect, Expire, GraphChange
<1>7. CASE LoginInfo \/ LoginAdvertise \/ SubscribeItem \/ SubscribeCall \/
           SubscribeCallThrows \/ SubscribeStore \/ UnsubscribeItem \/
           UnsubscribeCall \/ UnsubscribeCallThrows \/ UnsubscribeErase \/
           RequestDone \/ CloseDone \/ (\E c \in Conn : Login(c) \/
           LoginThrows(c) \/ Subscribe(c) \/ Unsubscribe(c) \/ Close(c)) \/
           (\E ch \in ChannelId : CloseUnsubscribe(ch))
  BY <1>7 DEF Login, Receives, LoginThrows, Subscribe, BeginRequest,
     Unsubscribe, Close, LoginInfo, EndRequest, LoginAdvertise, SubscribeItem,
     NextIds, Named, SubscribeCall, BridgeMutexFree, SubscribeCallThrows,
     SubscribeStore, UnsubscribeItem, UnsubscribeCall, BridgeHas,
     UnsubscribeCallThrows, UnsubscribeErase, RequestDone, CloseUnsubscribe,
     CloseDone
<1>8. CASE UNCHANGED vars
  BY <1>8 DEF vars
<1> QED   BY <1>1, <1>2, <1>3, <1>4, <1>5, <1>6, <1>7, <1>8
  DEF Next, Network, Poll, Handler, Exhausted

(* A new id stays free of subscriptions until the bridge knows it. *)
LEMMA UnusedInvStep ==
    ASSUME TypeOK, HandlerInv, ChannelInv, UnusedInv, [Next]_vars
    PROVE  UnusedInv'
<1> USE SessionConstants DEF TypeOK, Subscriptions, NoSubscriptions,
      ChannelId, HandlerInv, ChannelInv, UnusedInv, Unused, connVars,
      sessionVars, channelVars, bridgeVars, graphVars, pollVars, handlerVars
<1>1. CASE PollUnadvertise
  BY <1>1 DEF PollUnadvertise, Reachable
<1>2. CASE PollAdd
  BY <1>2, SMT DEF PollAdd, TopicsToAdd, Bijection, Injection, Surjection
<1>3. CASE PollAdvertise
  BY <1>3 DEF PollAdvertise, Reachable
<1>4. CASE \E c \in Conn : Subscribe(c)
  BY <1>4, SMT DEF Subscribe, BeginRequest, Receives
<1>5. CASE \E c \in Conn : Unsubscribe(c)
  BY <1>5, SMT DEF Unsubscribe, BeginRequest, Receives
<1>6. CASE \E c \in Conn : Close(c)
  <2>1. PICK c \in Conn : Close(c)
    BY <1>6
  <2>2. CASE c \in clients
    <3>1. \A d \in Conn, ch \in ChannelId :
            subs'[d][ch] = IF d = c THEN None ELSE subs[d][ch]
      BY <2>1, <2>2, SMT DEF Close
    <3>2. hsnap' = subs[c] /\ hpc' = "close" /\ UNCHANGED <<fresh, nextId>>
      BY <2>1, <2>2 DEF Close
    <3> QED
      BY <3>1, <3>2
  <2>3. CASE c \notin clients
    BY <2>1, <2>3 DEF Close
  <2> QED
    BY <2>2, <2>3
<1>7. CASE LoginInfo
  BY ZenonT(40), <1>7 DEF LoginInfo, EndRequest
<1>8. CASE SubscribeItem
  BY <1>8 DEF SubscribeItem, NextIds, Named
<1>9. CASE SubscribeCall
  BY <1>9, SMT DEF SubscribeCall, BridgeMutexFree
<1>10. CASE SubscribeStore
  BY <1>10 DEF SubscribeStore
<1>11. CASE UnsubscribeItem
  BY <1>11 DEF UnsubscribeItem, NextIds, Named
<1>12. CASE UnsubscribeErase
  BY <1>12 DEF UnsubscribeErase
<1>13. CASE \E ch \in ChannelId : CloseUnsubscribe(ch)
  BY <1>13, SMT DEF CloseUnsubscribe, BridgeMutexFree, BridgeHas
<1>14. CASE LoginAdvertise \/ SubscribeCallThrows \/ UnsubscribeCallThrows \/
            RequestDone \/ CloseDone
  <2>1. /\ UNCHANGED <<fresh, nextId, subs>>
        /\ hpc' = "idle" /\ hsnap' = NoSubscriptions
    <3> HIDE DEF TypeOK, HandlerInv, ChannelInv, UnusedInv
    <3> QED
      BY <1>14 DEF LoginAdvertise, EndRequest, SubscribeCallThrows,
         UnsubscribeCallThrows, RequestDone, CloseDone
  <2> QED
    BY <2>1
<1>15. CASE PollWake \/ PollQuery \/ PollQueryThrows \/ PollRemove \/
            UnsubscribeCall \/ (\E c \in Conn : Connect(c) \/ Disconnect(c) \/
            Expire(c) \/ Login(c) \/ LoginThrows(c)) \/ (\E t \in Topic :
            GraphChange(t))
  <2>1. /\ UNCHANGED <<fresh, nextId, subs, hsnap, hch>>
        /\ hpc' = "sub_store" => hpc = "sub_store"
    <3> HIDE DEF TypeOK, HandlerInv, ChannelInv, UnusedInv
    <3> QED
      BY <1>15 DEF Connect, Disconnect, Expire, GraphChange, PollWake,
         PollQuery, PollQueryThrows, PollRemove, Login, LoginThrows,
         UnsubscribeCall
  <2> QED
    BY <2>1
<1>16. CASE UNCHANGED vars
  BY <1>16 DEF vars
<1> QED   BY <1>1, <1>2, <1>3, <1>4, <1>5, <1>6, <1>7, <1>8, <1>9, <1>10,
     <1>11, <1>12, <1>13, <1>14, <1>15, <1>16
  DEF Next, Network, Poll, Handler, Exhausted

(* No step makes the server and the bridge disagree on a subscription. *)
LEMMA AgreementStep ==
    ASSUME TypeOK, HandlerInv, ClientInv, ChannelInv, UnusedInv, AgreementInv,
           [Next]_vars
    PROVE  AgreementInv'
<1> USE SessionConstants DEF TypeOK, Subscriptions, NoSubscriptions,
      ChannelId, HandlerInv, ClientInv, ChannelInv, UnusedInv, Unused,
      AgreementInv, InBridge, connVars, sessionVars, channelVars, bridgeVars,
      graphVars, pollVars, handlerVars
<1>1. CASE PollRemove
  BY <1>1 DEF PollRemove, Vanished
<1>2. CASE PollUnadvertise
  BY <1>2 DEF PollUnadvertise, Reachable
<1>3. CASE PollAdd
  BY ZenonT(40), <1>3 DEF PollAdd, TopicsToAdd, Bijection, Injection, Surjection
<1>4. CASE PollAdvertise
  BY <1>4 DEF PollAdvertise, Reachable
<1>5. CASE \E c \in Conn : Login(c)
  BY <1>5 DEF Login, Receives
<1>6. CASE \E c \in Conn : Subscribe(c)
  BY <1>6 DEF Subscribe, BeginRequest, Receives
<1>7. CASE \E c \in Conn : Unsubscribe(c)
  BY <1>7 DEF Unsubscribe, BeginRequest, Receives
<1>8. CASE \E c \in Conn : Close(c)
  BY <1>8, SMT DEF Close
<1>9. CASE LoginInfo
  BY <1>9 DEF LoginInfo, EndRequest
<1>10. CASE SubscribeItem
  BY <1>10 DEF SubscribeItem, NextIds, Named
<1>11. CASE SubscribeCall
  BY <1>11, SMT DEF SubscribeCall, BridgeMutexFree
<1>12. CASE SubscribeStore
  BY <1>12, SMT DEF SubscribeStore
<1>13. CASE UnsubscribeItem
  BY <1>13 DEF UnsubscribeItem, NextIds, Named
<1>14. CASE UnsubscribeCall
  BY <1>14, SMT DEF UnsubscribeCall, BridgeMutexFree, BridgeHas
<1>15. CASE UnsubscribeErase
  BY <1>15, SMT DEF UnsubscribeErase
<1>16. CASE \E ch \in ChannelId : CloseUnsubscribe(ch)
  <2>1. PICK ch \in ChannelId : CloseUnsubscribe(ch)
    BY <1>16
  <2>2. /\ hpc = "close" /\ UNCHANGED <<hpc, hc, subs, advertised>>
        /\ hsnap' = [hsnap EXCEPT ![ch] = None]
        /\ bsubs' = IF BridgeHas(hc, ch)
                     THEN [bsubs EXCEPT ![ch] = @ \ {hc}] ELSE bsubs
    BY <2>1 DEF CloseUnsubscribe
  <2>3. \A d \in Conn, x \in ChannelId :
          (d \in bsubs'[x]) <=> d \in bsubs[x] /\ ~(d = hc /\ x = ch)
    BY <2>2, SMT DEF BridgeHas
  <2>4. hc \in Conn /\ subs[hc] = NoSubscriptions
    BY <2>2
  <2> QED
    BY <2>2, <2>3, <2>4, SMT
<1>17. CASE LoginAdvertise \/ SubscribeCallThrows \/ UnsubscribeCallThrows \/
            RequestDone
  <2>1. /\ UNCHANGED <<bsubs, advertised, subs>>
        /\ hpc \notin {"sub_store", "close", "unsub_erase"}
        /\ hpc' \notin {"sub_store", "close", "unsub_erase"}
    <3> HIDE DEF TypeOK, HandlerInv, ClientInv, ChannelInv, UnusedInv,
          AgreementInv
    <3> QED
      BY <1>17 DEF LoginAdvertise, EndRequest, SubscribeCallThrows,
         UnsubscribeCallThrows, RequestDone
  <2> QED
    BY <2>1
<1>18. CASE CloseDone
  BY <1>18 DEF CloseDone, EndRequest
<1>19. CASE PollWake \/ PollQuery \/ PollQueryThrows \/ (\E c \in Conn :
            Connect(c) \/ Disconnect(c) \/ Expire(c) \/ LoginThrows(c)) \/ (\E
            t \in Topic : GraphChange(t)) \/ UNCHANGED vars
  <2>1. UNCHANGED <<bsubs, advertised, subs, hc, hpc, hch, hsnap>>
    <3> HIDE DEF TypeOK, HandlerInv, ClientInv, ChannelInv, UnusedInv,
          AgreementInv
    <3> QED
      BY <1>19 DEF Connect, Disconnect, Expire, GraphChange, PollWake,
         PollQuery, PollQueryThrows, LoginThrows, vars
  <2> QED
    BY ZenonT(40), <2>1
<1> QED   BY <1>1, <1>2, <1>3, <1>4, <1>5, <1>6, <1>7, <1>8, <1>9, <1>10,
     <1>11, <1>12, <1>13, <1>14, <1>15, <1>16, <1>17, <1>18, <1>19
  DEF Next, Network, Poll, Handler, Exhausted

(* No step leaves a client without a channel it will not be told of. *)
LEMMA ViewStep ==
    ASSUME TypeOK, HandlerInv, ClientInv, ChannelInv, ViewInv, [Next]_vars
    PROVE  ViewInv'
<1> USE SessionConstants DEF TypeOK, ChannelId, HandlerInv, ClientInv,
      ChannelInv, ViewInv, Reachable, connVars, sessionVars, channelVars,
      bridgeVars, graphVars, pollVars, handlerVars
<1>1. CASE \E c \in Conn : Connect(c)
  BY <1>1, SMT DEF Connect
<1>2. CASE \E c \in Conn : Disconnect(c)
  BY <1>2, SMT DEF Disconnect
<1>3. CASE \E c \in Conn : Expire(c)
  BY <1>3, SMT DEF Expire
<1>4. CASE PollRemove
  BY ZenonT(40), <1>4 DEF PollRemove, Vanished
<1>5. CASE PollUnadvertise
  BY ZenonT(40), <1>5 DEF PollUnadvertise, Reachable
<1>6. CASE PollAdd
  BY <1>6 DEF PollAdd, TopicsToAdd, Bijection, Injection, Surjection
<1>7. CASE PollAdvertise
  BY <1>7, SMT DEF PollAdvertise, Reachable
<1>8. CASE \E c \in Conn : Login(c)
  BY <1>8 DEF Login, Receives
<1>9. CASE \E c \in Conn : Close(c)
  BY <1>9, SMT DEF Close
<1>10. CASE LoginInfo
  BY <1>10 DEF LoginInfo, EndRequest
<1>11. CASE LoginAdvertise
  BY <1>11 DEF LoginAdvertise, EndRequest
<1>12. CASE SubscribeItem \/ SubscribeCall \/ SubscribeCallThrows \/
            SubscribeStore \/ UnsubscribeItem \/ UnsubscribeCall \/
            UnsubscribeCallThrows \/ UnsubscribeErase \/ RequestDone \/
            CloseDone \/ (\E c \in Conn : Subscribe(c) \/ Unsubscribe(c)) \/
            (\E ch \in ChannelId : CloseUnsubscribe(ch))
  <2>1. /\ UNCHANGED <<con, clients, advertised, view>>
        /\ hpc \notin {"login_info", "login_send"}
    <3> HIDE DEF TypeOK, HandlerInv, ClientInv, ChannelInv, ViewInv
    <3> QED
      BY <1>12 DEF Subscribe, BeginRequest, Receives, Unsubscribe,
         SubscribeItem, SubscribeCall, SubscribeCallThrows, SubscribeStore,
         UnsubscribeItem, UnsubscribeCall, UnsubscribeCallThrows,
         UnsubscribeErase, RequestDone, CloseUnsubscribe, CloseDone
  <2> QED
    BY <2>1
<1>13. CASE PollWake \/ PollQuery \/ PollQueryThrows \/ (\E c \in Conn :
            LoginThrows(c)) \/ (\E t \in Topic : GraphChange(t)) \/
            UNCHANGED vars
  <2>1. UNCHANGED <<con, clients, advertised, view, hc, hpc, hchans>>
    <3> HIDE DEF TypeOK, HandlerInv, ClientInv, ChannelInv, ViewInv
    <3> QED
      BY <1>13 DEF GraphChange, PollWake, PollQuery, PollQueryThrows,
         LoginThrows, vars
  <2> QED
    BY <2>1
<1> QED   BY <1>1, <1>2, <1>3, <1>4, <1>5, <1>6, <1>7, <1>8, <1>9, <1>10,
     <1>11, <1>12, <1>13
  DEF Next, Network, Poll, Handler, Exhausted

-----------------------------------------------------------------------------
(* IInv is an inductive invariant of the specification. *)
THEOREM Invariance == Spec => []IInv
<1>1. ASSUME Init PROVE IInv
  <2> USE <1>1, SessionConstants DEF Init
  <2>1. TypeOK
    <3>1. /\ con \in [Conn -> {"new", "open", "closed", "expired"}]
          /\ view \in [Conn -> SUBSET ChannelId]
          /\ subs \in [Conn -> Subscriptions]
      BY NoSubscriptionsType
    <3>2. /\ topic \in [ChannelId -> Topic \cup {None}]
          /\ bsubs \in [ChannelId -> SUBSET Conn]
          /\ hsnap \in Subscriptions
      BY NoSubscriptionsType
    <3>3. nextId \in 0..MaxId
      BY SMT
    <3>4. changes \in 0..MaxChanges
      BY SMT
    <3> QED
      BY <3>1, <3>2, <3>3, <3>4 DEF TypeOK
  <2>2. AtMostOneLogin /\ HandlerInv /\ ClientInv /\ ChannelInv
    BY SMT
    DEF AtMostOneLogin, HandlerInv, ClientInv, ChannelInv, NoSubscriptions,
       ChannelId
  <2>3. UnusedInv
    BY DEF UnusedInv, Unused, NoSubscriptions, ChannelId
  <2>4. AgreementInv /\ ViewInv
    BY DEF AgreementInv, InBridge, ViewInv, Reachable, NoSubscriptions,
       ChannelId
  <2> QED
    BY <2>1, <2>2, <2>3, <2>4 DEF IInv
<1>2. IInv /\ [Next]_vars => IInv'
  BY TypeStep, LoginStep, HandlerInvStep, ClientInvStep, ChannelInvStep,
     UnusedInvStep, AgreementStep, ViewStep
  DEF IInv
<1> QED
  BY <1>1, <1>2, PTL DEF Spec

(* Type correctness of the session model, for all constants. *)
THEOREM TypeCorrectness == Spec => []TypeOK
<1>1. IInv => TypeOK
  BY DEF IInv
<1> QED
  BY <1>1, Invariance, PTL

(* At most one client is logged in, however logins, kicks that throw half  *)
(* way and closes of any number of clients interleave.                     *)
THEOREM SingleLogin == Spec => []AtMostOneLogin
<1>1. IInv => AtMostOneLogin
  BY DEF IInv
<1> QED
  BY <1>1, Invariance, PTL

(* No logged-in client misses a channel, for any number of clients, topics *)
(* and graph changes.                                                      *)
THEOREM NoMissedChannel == Spec => []ClientsKnowChannels
<1>1. IInv => ClientsKnowChannels
  BY DEF IInv, ViewInv, ChannelInv, ClientsKnowChannels
<1> QED
  BY <1>1, Invariance, PTL

(* The server's and the bridge's subscription tables agree whenever the    *)
(* handler thread is idle and the poll thread is outside its update.       *)
THEOREM Agreement == Spec => []SubscriptionsAgree
<1>1. IInv => SubscriptionsAgree
  BY SessionConstants, SMT
  DEF IInv, TypeOK, Subscriptions, NoSubscriptions, ClientInv, AgreementInv,
      InBridge, SubscriptionsAgree
<1> QED
  BY <1>1, Invariance, PTL

(* A step either assigns ids above every id assigned before, or assigns    *)
(* none: a removed channel never comes back.                               *)
LEMMA IdsNotReusedStep ==
    ASSUME TypeOK, ChannelInv, [Next]_vars
    PROVE  \A ch \in 1..nextId :
             /\ topic'[ch] = topic[ch]
             /\ ch \in channels' => ch \in channels
<1> USE SessionConstants DEF TypeOK, ChannelInv, ChannelId, connVars,
      sessionVars, channelVars, bridgeVars, graphVars, pollVars, handlerVars
<1>1. CASE PollRemove
  BY <1>1 DEF PollRemove, Vanished
<1>2. CASE PollAdd
  BY <1>2, SMT DEF PollAdd, TopicsToAdd, Bijection, Injection, Surjection
<1>3. CASE PollWake \/ PollQuery \/ PollQueryThrows \/ PollUnadvertise \/
           PollAdvertise \/ (\E c \in Conn : Connect(c) \/ Disconnect(c) \/
           Expire(c)) \/ (\E t \in Topic : GraphChange(t))
  BY <1>3 DEF Connect, Disconnect, Expire, GraphChange, PollWake, PollQuery,
     PollQueryThrows, PollUnadvertise, Reachable, PollAdvertise
<1>4. CASE LoginInfo \/ LoginAdvertise \/ SubscribeItem \/ SubscribeCall \/
           SubscribeCallThrows \/ SubscribeStore \/ UnsubscribeItem \/
           UnsubscribeCall \/ UnsubscribeCallThrows \/ UnsubscribeErase \/
           RequestDone \/ CloseDone \/ (\E c \in Conn : Login(c) \/
           LoginThrows(c) \/ Subscribe(c) \/ Unsubscribe(c) \/ Close(c)) \/
           (\E ch \in ChannelId : CloseUnsubscribe(ch))
  BY <1>4 DEF Login, Receives, LoginThrows, Subscribe, BeginRequest,
     Unsubscribe, Close, LoginInfo, EndRequest, LoginAdvertise, SubscribeItem,
     NextIds, Named, SubscribeCall, BridgeMutexFree, SubscribeCallThrows,
     SubscribeStore, UnsubscribeItem, UnsubscribeCall, BridgeHas,
     UnsubscribeCallThrows, UnsubscribeErase, RequestDone, CloseUnsubscribe,
     CloseDone
<1>5. CASE UNCHANGED vars
  BY <1>5 DEF vars
<1> QED   BY <1>1, <1>2, <1>3, <1>4, <1>5
  DEF Next, Network, Poll, Handler, Exhausted

(* Channel ids are never reused, whatever the number of graph changes. *)
THEOREM IdsNotReused == Spec => ChannelIdsNotReused
<1>1. IInv /\ [Next]_vars =>
        [\A ch \in 1..nextId :
           /\ topic'[ch] = topic[ch]
           /\ ch \in channels' => ch \in channels]_vars
  BY IdsNotReusedStep DEF IInv
<1> QED
  BY <1>1, Invariance, PTL DEF Spec, ChannelIdsNotReused

-----------------------------------------------------------------------------
(* The channels follow the ROS graph, and clients follow the channels.     *)

Topics(S) == {topic[ch] : ch \in S}

Updating == {"polled", "unadvertise", "add", "advertise"}

(* How far the poll thread has brought the ROS graph into the tables. *)
FollowInv ==
    /\ Topics(advertised) \cap BadTopics = {}
    /\ ~failed => \/ event
                  \/ ppc = "woken"
                  \/ ppc = "waiting" /\ Topics(advertised) = ros \ BadTopics
                  \/ ppc \in Updating /\ latest = ros
    /\ ppc \in {"unadvertise", "add"} => Topics(advertised) \subseteq latest
    /\ ppc = "advertise" => Topics(channels) = latest \ BadTopics

(* Who has been told of channels: logged-in clients that are connected. *)
ToldInv ==
    /\ \A c \in closeq : con[c] \notin {"new", "open"}
    /\ \A c \in Conn : view[c] # {} => c \in clients /\ con[c] = "open"

(* The variables of the poll thread, the channels and the graph. *)
followVars == <<channels, topic, advertised, ros, event, ppc, latest, failed>>

(* The network thread and the handler thread leave them alone. *)
LEMMA OthersFollow ==
    ASSUME Network \/ Handler
    PROVE  UNCHANGED followVars
<1> USE DEF followVars, connVars, sessionVars, channelVars, bridgeVars,
        graphVars, pollVars, handlerVars
<1>1. CASE Network
  BY <1>1 DEF Network, Connect, Disconnect, Expire
<1>2. CASE \E c \in Conn : Login(c) \/ LoginThrows(c) \/ Close(c)
  BY <1>2 DEF Login, LoginThrows, Close
<1>3. CASE \E c \in Conn : Subscribe(c) \/ Unsubscribe(c)
  BY <1>3 DEF Subscribe, Unsubscribe, BeginRequest
<1>4. CASE LoginInfo \/ LoginAdvertise
  BY <1>4 DEF LoginInfo, LoginAdvertise
<1>5. CASE \/ SubscribeItem \/ SubscribeCall \/ SubscribeCallThrows
           \/ SubscribeStore
  BY <1>5 DEF SubscribeItem, SubscribeCall, SubscribeCallThrows, SubscribeStore
<1>6. CASE \/ UnsubscribeItem \/ UnsubscribeCall \/ UnsubscribeCallThrows
           \/ UnsubscribeErase \/ RequestDone
  BY <1>6 DEF UnsubscribeItem, UnsubscribeCall, UnsubscribeCallThrows,
     UnsubscribeErase, RequestDone
<1>7. CASE (\E ch \in ChannelId : CloseUnsubscribe(ch)) \/ CloseDone
  BY <1>7 DEF CloseUnsubscribe, CloseDone
<1> QED BY <1>1, <1>2, <1>3, <1>4, <1>5, <1>6, <1>7 DEF Handler

(* A round of the poll thread ends with the channels of the graph it read. *)
LEMMA FollowStep ==
    ASSUME TypeOK, ChannelInv, FollowInv, [Next]_vars
    PROVE  FollowInv'
<1> USE DEF FollowInv, Updating, Topics, connVars, sessionVars, channelVars,
        bridgeVars, graphVars, handlerVars
<1>1. CASE Network \/ Handler \/ UNCHANGED vars
  <2>1. UNCHANGED followVars
    BY <1>1, OthersFollow DEF vars, followVars
  <2> QED BY <2>1 DEF followVars
<1>2. ASSUME NEW t \in Topic, GraphChange(t) PROVE FollowInv'
  BY <1>2 DEF GraphChange, pollVars
<1>3. CASE PollWake
  BY <1>3 DEF PollWake
<1>4. CASE PollQuery
  BY <1>4 DEF PollQuery
<1>5. CASE PollQueryThrows
  BY <1>5 DEF PollQueryThrows
<1>6. CASE PollRemove
  BY <1>6 DEF PollRemove, Vanished
<1>7. CASE PollUnadvertise
  BY <1>7 DEF PollUnadvertise
<1>8. CASE PollAdd
  <2>1. channels = advertised /\ fresh = {}
    BY <1>8 DEF PollAdd, ChannelInv, TypeOK
  <2>2. PICK m \in nextId..MaxId :
          \E new \in Bijection((nextId + 1)..m, TopicsToAdd) :
            /\ channels' = channels \cup ((nextId + 1)..m)
            /\ topic' = [ch \in ChannelId |->
                           IF ch \in (nextId + 1)..m THEN new[ch]
                                                     ELSE topic[ch]]
    BY <1>8 DEF PollAdd
  <2>3. PICK new \in Bijection((nextId + 1)..m, TopicsToAdd) :
            /\ channels' = channels \cup ((nextId + 1)..m)
            /\ topic' = [ch \in ChannelId |->
                           IF ch \in (nextId + 1)..m THEN new[ch]
                                                     ELSE topic[ch]]
    BY <2>2
  <2>4. {new[ch] : ch \in (nextId + 1)..m} = TopicsToAdd
    BY ZenonT(40), <2>3 DEF Bijection, Injection, Surjection
  <2>5. \A ch \in channels : topic'[ch] = topic[ch]
    BY <2>3, SessionConstants, SMT DEF ChannelInv, TypeOK, ChannelId
  <2>6. \A ch \in (nextId + 1)..m : topic'[ch] = new[ch]
    BY <2>3, SessionConstants, SMT DEF TypeOK, ChannelId
  <2>7. Topics(channels)' = Topics(channels) \cup TopicsToAdd
    <3>1. Topics(channels)' = {topic'[ch] : ch \in channels}
                                \cup {topic'[ch] : ch \in (nextId + 1)..m}
      BY <2>3
    <3>2. {topic'[ch] : ch \in channels} = Topics(channels)
      BY <2>5
    <3>3. {topic'[ch] : ch \in (nextId + 1)..m} = TopicsToAdd
      BY <2>4, <2>6
    <3> HIDE DEF Topics, TopicsToAdd
    <3> QED BY <3>1, <3>2, <3>3
  <2>8. Topics(advertised)' = Topics(advertised)
    <3>1. /\ advertised' = advertised
          /\ \A ch \in advertised : topic'[ch] = topic[ch]
      BY <1>8, <2>1, <2>5 DEF PollAdd
    <3> QED BY <3>1
  <2>9. TopicsToAdd = (latest \ Topics(advertised)) \ BadTopics
    BY DEF TopicsToAdd
  <2>10. ppc = "add" /\ ppc' = "advertise"
         /\ UNCHANGED <<latest, ros, event, failed>>
    BY <1>8 DEF PollAdd
  <2> HIDE DEF Topics, TopicsToAdd
  <2> QED BY <2>1, <2>7, <2>8, <2>9, <2>10
<1>9. CASE PollAdvertise
  <2>1. /\ advertised' = channels
        /\ UNCHANGED <<channels, topic, ros, event, failed>>
    BY <1>9 DEF PollAdvertise, ChannelInv
  <2> QED BY <1>9, <2>1, SMT DEF PollAdvertise
<1> HIDE DEF FollowInv
<1> QED BY <1>1, <1>2, <1>3, <1>4, <1>5, <1>6, <1>7, <1>8, <1>9
    DEF Next, Poll, Exhausted

(* A step that can tell a client of a channel, or change who is a client,  *)
(* and what every other step leaves alone.                                 *)
toldVars == <<con, closeq, clients, view>>
outdatedVars == <<con, clients, view, channels, gone>>

QuietStep ==
    \/ (\E t \in Topic : GraphChange(t))
    \/ PollWake \/ PollQuery \/ PollQueryThrows
    \/ (\E c \in Conn : LoginThrows(c) \/ Subscribe(c) \/ Unsubscribe(c))
    \/ LoginInfo \/ SubscribeItem \/ SubscribeCall \/ SubscribeCallThrows
    \/ SubscribeStore \/ UnsubscribeItem \/ UnsubscribeCall
    \/ UnsubscribeCallThrows \/ UnsubscribeErase \/ RequestDone
    \/ (\E ch \in ChannelId : CloseUnsubscribe(ch)) \/ CloseDone
    \/ UNCHANGED vars

(* The other steps change neither what clients were told nor what is       *)
(* outdated: they leave the variables of both arguments alone.             *)
LEMMA Quiet ==
    ASSUME QuietStep
    PROVE  UNCHANGED toldVars /\ UNCHANGED outdatedVars
<1> USE DEF toldVars, outdatedVars, connVars, sessionVars, channelVars,
        bridgeVars, graphVars, pollVars, handlerVars
<1>1. CASE \E t \in Topic : GraphChange(t)
  BY <1>1 DEF GraphChange
<1>2. CASE PollWake \/ PollQuery \/ PollQueryThrows
  BY <1>2 DEF PollWake, PollQuery, PollQueryThrows
<1>3. CASE \E c \in Conn : LoginThrows(c) \/ Subscribe(c) \/ Unsubscribe(c)
  BY <1>3 DEF LoginThrows, Subscribe, Unsubscribe, BeginRequest
<1>4. CASE \/ LoginInfo \/ SubscribeItem \/ SubscribeCall
           \/ SubscribeCallThrows \/ SubscribeStore
  BY <1>4 DEF LoginInfo, SubscribeItem, SubscribeCall, SubscribeCallThrows,
     SubscribeStore
<1>5. CASE \/ UnsubscribeItem \/ UnsubscribeCall \/ UnsubscribeCallThrows
           \/ UnsubscribeErase \/ RequestDone
  BY <1>5 DEF UnsubscribeItem, UnsubscribeCall, UnsubscribeCallThrows,
     UnsubscribeErase, RequestDone
<1>6. CASE (\E ch \in ChannelId : CloseUnsubscribe(ch)) \/ CloseDone
  BY <1>6 DEF CloseUnsubscribe, CloseDone
<1>7. CASE UNCHANGED vars
  BY <1>7 DEF vars
<1> QED BY <1>1, <1>2, <1>3, <1>4, <1>5, <1>6, <1>7 DEF QuietStep

(* Channels are told to clients that are connected. *)
LEMMA ToldStep ==
    ASSUME TypeOK, HandlerInv, ToldInv, [Next]_vars
    PROVE  ToldInv'
<1> USE DEF TypeOK, ToldInv, connVars, sessionVars
<1>1. CASE QuietStep
  BY <1>1, Quiet DEF toldVars
<1>2. ASSUME NEW c \in Conn, Connect(c) PROVE ToldInv'
  BY <1>2 DEF Connect
<1>3. ASSUME NEW c \in Conn, Disconnect(c) PROVE ToldInv'
  BY <1>3 DEF Disconnect
<1>4. ASSUME NEW c \in Conn, Expire(c) PROVE ToldInv'
  BY <1>4 DEF Expire
<1>5. CASE PollRemove
  BY <1>5 DEF PollRemove
<1>6. CASE PollUnadvertise
  BY <1>6 DEF PollUnadvertise, Reachable
<1>7. CASE PollAdd
  BY <1>7 DEF PollAdd
<1>8. CASE PollAdvertise
  BY <1>8 DEF PollAdvertise, Reachable
<1>9. ASSUME NEW c \in Conn, Login(c) PROVE ToldInv'
  BY <1>9 DEF Login
<1>10. CASE LoginAdvertise
  BY <1>10 DEF LoginAdvertise, HandlerInv
<1>11. ASSUME NEW c \in Conn, Close(c) PROVE ToldInv'
  BY <1>11 DEF Close
<1> HIDE DEF TypeOK, ToldInv
<1> QED BY <1>1, <1>2, <1>3, <1>4, <1>5, <1>6, <1>7, <1>8, <1>9, <1>10, <1>11
    DEF Next, Network, Poll, Handler, Exhausted, QuietStep

(* The step that leaves a client with a channel that is gone. *)
LEMMA OutdatedStep ==
    ASSUME TypeOK, HandlerInv, ChannelInv, ToldInv, [Next]_vars,
           NEW d \in Conn, ~(hc = d /\ hpc = "login_send")
    PROVE  Outdated(d)' \subseteq Outdated(d)
<1> USE DEF TypeOK, Outdated, Reachable, connVars, sessionVars, channelVars,
        pollVars
<1>1. CASE QuietStep
  BY <1>1, Quiet DEF outdatedVars
<1>2. ASSUME NEW c \in Conn, Connect(c)
      PROVE  Outdated(d)' \subseteq Outdated(d)
  BY <1>2 DEF Connect, ToldInv
<1>3. ASSUME NEW c \in Conn, Disconnect(c)
      PROVE  Outdated(d)' \subseteq Outdated(d)
  BY <1>3 DEF Disconnect
<1>4. ASSUME NEW c \in Conn, Expire(c) PROVE Outdated(d)' \subseteq Outdated(d)
  BY <1>4 DEF Expire
<1>5. CASE PollRemove
  BY <1>5 DEF PollRemove, ChannelInv
<1>6. CASE PollUnadvertise
  BY <1>6 DEF PollUnadvertise
<1>7. CASE PollAdd
  BY <1>7 DEF PollAdd
<1>8. CASE PollAdvertise
  BY <1>8 DEF PollAdvertise, ChannelInv
<1>9. ASSUME NEW c \in Conn, Login(c) PROVE Outdated(d)' \subseteq Outdated(d)
  BY <1>9 DEF Login, ToldInv
<1>10. CASE LoginAdvertise
  BY <1>10 DEF LoginAdvertise, HandlerInv
<1>11. ASSUME NEW c \in Conn, Close(c) PROVE Outdated(d)' \subseteq Outdated(d)
  BY <1>11 DEF Close
<1> HIDE DEF TypeOK, Outdated
<1> QED BY <1>1, <1>2, <1>3, <1>4, <1>5, <1>6, <1>7, <1>8, <1>9, <1>10, <1>11
    DEF Next, Network, Poll, Handler, Exhausted, QuietStep

-----------------------------------------------------------------------------
(* Both invariants hold in every state of the program. *)
THEOREM FollowInvariance == Spec => [](FollowInv /\ ToldInv)
<1>1. Init => FollowInv /\ ToldInv
  BY DEF Init, FollowInv, ToldInv, Topics
<1>2. IInv /\ FollowInv /\ ToldInv /\ [Next]_vars => FollowInv' /\ ToldInv'
  BY FollowStep, ToldStep DEF IInv
<1> QED BY <1>1, <1>2, Invariance, PTL DEF Spec

(* Whatever the graph does and whichever queries throw, the channels are   *)
(* those of the ROS graph when the poll thread has handled the last event, *)
(* unless its last query threw.                                            *)
THEOREM ChannelsUpToDate == Spec => []OnlyFailuresLeaveStale
<1>1. IInv /\ FollowInv => OnlyFailuresLeaveStale
  <2> SUFFICES ASSUME IInv, FollowInv, ppc = "waiting", ~event, ~failed
               PROVE  Topics(channels) = ros \ BadTopics
    BY DEF OnlyFailuresLeaveStale, Topics
  <2>1. channels = advertised
    BY DEF IInv, ChannelInv
  <2> QED BY <2>1 DEF FollowInv, Updating
<1> QED BY <1>1, Invariance, FollowInvariance, PTL

(* A client keeps a channel that is gone only if handle_login sent it one  *)
(* from a copy that was out of date.                                       *)
THEOREM OutdatedFromLogin == Spec => OnlyLoginOutdates
<1>1. IInv /\ ToldInv /\ [Next]_vars =>
        [\A c \in Conn : Outdated(c)' \subseteq Outdated(c)
                           \/ (hc = c /\ hpc = "login_send")]_vars
  BY OutdatedStep DEF IInv
<1> QED BY <1>1, Invariance, FollowInvariance, PTL DEF Spec, OnlyLoginOutdates
=============================================================================
