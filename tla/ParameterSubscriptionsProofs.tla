-------------------- MODULE ParameterSubscriptionsProofs --------------------
(***************************************************************************)
(* The tables of ParameterSubscriptions agree, and changes reach their     *)
(* subscribers, for every set of connections, parameters and nodes and     *)
(* every number of changes.                                                *)
(***************************************************************************)
EXTENDS ParameterSubscriptions, TLAPS

(* What the handler thread has in hand: parameters to pass to the bridge,  *)
(* subscribed by now when it subscribes and by nobody when it              *)
(* unsubscribes, and, in ROS 2, nodes that are new in the table.           *)
HandInv ==
    /\ hpc \in {"idle", "listen"} => hparams = {}
    /\ hpc \in {"idle", "unsubscribe"} => hnodes = {}
    /\ ros1 => hnodes = {} /\ hpc # "listen"
    /\ hpc = "subscribe" => \A p \in hparams : Subscribed(p, psubs)
    /\ hpc = "unsubscribe" => \A p \in hparams : ~Subscribed(p, psubs)

(* The parameters of the table are on the whitelist and in the entries of  *)
(* their nodes.  In ROS 2 an entry goes with a ROS subscription, unless    *)
(* the node is about to get one or is spoiled.                             *)
EntryInv ==
    /\ \A n \in Node : \A p \in table[n] : NodeOf[p] = n /\ p \in White
    /\ ros1 => spoiled = {} /\ entries = {}
    /\ ~ros1 =>
         /\ \A n \in Node : table[n] # {} => n \in entries
         /\ \A n \in entries : n \in rossubs \cup hnodes \cup spoiled

(* The bridge follows nothing that nobody subscribed, but for what the     *)
(* handler thread is about to unsubscribe or the master refused.           *)
WantedInv ==
    \A p \in Param : p \in table[NodeOf[p]] =>
      \/ Subscribed(p, psubs)
      \/ p \in refused
      \/ hpc = "unsubscribe" /\ p \in hparams

(* A parameter the bridge has been told of. *)
Kept(p) ==
    \/ Followed(p)
    \/ NodeOf[p] \in spoiled
    \/ ros1 /\ p \in refused \cup (Param \ White)

(* What is subscribed is followed, or the handler thread is about to pass  *)
(* it on, or to listen to its node.                                        *)
FollowedInv ==
    \A p \in Param : Subscribed(p, psubs) =>
      \/ Kept(p)
      \/ hpc = "subscribe" /\ p \in hparams
      \/ p \in table[NodeOf[p]] /\ NodeOf[p] \in hnodes

(* In ROS 2, what is about to be unsubscribed is in its entry, if the      *)
(* client had subscribed it.                                               *)
EraseInv ==
    ~ros1 /\ hpc = "unsubscribe" =>
      \A p \in hparams : Followed(p) \/ NodeOf[p] \in spoiled \/ p \in astray

(* A change that a client is to be told of waits in the queue of the node, *)
(* or is with the executor; the client is still subscribed, and in ROS 2   *)
(* the parameter still in the table.                                       *)
Queued(p) == \E i \in 1..Len(events[NodeOf[p]]) : events[NodeOf[p]][i] = p

DueInv ==
    \A c \in Conn : \A p \in due[c] :
      /\ p \in psubs[c]
      /\ ros1 \/ p \in table[NodeOf[p]]
      /\ eparam = p \/ Queued(p)

(* The executor has a parameter in hand while it runs a callback. *)
ExecInv == epc = "idle" <=> eparam = None

(* The invariant of what is on its way to clients. *)
BaseInv == TypeOK /\ ExecInv /\ HandInv /\ DueInv

(* The invariant of the tables. *)
AgreeInv ==
    /\ crashed => spoiled # {} \/ astray # {}
    /\ ros1 => spoiled = {} /\ entries = {} /\ ~crashed
    /\ ~crashed => EntryInv /\ WantedInv /\ FollowedInv /\ EraseInv

quietVars == <<ros1, psubs, table, rossubs, refused, crashed, hpc, hparams,
               hnodes, astray>>

-----------------------------------------------------------------------------
(* A leaf is for Zenon unless it names SMT, for arithmetic and sequences.  *)
USE Zenon

(* Logins, disconnects and parameter events leave the tables and the       *)
(* handler thread alone, but for the entry an event callback makes.        *)
LEMMA Steps ==
    ASSUME [Next]_vars
    PROVE  \/ UNCHANGED <<quietVars, entries, spoiled>>
           \/ ~crashed /\ EventRead /\ UNCHANGED quietVars
           \/ /\ ~crashed
              /\ \/ \E c \in Conn :
                      \/ Close(c)
                      \/ \E ps \in SUBSET Param :
                           Subscribe(c, ps) \/ Unsubscribe(c, ps)
                 \/ \E p \in Param : \/ SubscribeParam(p)
                                     \/ UnsubscribeParam(p)
                                     \/ Ros1SubscribeParam(p)
                 \/ \E n \in Node : Listen(n)
                 \/ ListenThrows
<1> USE DEF quietVars, clientVars, bridgeVars, eventVars, handlerVars
<1>1. ASSUME NEW c \in Conn, Login(c) \/ Disconnect(c)
      PROVE  UNCHANGED <<quietVars, entries, spoiled>>
  BY <1>1 DEF Login, Disconnect
<1>2. ASSUME NEW p \in Param, ParamChange(p)
      PROVE  UNCHANGED <<quietVars, entries, spoiled>>
  BY <1>2 DEF ParamChange
<1>3. CASE (\E n \in Node : EventTake(n)) \/ Ros1Update \/ EventSend
  BY <1>3 DEF EventTake, Ros1Update, EventSend
<1>4. EventRead => UNCHANGED quietVars
  BY DEF EventRead
<1>5. CASE UNCHANGED vars
  BY <1>5 DEF vars
<1> HIDE DEF quietVars
<1> QED BY <1>1, <1>2, <1>3, <1>4, <1>5
    DEF Next, Network, Handler, Event, Exhausted

(* What the handler thread has in hand is new, or unused by now. *)
LEMMA HandStep ==
    ASSUME TypeOK, HandInv, [Next]_vars
    PROVE  HandInv'
<1> USE DEF HandInv, Subscribed
<1>1. CASE UNCHANGED quietVars
  BY <1>1 DEF quietVars
<1>2. ASSUME NEW c \in Conn, NEW ps \in SUBSET Param, Subscribe(c, ps)
      PROVE  HandInv'
  BY <1>2 DEF Subscribe, Receives, bridgeVars, TypeOK
<1>3. ASSUME NEW c \in Conn, NEW ps \in SUBSET Param, Unsubscribe(c, ps)
      PROVE  HandInv'
  BY <1>3 DEF Unsubscribe, Receives, bridgeVars
<1>4. ASSUME NEW c \in Conn, Close(c) PROVE HandInv'
  BY <1>4 DEF Close, bridgeVars
<1>5. ASSUME NEW p \in Param, SubscribeParam(p) PROVE HandInv'
  BY <1>5 DEF SubscribeParam, clientVars
<1>6. ASSUME NEW p \in Param, UnsubscribeParam(p) PROVE HandInv'
  BY <1>6 DEF UnsubscribeParam, clientVars
<1>7. ASSUME NEW p \in Param, Ros1SubscribeParam(p) PROVE HandInv'
  BY <1>7 DEF Ros1SubscribeParam, clientVars
<1>8. ASSUME NEW n \in Node, Listen(n) PROVE HandInv'
  BY <1>8 DEF Listen, clientVars
<1>9. CASE ListenThrows
  BY <1>9 DEF ListenThrows, clientVars
<1> HIDE DEF HandInv
<1> QED BY <1>1, <1>2, <1>3, <1>4, <1>5, <1>6, <1>7, <1>8, <1>9, Steps

(* Every step keeps the types. *)
LEMMA TypeStep ==
    ASSUME TypeOK, ExecInv, HandInv, [Next]_vars
    PROVE  TypeOK' /\ ExecInv'
<1> USE DEF TypeOK, ExecInv
<1> USE DEF clientVars, bridgeVars, eventVars, handlerVars
<1>0. /\ \A p \in Param : NodeOf[p] \in Node
      /\ None \notin Param /\ MaxChanges \in Nat
  BY ParameterConstants
<1>1. ASSUME NEW c \in Conn, Login(c) \/ Disconnect(c)
      PROVE  TypeOK' /\ ExecInv'
  BY <1>1, SMT DEF Login, Disconnect
<1>2. ASSUME NEW c \in Conn, NEW ps \in SUBSET Param,
             Subscribe(c, ps) \/ Unsubscribe(c, ps)
      PROVE  TypeOK' /\ ExecInv'
  <2>1. CASE Subscribe(c, ps)
    BY <2>1 DEF Subscribe
  <2>2. CASE Unsubscribe(c, ps)
    BY <2>2 DEF Unsubscribe
  <2> QED BY <1>2, <2>1, <2>2
<1>3. ASSUME NEW c \in Conn, Close(c) PROVE TypeOK' /\ ExecInv'
  BY <1>3 DEF Close
<1>4. ASSUME NEW p \in Param, SubscribeParam(p) PROVE TypeOK' /\ ExecInv'
  <2>1. /\ UNCHANGED <<ros1, clientVars, rossubs, refused, crashed, changes,
                       events, epc, eparam, due, astray>>
        /\ hpc' \in {"idle", "subscribe", "listen"}
        /\ hparams' \subseteq hparams
        /\ table' \in {table, [table EXCEPT ![NodeOf[p]] = @ \cup {p}]}
        /\ entries' \subseteq entries \cup {NodeOf[p]}
        /\ hnodes' \subseteq hnodes \cup {NodeOf[p]}
        /\ spoiled' \subseteq
             spoiled \cup hnodes \cup {NodeOf[q] : q \in hparams}
    BY <1>4 DEF SubscribeParam
  <2>2. table' \in [Node -> SUBSET Param]
    BY <1>0, <2>1, SMT
  <2>3. /\ entries' \subseteq Node /\ hnodes' \subseteq Node
        /\ spoiled' \subseteq Node
    <3>1. /\ entries \subseteq Node /\ hnodes \subseteq Node
          /\ spoiled \subseteq Node /\ hparams \subseteq Param
          /\ NodeOf[p] \in Node
      BY <1>0
    <3> HIDE DEF TypeOK, ExecInv
    <3>2. entries' \subseteq Node /\ hnodes' \subseteq Node
      BY <2>1, <3>1
    <3>3. {NodeOf[q] : q \in hparams} \subseteq Node
      BY <1>0, <3>1
    <3>4. spoiled' \subseteq Node
      BY <2>1, <3>1, <3>3
    <3> QED BY <3>2, <3>4
  <2> QED BY <2>1, <2>2, <2>3
<1>5. ASSUME NEW p \in Param, UnsubscribeParam(p) PROVE TypeOK' /\ ExecInv'
  <2>1. /\ UNCHANGED <<ros1, refused, clientVars, changes, epc, eparam,
                       spoiled, due, hnodes>>
        /\ hparams' \subseteq hparams /\ hpc' \in {"idle", "unsubscribe"}
        /\ entries' \subseteq entries /\ rossubs' \subseteq rossubs
        /\ astray' \subseteq astray
    BY <1>5 DEF UnsubscribeParam
  <2>2. table' \in [Node -> SUBSET Param]
    <3>1. table' \in {table, [table EXCEPT ![NodeOf[p]] = @ \ {p}]}
      BY <1>5 DEF UnsubscribeParam
    <3> QED BY <1>0, <3>1, SMTT(30)
  <2>3. crashed' \in BOOLEAN
    BY <1>5 DEF UnsubscribeParam
  <2>4. events' \in [Node -> Seq(Param)]
    <3>1. events' \in {events, [events EXCEPT ![NodeOf[p]] = <<>>]}
      BY <1>5 DEF UnsubscribeParam
    <3>2. events \in [Node -> Seq(Param)] /\ <<>> \in Seq(Param)
      BY SMT
    <3> HIDE DEF TypeOK
    <3> QED BY <1>0, <3>1, <3>2
  <2> QED BY <2>1, <2>2, <2>3, <2>4
<1>6. ASSUME NEW p \in Param, Ros1SubscribeParam(p) PROVE TypeOK' /\ ExecInv'
  <2>1. /\ UNCHANGED <<ros1, clientVars, entries, rossubs, crashed, eventVars,
                       due, hnodes>>
        /\ hpc' \in {"idle", hpc} /\ hparams' \subseteq hparams
        /\ refused' \subseteq refused \cup {p} /\ astray' \subseteq astray
        /\ table' \in {table, [table EXCEPT ![NodeOf[p]] = @ \cup {p}],
                             [table EXCEPT ![NodeOf[p]] = @ \ {p}]}
    BY <1>6 DEF Ros1SubscribeParam
  <2>2. table' \in [Node -> SUBSET Param]
    <3>1. table \in [Node -> SUBSET Param]
      OBVIOUS
    <3> HIDE DEF TypeOK
    <3> QED BY <1>0, <2>1, <3>1, SMT
  <2> QED BY <2>1, <2>2
<1>7. ASSUME NEW n \in Node, Listen(n) PROVE TypeOK' /\ ExecInv'
  BY <1>7 DEF Listen, HandInv
<1>13. CASE ListenThrows
  BY <1>13 DEF ListenThrows
<1>8. ASSUME NEW p \in Param, ParamChange(p) PROVE TypeOK' /\ ExecInv'
  <2>1. UNCHANGED <<clientVars, bridgeVars, epc, eparam, spoiled, handlerVars>>
    BY <1>8 DEF ParamChange
  <2>2. changes' \in 0..MaxChanges
    BY <1>0, <1>8, SMT DEF ParamChange
  <2>3. events' \in [Node -> Seq(Param)]
    BY <1>0, <1>8, SMT DEF ParamChange
  <2>4. due' \in [Conn -> SUBSET Param]
    BY <1>8 DEF ParamChange
  <2> QED BY <2>1, <2>2, <2>3, <2>4
<1>9. ASSUME NEW n \in Node, EventTake(n) PROVE TypeOK' /\ ExecInv'
  BY <1>0, <1>9, SMT DEF EventTake
<1>10. CASE EventRead
  BY <1>0, <1>10 DEF EventRead
<1>11. CASE Ros1Update \/ EventSend
  <2>1. CASE Ros1Update
    BY <1>0, <2>1 DEF Ros1Update
  <2>2. CASE EventSend
    BY <2>2 DEF EventSend
  <2> QED BY <1>11, <2>1, <2>2
<1>12. CASE UNCHANGED vars
  BY <1>12 DEF vars
<1> HIDE DEF TypeOK, ExecInv
<1> QED BY <1>1, <1>2, <1>3, <1>4, <1>5, <1>6, <1>7, <1>8, <1>9, <1>10, <1>11,
           <1>12, <1>13
    DEF Next, Network, Handler, Event, Exhausted

(* Appending to a queue and taking its head move no other element away. *)
LEMMA AppendKeeps ==
    ASSUME NEW S, NEW s \in Seq(S), NEW x \in S
    PROVE  /\ \A i \in 1..Len(s) : /\ i \in 1..Len(Append(s, x))
                                   /\ Append(s, x)[i] = s[i]
           /\ \E i \in 1..Len(Append(s, x)) : Append(s, x)[i] = x
<1>1. /\ Len(s) + 1 \in 1..Len(Append(s, x))
      /\ Append(s, x)[Len(s) + 1] = x
  BY SMT
<1> QED BY <1>1, SMT

(* Taking the first element of a queue moves the others up by one. *)
LEMMA TailKeeps ==
    ASSUME NEW S, NEW s \in Seq(S), NEW i \in 1..Len(s), i # 1
    PROVE  i - 1 \in 1..Len(Tail(s)) /\ Tail(s)[i - 1] = s[i]
BY SMT

(* What a client is to be told of stays on its way. *)
LEMMA DueStep ==
    ASSUME TypeOK, ExecInv, HandInv, DueInv, [Next]_vars
    PROVE  DueInv'
<1>0. /\ \A p \in Param : NodeOf[p] \in Node
      /\ None \notin Param
  BY ParameterConstants
<1>1. CASE /\ UNCHANGED <<ros1, psubs, table, events, eparam>>
           /\ \A c \in Conn : due'[c] \subseteq due[c]
  BY <1>1 DEF DueInv, Queued
<1>2. ASSUME NEW c \in Conn, Login(c) \/ Disconnect(c)
      PROVE  DueInv'
  <2>1. UNCHANGED <<ros1, psubs, table, events, eparam, due>>
    BY <1>2 DEF Login, Disconnect, bridgeVars, eventVars
  <2> QED BY <1>1, <2>1
<1>3. ASSUME NEW c \in Conn, NEW ps \in SUBSET Param,
             Subscribe(c, ps) \/ Unsubscribe(c, ps)
      PROVE  DueInv'
  <2>1. /\ UNCHANGED <<ros1, table, events, eparam>>
        /\ \A d \in Conn : \A p \in due'[d] : p \in due[d] /\ p \in psubs'[d]
    <3>1. CASE Subscribe(c, ps)
      BY <3>1 DEF Subscribe, bridgeVars, eventVars, TypeOK, DueInv
    <3>2. CASE Unsubscribe(c, ps)
      BY <3>2 DEF Unsubscribe, bridgeVars, eventVars, TypeOK, DueInv
    <3> QED BY <1>3, <3>1, <3>2
  <2> QED BY <2>1 DEF DueInv, Queued
<1>4. ASSUME NEW c \in Conn, Close(c) PROVE DueInv'
  <2>1. /\ UNCHANGED <<ros1, table, events, eparam>>
        /\ \A d \in Conn : \A p \in due'[d] : p \in due[d] /\ p \in psubs'[d]
    BY <1>4 DEF Close, bridgeVars, eventVars, TypeOK, DueInv
  <2> QED BY <2>1 DEF DueInv, Queued
<1>5. ASSUME NEW p \in Param, SubscribeParam(p) PROVE DueInv'
  <2>1. /\ UNCHANGED <<ros1, psubs, events, eparam, due>>
        /\ \A q \in Param : q \in table[NodeOf[q]] => q \in table'[NodeOf[q]]
    BY <1>0, <1>5, SMT DEF SubscribeParam, clientVars, TypeOK
  <2> QED BY <2>1 DEF DueInv, Queued, TypeOK
<1>6. ASSUME NEW p \in Param, UnsubscribeParam(p) PROVE DueInv'
  <2>1. UNCHANGED <<ros1, psubs, eparam, due>> /\ ~ros1
    BY <1>6 DEF UnsubscribeParam, clientVars
  <2>2. SUFFICES ASSUME NEW c \in Conn, NEW q \in due[c]
                 PROVE  q \in table'[NodeOf[q]] /\ (eparam = q \/ Queued(q)')
    BY <2>1 DEF DueInv
  <2>3. q \in Param /\ q \in psubs[c] /\ q \in table[NodeOf[q]]
    BY <2>1 DEF DueInv, TypeOK
  <2>4. q # p
    BY <1>6, <2>3 DEF UnsubscribeParam, HandInv, Subscribed
  <2>5. q \in table'[NodeOf[q]]
    <3>1. table' \in {table, [table EXCEPT ![NodeOf[p]] = @ \ {p}]}
      BY <1>6 DEF UnsubscribeParam
    <3>2. table \in [Node -> SUBSET Param] /\ NodeOf[q] \in Node
      BY <1>0, <2>3 DEF TypeOK
    <3>3. table[NodeOf[q]] \ {p} \subseteq table'[NodeOf[q]]
      BY <3>1, <3>2
    <3> QED BY <2>3, <2>4, <3>3
  <2>6. events'[NodeOf[q]] = events[NodeOf[q]]
    <3>1. \/ events' = events
          \/ /\ table[NodeOf[p]] \ {p} = {}
             /\ events' = [events EXCEPT ![NodeOf[p]] = <<>>]
      BY <1>6 DEF UnsubscribeParam
    <3>2. NodeOf[q] = NodeOf[p] => table[NodeOf[p]] \ {p} # {}
      BY <2>3, <2>4
    <3> QED BY <1>0, <2>3, <3>1, <3>2 DEF TypeOK
  <2> QED BY <2>1, <2>5, <2>6 DEF DueInv, Queued
<1>7. ASSUME NEW p \in Param, Ros1SubscribeParam(p) PROVE DueInv'
  <2>1. UNCHANGED <<ros1, psubs, events, eparam, due>> /\ ros1
    BY <1>7 DEF Ros1SubscribeParam, clientVars, eventVars
  <2> QED BY <2>1 DEF DueInv, Queued
<1>8. ASSUME NEW n \in Node, Listen(n) PROVE DueInv'
  <2>1. UNCHANGED <<ros1, psubs, table, events, eparam, due>>
    BY <1>8 DEF Listen, clientVars, eventVars
  <2> QED BY <1>1, <2>1
<1>15. CASE ListenThrows
  <2>1. UNCHANGED <<ros1, psubs, table, events, eparam, due>>
    BY <1>15 DEF ListenThrows, clientVars
  <2> QED BY <1>1, <2>1
<1>9. ASSUME NEW p \in Param, ParamChange(p) PROVE DueInv'
  <2>1. UNCHANGED <<ros1, psubs, table, eparam>>
    BY <1>9 DEF ParamChange, clientVars, bridgeVars
  <2>2. \A q \in Param : Queued(q) => Queued(q)'
    <3>1. events' \in {events, [events EXCEPT ![NodeOf[p]] = Append(@, p)]}
      BY <1>9 DEF ParamChange
    <3>2. \A n \in Node : \A i \in 1..Len(events[n]) :
            i \in 1..Len(events'[n]) /\ events'[n][i] = events[n][i]
      <4>1. CASE events' = events
        BY <4>1
      <4>2. CASE events' = [events EXCEPT ![NodeOf[p]] = Append(@, p)]
        <5> SUFFICES ASSUME NEW n \in Node, NEW i \in 1..Len(events[n])
                     PROVE  /\ i \in 1..Len(events'[n])
                            /\ events'[n][i] = events[n][i]
          OBVIOUS
        <5>1. events[n] \in Seq(Param)
          BY DEF TypeOK
        <5>2. events'[n] = IF n = NodeOf[p] THEN Append(events[n], p)
                                            ELSE events[n]
          BY <1>0, <4>2 DEF TypeOK
        <5> QED BY <5>1, <5>2, AppendKeeps, SMT
      <4> QED BY <3>1, <4>1, <4>2
    <3> QED BY <1>0, <3>2 DEF Queued
  <2>3. Followed(p) => Queued(p)'
    <3>1. SUFFICES ASSUME Followed(p) PROVE Queued(p)'
      OBVIOUS
    <3>2. events'[NodeOf[p]] = Append(events[NodeOf[p]], p)
      BY <1>0, <1>9, <3>1 DEF ParamChange, TypeOK
    <3>3. events[NodeOf[p]] \in Seq(Param)
      BY <1>0 DEF TypeOK
    <3> QED BY <3>2, <3>3, AppendKeeps, SMT DEF Queued
  <2>4. ASSUME NEW c \in Conn, NEW q \in due'[c]
        PROVE  q \in due[c] \/ (q = p /\ Followed(p) /\ p \in psubs[c])
    BY <1>9, <2>4 DEF ParamChange, TypeOK
  <2>5. ASSUME NEW c \in Conn, NEW q \in due'[c]
        PROVE  /\ q \in psubs[c] /\ (ros1 \/ q \in table[NodeOf[q]])
               /\ eparam = q \/ Queued(q)'
    BY <2>2, <2>3, <2>4 DEF DueInv, Followed, TypeOK
  <2> QED BY <2>1, <2>5 DEF DueInv
<1>10. ASSUME NEW n \in Node, EventTake(n) PROVE DueInv'
  <2>1. /\ UNCHANGED <<ros1, psubs, table, due>>
        /\ eparam' = Head(events[n]) /\ events[n] # <<>>
        /\ events' = [events EXCEPT ![n] = Tail(@)]
        /\ eparam = None
    BY <1>10 DEF EventTake, clientVars, bridgeVars, ExecInv
  <2>2. ASSUME NEW q \in Param, Queued(q)
        PROVE  eparam' = q \/ Queued(q)'
    <3>1. CASE NodeOf[q] # n
      BY <1>0, <2>1, <2>2, <3>1 DEF Queued, TypeOK
    <3>2. CASE NodeOf[q] = n
      <4>1. PICK i \in 1..Len(events[n]) : events[n][i] = q
        BY <2>2, <3>2 DEF Queued
      <4>2. events[n] \in Seq(Param) /\ events'[n] = Tail(events[n])
        BY <2>1 DEF TypeOK
      <4>3. CASE i = 1
        BY <2>1, <4>1, <4>2, <4>3, SMT
      <4>4. CASE i # 1
        <5>1. i - 1 \in 1..Len(events'[n]) /\ events'[n][i - 1] = q
          BY <4>1, <4>2, <4>4, TailKeeps
        <5> QED BY <3>2, <5>1 DEF Queued
      <4> QED BY <4>3, <4>4
    <3> QED BY <3>1, <3>2
  <2> QED BY <1>0, <2>1, <2>2 DEF DueInv, TypeOK
<1>11. CASE EventRead
  <2>1. /\ UNCHANGED <<ros1, psubs, table, events, due>> /\ ~ros1
        /\ eparam' = eparam \/ eparam \notin table[NodeOf[eparam]]
    BY <1>11 DEF EventRead, clientVars
  <2>2. ASSUME NEW c \in Conn, NEW p \in due[c]
        PROVE  eparam' = p \/ Queued(p)
    BY <2>1 DEF DueInv
  <2> QED BY <2>1, <2>2 DEF DueInv, Queued
<1>12. CASE Ros1Update
  <2>1. UNCHANGED <<ros1, psubs, table, events, eparam, due>>
    BY <1>12 DEF Ros1Update, clientVars, bridgeVars
  <2> QED BY <1>1, <2>1
<1>13. CASE EventSend
  <2>1. /\ UNCHANGED <<ros1, psubs, table, events>>
        /\ \A c \in Conn : due'[c] = IF eparam \in psubs[c]
                                       THEN due[c] \ {eparam} ELSE due[c]
    BY <1>13 DEF EventSend, clientVars, bridgeVars
  <2>2. ASSUME NEW c \in Conn, NEW p \in due'[c]
        PROVE  p \in due[c] /\ Queued(p)
    <3>1. p \in due[c] /\ (eparam \in psubs[c] => p # eparam)
      BY <2>1, <2>2
    <3>2. p \in psubs[c] /\ (eparam = p \/ Queued(p))
      BY <3>1 DEF DueInv
    <3> QED BY <3>1, <3>2
  <2> QED BY <2>1, <2>2 DEF DueInv, Queued
<1>14. CASE UNCHANGED vars
  <2>1. UNCHANGED <<ros1, psubs, table, events, eparam, due>>
    BY <1>14 DEF vars
  <2> QED BY <1>1, <2>1
<1> QED BY <1>2, <1>3, <1>4, <1>5, <1>6, <1>7, <1>8, <1>9, <1>10, <1>11,
           <1>12, <1>13, <1>14, <1>15
    DEF Next, Network, Handler, Event, Exhausted

(* The first state has the types and the invariants the steps keep. *)
LEMMA BaseInit == Init => BaseInv
<1> SUFFICES ASSUME Init PROVE BaseInv
  OBVIOUS
<1> USE ParameterConstants DEF Init
<1>1. TypeOK
  <2>1. /\ con \in [Conn -> {"open", "closed", "done"}]
        /\ psubs \in [Conn -> SUBSET Param] /\ due \in [Conn -> SUBSET Param]
        /\ table \in [Node -> SUBSET Param]
    OBVIOUS
  <2>2. events \in [Node -> Seq(Param)] /\ changes \in 0..MaxChanges
    BY SMT
  <2> QED BY <2>1, <2>2 DEF TypeOK
<1>2. ExecInv
  BY DEF ExecInv
<1>3. HandInv
  BY DEF HandInv
<1>4. DueInv
  <2>1. \A c \in Conn : due[c] = {}
    OBVIOUS
  <2> QED BY <2>1 DEF DueInv
<1> QED BY <1>1, <1>2, <1>3, <1>4 DEF BaseInv

(* ChangesReachSubscribers: no change of a followed parameter is lost on   *)
(* its way from ROS through the event callback to update_parameter_values, *)
(* for a client that stays subscribed, whatever the clients do.            *)
THEOREM ChangesArrive == Spec => []ChangesReachSubscribers
<1>1. BaseInv /\ [Next]_vars => BaseInv'
  BY HandStep, TypeStep, DueStep DEF BaseInv
<1>2. BaseInv => ChangesReachSubscribers
  BY DEF BaseInv, DueInv, Queued, ChangesReachSubscribers
<1> QED BY BaseInit, <1>1, <1>2, PTL DEF Spec

-----------------------------------------------------------------------------
(* The tables of the server and the bridge. *)

(* A callback that finds no entry makes one, which spoils the node. *)
LEMMA ReadAgrees ==
    ASSUME TypeOK, HandInv, AgreeInv, ~crashed, EventRead, UNCHANGED quietVars
    PROVE  AgreeInv'
<1>1. /\ ~ros1 /\ entries \subseteq entries'
      /\ entries' \ entries \subseteq spoiled' /\ spoiled \subseteq spoiled'
  BY DEF EventRead
<1>2. EntryInv'
  BY <1>1 DEF AgreeInv, EntryInv, quietVars
<1>3. WantedInv'
  BY DEF AgreeInv, WantedInv, quietVars, Subscribed
<1>4. FollowedInv'
  BY <1>1 DEF AgreeInv, FollowedInv, quietVars, Subscribed, Kept, Followed
<1>5. EraseInv'
  BY <1>1 DEF AgreeInv, EraseInv, quietVars, Followed
<1> QED BY <1>1, <1>2, <1>3, <1>4, <1>5 DEF AgreeInv, quietVars

(* A request or a close changes who subscribes, and what is in hand. *)
LEMMA ServerAgrees ==
    ASSUME TypeOK, HandInv, AgreeInv, ~crashed,
           NEW c \in Conn,
           \/ Close(c)
           \/ \E ps \in SUBSET Param : Subscribe(c, ps) \/ Unsubscribe(c, ps)
    PROVE  AgreeInv'
<1>1. /\ hpc = "idle" /\ hparams = {} /\ hnodes = {}
      /\ UNCHANGED <<ros1, entries, table, rossubs, refused, crashed, spoiled,
                     hnodes>>
  BY DEF Close, Subscribe, Unsubscribe, Receives, HandInv, bridgeVars,
     eventVars
<1>2. ASSUME NEW p \in Param
      PROVE  /\ Subscribed(p, psubs) =>
                  \/ Subscribed(p, psubs')
                  \/ hpc' = "unsubscribe" /\ p \in hparams'
             /\ Subscribed(p, psubs') =>
                  \/ Subscribed(p, psubs)
                  \/ hpc' = "subscribe" /\ p \in hparams'
             /\ hpc' = "unsubscribe" /\ p \in hparams' =>
                  Subscribed(p, psubs) \/ p \in astray'
  <2>1. CASE Close(c) /\ c \in clients
    BY <2>1 DEF Close, Subscribed, TypeOK
  <2>2. CASE Close(c) /\ c \notin clients
    BY <1>1, <2>2 DEF Close, Subscribed
  <2>3. CASE \E ps \in SUBSET Param : Subscribe(c, ps)
    <3>1. PICK ps \in SUBSET Param : Subscribe(c, ps)
      BY <2>3
    <3>2. Subscribed(p, psubs') <=> Subscribed(p, psubs) \/ p \in ps
      BY <3>1 DEF Subscribe, Subscribed, TypeOK
    <3> QED BY <3>1, <3>2 DEF Subscribe
  <2>4. CASE \E ps \in SUBSET Param : Unsubscribe(c, ps)
    <3>1. PICK ps \in SUBSET Param : Unsubscribe(c, ps)
      BY <2>4
    <3>2. /\ Subscribed(p, psubs') => Subscribed(p, psubs)
          /\ Subscribed(p, psubs) => Subscribed(p, psubs') \/ p \in ps
          /\ p \in psubs[c] => Subscribed(p, psubs)
      BY ZenonT(40), <3>1 DEF Unsubscribe, Subscribed, TypeOK
    <3> QED BY <3>1, <3>2 DEF Unsubscribe
  <2> QED BY <2>1, <2>2, <2>3, <2>4
<1>3. EntryInv'
  BY <1>1 DEF AgreeInv, EntryInv
<1>4. WantedInv'
  BY <1>1, <1>2 DEF AgreeInv, WantedInv
<1>5. FollowedInv'
  BY <1>1, <1>2 DEF AgreeInv, FollowedInv, Kept, Followed
<1>6. EraseInv'
  <2>1. \A p \in Param : Subscribed(p, psubs) => Kept(p)
    BY <1>1 DEF AgreeInv, FollowedInv
  <2>2. hparams' \subseteq Param
    BY DEF Close, Subscribe, Unsubscribe, TypeOK
  <2> QED BY <1>1, <1>2, <2>1, <2>2 DEF EraseInv, Kept, Followed
<1> QED BY <1>1, <1>3, <1>4, <1>5, <1>6 DEF AgreeInv

(* subscribe_params, one parameter: it is in the table now, or the call    *)
(* ends and spoils the nodes it leaves unfinished.                         *)
LEMMA SubscribeAgrees ==
    ASSUME TypeOK, HandInv, AgreeInv, ~crashed,
           NEW p \in Param, SubscribeParam(p)
    PROVE  AgreeInv'
<1> DEFINE n == NodeOf[p]
<1>1. /\ ~ros1 /\ hpc = "subscribe" /\ p \in hparams
      /\ UNCHANGED <<ros1, psubs, rossubs, refused, crashed>>
      /\ hpc' # "unsubscribe"
  BY DEF SubscribeParam, clientVars
<1>2. n \in Node /\ \A q \in Param : NodeOf[q] \in Node
  BY ParameterConstants
<1>3. EntryInv /\ WantedInv /\ FollowedInv
  BY DEF AgreeInv
<1>4. CASE p \in White
  <2>1. /\ entries' = entries \cup {n} /\ UNCHANGED spoiled
        /\ hnodes' = hnodes \cup ({n} \ entries)
        /\ hparams' = hparams \ {p}
        /\ hparams' # {} => hpc' = "subscribe"
    BY <1>4 DEF SubscribeParam
  <2>2. \A m \in Node : table'[m] = IF m = n THEN table[m] \cup {p}
                                             ELSE table[m]
    BY <1>2, <1>4 DEF SubscribeParam, TypeOK
  <2> HIDE DEF n
  <2>3. n = NodeOf[p]
    BY DEF n
  <2>4. EntryInv'
    <3>1. \A m \in Node : \A q \in table'[m] : NodeOf[q] = m /\ q \in White
      <4> SUFFICES ASSUME NEW m \in Node, NEW q \in table'[m]
                   PROVE  NodeOf[q] = m /\ q \in White
        OBVIOUS
      <4>1. q \in table[m] \/ (q = p /\ m = n)
        BY <2>2
      <4> QED BY <1>3, <1>4, <2>3, <4>1 DEF EntryInv
    <3>2. \A m \in Node : table'[m] # {} => m \in entries'
      BY <1>1, <1>3, <2>1, <2>2 DEF EntryInv
    <3>3. \A m \in entries' : m \in rossubs' \cup hnodes' \cup spoiled'
      BY <1>1, <1>3, <2>1 DEF EntryInv
    <3> QED BY <1>1, <3>1, <3>2, <3>3 DEF EntryInv
  <2>5. WantedInv'
    BY <1>1, <1>2, <1>3, <2>2 DEF WantedInv, HandInv
  <2>6. ASSUME NEW q \in Param, Subscribed(q, psubs)
        PROVE  \/ Kept(q)'
               \/ hpc' = "subscribe" /\ q \in hparams'
               \/ q \in table'[NodeOf[q]] /\ NodeOf[q] \in hnodes'
    <3>1. CASE Kept(q)
      BY <1>1, <1>2, <2>1, <2>2, <3>1 DEF Kept, Followed
    <3>2. CASE q \in hparams /\ q # p
      BY <2>1, <3>2
    <3>3. CASE q = p
      <4>1. p \in table'[NodeOf[p]] /\ NodeOf[p] \in entries'
        BY <1>2, <2>1, <2>2, <2>3
      <4>2. NodeOf[p] \in rossubs' \cup hnodes' \cup spoiled'
        BY <1>1, <2>4, <4>1 DEF EntryInv
      <4> QED BY <3>3, <4>1, <4>2 DEF Kept, Followed
    <3>4. CASE q \in table[NodeOf[q]] /\ NodeOf[q] \in hnodes
      BY <1>2, <2>1, <2>2, <3>4
    <3> QED BY <1>3, <2>6, <3>1, <3>2, <3>3, <3>4 DEF FollowedInv
  <2> QED BY <1>1, <2>1, <2>4, <2>5, <2>6
      DEF AgreeInv, FollowedInv, EraseInv
<1>5. CASE p \notin White
  <2>1. /\ UNCHANGED <<entries, table>>
        /\ hpc' = "idle" /\ hparams' = {} /\ hnodes' = {}
        /\ spoiled' = spoiled \cup hnodes \cup {NodeOf[q] : q \in hparams}
    BY <1>5 DEF SubscribeParam
  <2>2. EntryInv'
    BY <1>1, <1>3, <2>1 DEF EntryInv
  <2>3. WantedInv'
    BY <1>1, <1>3, <2>1 DEF WantedInv
  <2>4. FollowedInv'
    BY <1>1, <1>3, <2>1 DEF FollowedInv, Kept, Followed
  <2> QED BY <1>1, <2>1, <2>2, <2>3, <2>4 DEF AgreeInv, EraseInv
<1> QED BY <1>4, <1>5

(* A ROS subscription for a node that is new in the table. *)
LEMMA ListenAgrees ==
    ASSUME TypeOK, HandInv, AgreeInv, ~crashed, NEW n \in Node, Listen(n)
    PROVE  AgreeInv'
<1>1. /\ ~ros1 /\ hpc = "listen" /\ hpc' \in {"idle", "listen"}
      /\ rossubs' = rossubs \cup {n} /\ hnodes' = hnodes \ {n}
      /\ UNCHANGED <<ros1, psubs, entries, table, refused, crashed, spoiled,
                     hparams>>
  BY DEF Listen, HandInv, clientVars, eventVars
<1>2. EntryInv'
  BY <1>1 DEF AgreeInv, EntryInv
<1>3. WantedInv'
  BY <1>1 DEF AgreeInv, WantedInv
<1>4. FollowedInv'
  BY <1>1 DEF AgreeInv, FollowedInv, Kept, Followed
<1> QED BY <1>1, <1>2, <1>3, <1>4 DEF AgreeInv, EraseInv

(* A client that cannot be made spoils the nodes that still wait for one. *)
LEMMA ListenThrowsAgrees ==
    ASSUME TypeOK, HandInv, AgreeInv, ~crashed, ListenThrows
    PROVE  AgreeInv'
<1>1. /\ ~ros1 /\ hpc = "listen" /\ hpc' = "idle"
      /\ hnodes' = {} /\ spoiled' = spoiled \cup hnodes
      /\ UNCHANGED <<ros1, psubs, entries, table, rossubs, refused, crashed,
                     hparams>>
  BY DEF ListenThrows, HandInv, clientVars
<1>2. EntryInv'
  BY <1>1 DEF AgreeInv, EntryInv
<1>3. WantedInv'
  BY <1>1 DEF AgreeInv, WantedInv
<1>4. FollowedInv'
  BY <1>1 DEF AgreeInv, FollowedInv, Kept, Followed
<1> QED BY <1>1, <1>2, <1>3, <1>4 DEF AgreeInv, EraseInv

(* unsubscribe_params, one parameter: nothing else goes with it, and only  *)
(* a spoiled node, or a parameter its client had not subscribed, makes it  *)
(* erase the end iterator.                                                 *)
LEMMA UnsubscribeAgrees ==
    ASSUME TypeOK, HandInv, AgreeInv, ~crashed,
           NEW p \in Param, UnsubscribeParam(p)
    PROVE  AgreeInv'
<1> DEFINE n == NodeOf[p]
<1>1. /\ ~ros1 /\ hpc = "unsubscribe" /\ p \in hparams /\ hnodes = {}
      /\ UNCHANGED <<ros1, psubs, refused, spoiled, hnodes>>
      /\ hparams' = hparams \ {p} /\ hpc' \in {"idle", "unsubscribe"}
      /\ hparams' # {} => hpc' = "unsubscribe"
  BY DEF UnsubscribeParam, clientVars, HandInv
<1>2. n \in Node /\ \A q \in Param : NodeOf[q] \in Node
  BY ParameterConstants
<1>3. EntryInv /\ WantedInv /\ FollowedInv /\ EraseInv
  BY DEF AgreeInv
<1>4. ~Subscribed(p, psubs) /\ (Followed(p) \/ n \in spoiled \/ p \in astray)
  BY <1>1, <1>3 DEF HandInv, EraseInv
<1>5. CASE crashed'
  <2>1. p \notin table[n] \/ n \notin rossubs
    BY <1>5 DEF UnsubscribeParam
  <2>2. spoiled # {} \/ astray # {}
    BY <1>1, <1>4, <2>1 DEF Followed
  <2>3. astray' = astray
    BY <1>5 DEF UnsubscribeParam
  <2> QED BY <1>1, <1>5, <2>2, <2>3 DEF AgreeInv
<1>6. CASE ~crashed'
  <2>1. \A m \in Node : table'[m] = IF m = n THEN table[m] \ {p} ELSE table[m]
    <3>1. CASE n \in entries
      BY <1>2, <3>1 DEF UnsubscribeParam, TypeOK
    <3>2. CASE n \notin entries
      <4>1. table' = table /\ table[n] = {}
        BY <1>1, <1>2, <1>3, <3>2 DEF UnsubscribeParam, EntryInv
      <4> QED BY <4>1
    <3> QED BY <3>1, <3>2
  <2>2. \/ UNCHANGED <<entries, rossubs>>
        \/ /\ table[n] \ {p} = {}
           /\ entries' = entries \ {n} /\ rossubs' = rossubs \ {n}
    BY DEF UnsubscribeParam
  <2> HIDE DEF n
  <2>3. n = NodeOf[p]
    BY DEF n
  <2>4. EntryInv'
    <3>1. \A m \in Node : \A q \in table'[m] : NodeOf[q] = m /\ q \in White
      BY <1>3, <2>1 DEF EntryInv
    <3>2. \A m \in Node : table'[m] # {} => m \in entries'
      BY <1>1, <1>3, <2>1, <2>2 DEF EntryInv
    <3>3. \A m \in entries' : m \in rossubs' \cup hnodes' \cup spoiled'
      BY <1>1, <1>3, <2>2 DEF EntryInv
    <3> QED BY <1>1, <3>1, <3>2, <3>3 DEF EntryInv
  <2>5. ASSUME NEW q \in Param, q # p
        PROVE  /\ q \in table'[NodeOf[q]] <=> q \in table[NodeOf[q]]
               /\ Followed(q) => Followed(q)'
    <3>1. q \in table'[NodeOf[q]] <=> q \in table[NodeOf[q]]
      BY <1>2, <2>1, <2>5
    <3>2. q \in table[NodeOf[q]] /\ NodeOf[q] \in rossubs =>
            NodeOf[q] \in rossubs'
      BY <2>2, <2>5
    <3> QED BY <1>1, <3>1, <3>2 DEF Followed
  <2>6. WantedInv'
    <3>1. p \notin table'[NodeOf[p]]
      BY <1>2, <2>1, <2>3
    <3> QED BY <1>1, <1>3, <2>5, <3>1, SMT DEF WantedInv
  <2>7. FollowedInv'
    BY <1>1, <1>3, <1>4, <2>5 DEF FollowedInv, Kept
  <2>8. EraseInv'
    <3>1. astray' = astray \ {p}
      BY <1>6 DEF UnsubscribeParam
    <3> QED BY <1>1, <1>3, <2>5, <3>1 DEF EraseInv, TypeOK
  <2> QED BY <1>1, <1>6, <2>4, <2>6, <2>7, <2>8 DEF AgreeInv
<1> QED BY <1>5, <1>6

(* The ROS 1 bridge: one parameter, whatever the master answers. *)
LEMMA Ros1Agrees ==
    ASSUME TypeOK, HandInv, AgreeInv, ~crashed,
           NEW p \in Param, Ros1SubscribeParam(p)
    PROVE  AgreeInv'
<1>1. /\ ros1 /\ hpc \in {"subscribe", "unsubscribe"} /\ p \in hparams
      /\ UNCHANGED <<ros1, psubs, entries, rossubs, crashed, spoiled, hnodes>>
      /\ hparams' = hparams \ {p} /\ hpc' \in {"idle", hpc}
      /\ hparams' # {} => hpc' = hpc
  BY DEF Ros1SubscribeParam, clientVars, eventVars
<1>2. \A q \in Param : NodeOf[q] \in Node
  BY ParameterConstants
<1>3. EntryInv /\ WantedInv /\ FollowedInv
  BY DEF AgreeInv
<1>4. IF hpc = "subscribe" THEN Subscribed(p, psubs) ELSE ~Subscribed(p, psubs)
  BY <1>1 DEF HandInv
<1>5. /\ \A q \in Param \ {p} :
           /\ q \in table'[NodeOf[q]] <=> q \in table[NodeOf[q]]
           /\ q \in refused' <=> q \in refused
      /\ \A m \in Node : table'[m] \subseteq table[m] \cup {p}
      /\ \A m \in Node : p \in table'[m] => p \in table[m] \/ m = NodeOf[p]
  <2>1. /\ refused' \in {refused, refused \ {p}, refused \cup {p}}
        /\ table' \in {table, [table EXCEPT ![NodeOf[p]] = @ \cup {p}],
                             [table EXCEPT ![NodeOf[p]] = @ \ {p}]}
    BY DEF Ros1SubscribeParam
  <2>2. \A m \in Node :
          \/ table'[m] = table[m]
          \/ m = NodeOf[p] /\ table'[m] \in {table[m] \cup {p}, table[m] \ {p}}
    BY <1>2, <2>1 DEF TypeOK
  <2>3. \A q \in Param \ {p} : q \in refused' <=> q \in refused
    BY <2>1
  <2> QED BY <1>2, <2>2, <2>3
<1>6. EntryInv'
  BY <1>1, <1>3, <1>5, SMT DEF EntryInv, Ros1SubscribeParam
<1>7. p \in table'[NodeOf[p]] => Subscribed(p, psubs) \/ p \in refused'
  BY <1>2, <1>3, <1>4, SMT DEF Ros1SubscribeParam, EntryInv, TypeOK
<1>8. WantedInv'
  BY <1>1, <1>3, <1>5, <1>7 DEF WantedInv
<1>9. Subscribed(p, psubs) => Kept(p)'
  BY <1>1, <1>2, <1>4, SMT DEF Ros1SubscribeParam, Kept, Followed, TypeOK
<1>10. FollowedInv'
  BY <1>1, <1>3, <1>5, <1>9 DEF FollowedInv, Kept, Followed
<1> QED BY <1>1, <1>6, <1>8, <1>10 DEF AgreeInv, EraseInv

(* TablesAgree: the server's subscriptions, the bridge's table and its ROS *)
(* subscriptions agree between two requests, but for the nodes that        *)
(* subscribe_params or an event callback has spoiled, and                  *)
(* unsubscribe_params erases the end iterator only when there is such a    *)
(* node or a client unsubscribes what it had not subscribed.               *)
THEOREM TablesKept == Spec => []TablesAgree
<1> DEFINE Inv == TypeOK /\ ExecInv /\ HandInv /\ AgreeInv
<1>1. Init => Inv
  <2> SUFFICES ASSUME Init PROVE Inv
    OBVIOUS
  <2>1. TypeOK /\ ExecInv /\ HandInv
    BY BaseInit DEF BaseInv
  <2>2. \A p : ~Subscribed(p, psubs)
    BY DEF Init, Subscribed
  <2>3. \A n \in Node : table[n] = {}
    BY DEF Init
  <2>4. EntryInv /\ WantedInv
    BY <2>3, ParameterConstants DEF Init, EntryInv, WantedInv
  <2>5. FollowedInv /\ EraseInv
    BY <2>2 DEF Init, FollowedInv, EraseInv
  <2> QED BY <2>1, <2>4, <2>5 DEF Init, AgreeInv
<1>2. Inv /\ [Next]_vars => Inv'
  <2> SUFFICES ASSUME Inv, [Next]_vars PROVE Inv'
    OBVIOUS
  <2>1. CASE UNCHANGED <<quietVars, entries, spoiled>>
    <3>1. AgreeInv'
      <4> USE <2>1 DEF quietVars, Subscribed, Kept, Followed
      <4>1. (EntryInv => EntryInv') /\ (EraseInv => EraseInv')
        BY DEF EntryInv, EraseInv
      <4>2. WantedInv => WantedInv'
        BY DEF WantedInv
      <4>3. FollowedInv => FollowedInv'
        BY DEF FollowedInv
      <4> QED BY <4>1, <4>2, <4>3 DEF AgreeInv
    <3> QED BY <3>1, HandStep, TypeStep
  <2> QED BY <2>1, HandStep, TypeStep, Steps, ReadAgrees, ServerAgrees,
             SubscribeAgrees, ListenAgrees, ListenThrowsAgrees,
             UnsubscribeAgrees, Ros1Agrees
<1>3. Inv => TablesAgree
  BY DEF TablesAgree, AgreeInv, WantedInv, FollowedInv, Kept, HandInv
<1> QED BY <1>1, <1>2, <1>3, PTL DEF Spec
=============================================================================
