-------------------------- MODULE Ros1BridgeProofs --------------------------
(***************************************************************************)
(* The tables of Ros1Bridge agree whenever their mutex is free, what stays *)
(* at the master keeps its ids, and the delays of the timer grow within    *)
(* their bounds, for every set of topics, services and clients and every   *)
(* number of changes and failures.                                         *)
(***************************************************************************)
EXTENDS Ros1Bridge, TLAPS

(* In the middle of an update the server has the channels that the bridge  *)
(* has erased already, or not yet advertised.                              *)
ChannelInv ==
    /\ \A i \in Id : channels[i] # None <=>
         \/ i \in advertised
         \/ upc = "remove" /\ i \in gone
         \/ upc = "advertise" /\ i \in fresh
    /\ \A i \in Id \ advertised : subs[i] = {}

ServiceInv ==
    \A i \in Id : services[i] # None <=>
      \/ i \in bservices
      \/ upc = "sremove" /\ i \in gone
      \/ upc = "sadvertise" /\ i \in fresh

(* Ids are given out in order, and a topic or service has one at a time. *)
IdInv ==
    /\ \A i \in Id : channels[i] # None => i <= nextCh
    /\ \A i, j \in Id :
         channels[i] = channels[j] /\ channels[i] # None => i = j
    /\ \A i \in Id : services[i] # None => i <= nextSv
    /\ \A i, j \in Id :
         services[i] = services[j] /\ services[i] # None => i = j

(* What the update erases was not on the list it got, and what has existed *)
(* since it started is on the list, unless it could not be asked for.      *)
ListInv ==
    /\ upc \in {"erase", "remove"} => steady \cap Topic \subseteq latest
    /\ upc = "remove" => \A i \in gone : /\ channels[i] \notin latest
                                         /\ i \notin advertised
    /\ upc \notin {"timer", "state"} /\ enabled /\ ~failed =>
         steady \subseteq system
    /\ upc = "sremove" => \A i \in gone : /\ services[i] \notin system
                                          /\ i \notin bservices

(* With the services capability every update asks for the system state. *)
QueryInv ==
    /\ upc # "timer" /\ enabled => asked
    /\ upc \in {"sremove", "sadd", "sadvertise"} => enabled
    /\ failed => failures > 0

(* The delay is the one of the last shift that was defined. *)
Truncated(ms) == Max({MinMs, Min({ms, MaxMs})})

DelayInv ==
    /\ count = 0 => delay = 0
    /\ count \in 1..(Width - 1) => delay = Truncated(2^count)

IInv ==
    /\ TypeOK /\ ChannelInv /\ ServiceInv /\ IdInv /\ ListInv
    /\ QueryInv /\ GraphNotBlanked /\ DelayInv

tableVars == <<channels, advertised, subs, nextCh, services, bservices,
               nextSv, gone, fresh>>

(* The steps of the update that hold a mutex. *)
Locked == {"remove", "add", "advertise", "sremove", "sadd", "sadvertise"}

-----------------------------------------------------------------------------
(* A leaf is for Zenon unless it names SMT, for arithmetic.                *)
USE Zenon

(* The bounds of Max and Min, on the pairs that Schedule uses. *)
LEMMA PairBounds ==
    ASSUME NEW a \in Int, NEW b \in Int
    PROVE  /\ Max({a, b}) = IF a >= b THEN a ELSE b
           /\ Min({a, b}) = IF a <= b THEN a ELSE b
<1>1. \A x \in {a, b} :
        (\A y \in {a, b} : x >= y) => x = IF a >= b THEN a ELSE b
  BY SMT
<1>2. \E x \in {a, b} : \A y \in {a, b} : x >= y
  BY SMT
<1>3. \A x \in {a, b} :
        (\A y \in {a, b} : x =< y) => x = IF a <= b THEN a ELSE b
  BY SMT
<1>4. \E x \in {a, b} : \A y \in {a, b} : x =< y
  BY SMT
<1>5. /\ Max({a, b}) \in {a, b} /\ \A y \in {a, b} : Max({a, b}) >= y
      /\ Min({a, b}) \in {a, b} /\ \A y \in {a, b} : Min({a, b}) =< y
  BY <1>2, <1>4 DEF Max, Min
<1> QED BY <1>1, <1>3, <1>5

(* The truncated delay is in its bounds and grows with the shift. *)
LEMMA TruncatedBounds ==
    ASSUME NEW m \in Nat, NEW n \in Nat
    PROVE  /\ Truncated(m) \in Nat
           /\ Truncated(m) \in MinMs..Max({MinMs, MaxMs})
           /\ m <= n => Truncated(m) <= Truncated(n)
<1>1. MinMs \in Nat /\ MaxMs \in Nat
  BY Ros1Constants, SMT
<1>2. /\ Min({m, MaxMs}) = IF m <= MaxMs THEN m ELSE MaxMs
      /\ Min({n, MaxMs}) = IF n <= MaxMs THEN n ELSE MaxMs
      /\ Max({MinMs, MaxMs}) = IF MinMs >= MaxMs THEN MinMs ELSE MaxMs
  <2>1. m \in Int /\ n \in Int /\ MinMs \in Int /\ MaxMs \in Int
    BY <1>1, SMT
  <2> QED BY <2>1, PairBounds
<1>3. ASSUME NEW k \in Nat
      PROVE  Max({MinMs, k}) = IF MinMs >= k THEN MinMs ELSE k
  BY <1>1, PairBounds, SMT
<1> QED BY <1>1, <1>2, <1>3, SMT DEF Truncated

(* A shift that is defined is at most twice the one before. *)
LEMMA ScheduleStep ==
    ASSUME TypeOK, DelayInv, Schedule
    PROVE  /\ count' \in 1..Width /\ delay' \in Nat
           /\ delay' \in MinMs..Max({MinMs, MaxMs})
           /\ count' < Width => delay' = Truncated(2^count')
           /\ count' < Width => delay' >= delay
<1>1. Width \in Nat \ {0} /\ count \in 0..Width /\ delay \in Nat
  BY Ros1Constants DEF TypeOK
<1>2. count' = IF count + 1 <= Width THEN count + 1 ELSE Width
  <2>1. count + 1 \in Int /\ Width \in Int
    BY <1>1, SMT
  <2> QED BY <2>1, PairBounds DEF Schedule
<1>3. count' \in 1..Width
  BY <1>1, <1>2, SMT
<1>4. PICK ms \in Shifted(count') : delay' = Truncated(ms)
  BY DEF Schedule, Truncated
<1>5. ms \in Nat /\ (count' < Width => ms = 2^count')
  <2>1. CASE count' < Width
    <3>1. ms = 2^count'
      BY <2>1 DEF Shifted
    <3>2. count' \in 0..Width
      BY <1>1, <1>3, SMT
    <3> QED BY <3>1, <3>2, ShiftDoubles
  <2>2. CASE ~(count' < Width)
    <3>1. ms \in 0..(2^Width - 1)
      BY <2>2 DEF Shifted
    <3> QED BY <2>2, <3>1, SMT
  <2> QED BY <2>1, <2>2
<1>6. delay' \in Nat /\ delay' \in MinMs..Max({MinMs, MaxMs})
  BY <1>4, <1>5, TruncatedBounds
<1>7. ASSUME count' < Width PROVE delay' >= delay
  <2>1. CASE count = 0
    BY <1>1, <1>6, <2>1, SMT DEF DelayInv
  <2>2. CASE count # 0
    <3>1. count \in 1..(Width - 1) /\ count' = count + 1
      BY <1>1, <1>2, <1>7, <2>2, SMT
    <3>2. 2^count \in Nat /\ 2^(count + 1) = 2 * 2^count
      BY <1>1, ShiftDoubles
    <3>3. 2^count <= ms
      BY <1>5, <1>7, <3>1, <3>2, SMT
    <3>4. Truncated(2^count) <= Truncated(ms)
      BY <1>5, <3>2, <3>3, TruncatedBounds
    <3> QED BY <1>4, <3>1, <3>4, <1>6, SMT DEF DelayInv
  <2> QED BY <2>1, <2>2
<1> QED BY <1>3, <1>4, <1>5, <1>6, <1>7

-----------------------------------------------------------------------------
(* The initial state has the invariant. *)
LEMMA InitInv == Init => IInv
<1> SUFFICES ASSUME Init PROVE IInv
  OBVIOUS
<1>1. TypeOK
  <2>1. 0 \in 0..MaxChanges /\ 0 \in 0..MaxFailures /\ 0 \in 0..Width
        /\ 0 \in 0..MaxId /\ 0 \in Nat
    BY Ros1Constants, SMT
  <2> QED BY <2>1 DEF Init, TypeOK
<1>2. ChannelInv /\ ServiceInv /\ IdInv
  <2>1. \A i \in Id : channels[i] = None /\ services[i] = None /\ subs[i] = {}
    BY DEF Init
  <2>2. upc = "timer" /\ advertised = {} /\ bservices = {}
    BY DEF Init
  <2> QED BY <2>1, <2>2 DEF ChannelInv, ServiceInv, IdInv
<1>3. ListInv /\ QueryInv /\ GraphNotBlanked
  BY DEF Init, ListInv, QueryInv, GraphNotBlanked
<1>4. DelayInv
  BY SMT DEF Init, DelayInv
<1> QED BY <1>1, <1>2, <1>3, <1>4 DEF IInv

(* A table from which ids are taken away, and one with new entries. *)
LEMMA WithoutType ==
    ASSUME NEW S, NEW table \in [Id -> S \cup {None}], NEW ids
    PROVE  /\ Without(table, ids) \in [Id -> S \cup {None}]
           /\ \A i \in Id : Without(table, ids)[i] =
                             IF i \in ids THEN None ELSE table[i]
BY DEF Without

(* add_channels and add_services: entries with new ids, greater than all   *)
(* ids so far, for names that have none.                                   *)
Added(old, new, next, last, names) ==
    /\ last \in 0..MaxId /\ (next + 1)..last \subseteq Id
    /\ next <= last
    /\ \A i \in Id : i \notin (next + 1)..last => new[i] = old[i]
    /\ \A i \in (next + 1)..last : new[i] \in names
    /\ \A i, j \in (next + 1)..last : new[i] = new[j] => i = j

(* A numbering of the new names by the next ids adds entries this way. *)
LEMMA BijectionAdds ==
    ASSUME NEW next \in 0..MaxId, NEW last \in next..MaxId, NEW names,
           NEW f \in Bijection((next + 1)..last, names), NEW old, NEW new,
           \A i \in Id :
             new[i] = IF i \in (next + 1)..last THEN f[i] ELSE old[i]
    PROVE  Added(old, new, next, last, names)
<1>1. /\ last \in 0..MaxId /\ next <= last
      /\ (next + 1)..last \subseteq Id
  BY Ros1Constants, SMT DEF Id
<1>2. /\ f \in [(next + 1)..last -> names]
      /\ \A i, j \in (next + 1)..last : f[i] = f[j] => i = j
  BY DEF Bijection, Injection, IsInjective
<1>3. \A i \in (next + 1)..last : new[i] = f[i] /\ f[i] \in names
  BY <1>1, <1>2
<1> QED BY <1>1, <1>2, <1>3 DEF Added

(* The loop of update_advertised_topics over the new topics does so. *)
LEMMA ChannelsAdded ==
    ASSUME TypeOK, TopicsAdd
    PROVE  /\ channels' \in [Id -> Topic \cup {None}]
           /\ fresh' = (nextCh + 1)..nextCh'
           /\ Added(channels, channels', nextCh, nextCh',
                    latest \ {channels[i] : i \in advertised})
<1>1. /\ channels \in [Id -> Topic \cup {None}] /\ nextCh \in 0..MaxId
      /\ latest \ {channels[i] : i \in advertised} \in SUBSET Topic
  BY DEF TypeOK
<1>2. PICK last \in nextCh..MaxId :
        \E new \in Bijection((nextCh + 1)..last,
                             latest \ {channels[i] : i \in advertised}) :
           /\ nextCh' = last
           /\ fresh' = (nextCh + 1)..last
           /\ channels' = [i \in Id |->
                             IF i \in fresh' THEN new[i] ELSE channels[i]]
  BY DEF TopicsAdd
<1>3. PICK new \in Bijection((nextCh + 1)..last,
                             latest \ {channels[i] : i \in advertised}) :
           channels' = [i \in Id |->
              IF i \in (nextCh + 1)..last THEN new[i] ELSE channels[i]]
  BY <1>2
<1>4. \A i \in Id : channels'[i] =
        IF i \in (nextCh + 1)..last THEN new[i] ELSE channels[i]
  BY <1>3
<1>5. Added(channels, channels', nextCh, last,
            latest \ {channels[i] : i \in advertised})
  BY <1>1, <1>4, BijectionAdds
<1>6. \A i \in Id : channels'[i] \in Topic \cup {None}
  BY <1>1, <1>5 DEF Added
<1>7. channels' \in [Id -> Topic \cup {None}]
  BY <1>3, <1>6
<1> QED BY <1>2, <1>5, <1>7

(* So does the loop of update_advertised_services, with the services it    *)
(* found the type of.                                                      *)
LEMMA ServicesAdded ==
    ASSUME TypeOK, ServicesAdd
    PROVE  /\ services' \in [Id -> Service \cup {None}]
           /\ fresh' = (nextSv + 1)..nextSv'
           /\ Added(services, services', nextSv, nextSv', ServicesToAdd)
<1>1. services \in [Id -> Service \cup {None}] /\ nextSv \in 0..MaxId
  BY DEF TypeOK
<1>2. PICK found \in SUBSET ServicesToAdd, last \in nextSv..MaxId :
        \E new \in Bijection((nextSv + 1)..last, found) :
           /\ nextSv' = last
           /\ fresh' = (nextSv + 1)..last
           /\ services' = [i \in Id |->
                             IF i \in fresh' THEN new[i] ELSE services[i]]
  BY DEF ServicesAdd
<1>3. PICK new \in Bijection((nextSv + 1)..last, found) :
           services' = [i \in Id |->
              IF i \in (nextSv + 1)..last THEN new[i] ELSE services[i]]
  BY <1>2
<1>4. found \in SUBSET Service
  BY DEF ServicesToAdd
<1>5. \A i \in Id : services'[i] =
        IF i \in (nextSv + 1)..last THEN new[i] ELSE services[i]
  BY <1>3
<1>6. Added(services, services', nextSv, last, found)
  BY <1>1, <1>5, BijectionAdds
<1>7. \A i \in Id : services'[i] \in Service \cup {None}
  BY <1>1, <1>4, <1>6 DEF Added
<1>8. services' \in [Id -> Service \cup {None}]
  BY <1>3, <1>7
<1> QED BY <1>2, <1>6, <1>8 DEF Added

-----------------------------------------------------------------------------
(* The tables change only with their mutex held. *)
LEMMA Steps ==
    ASSUME [Next]_vars
    PROVE  \/ TopicsErase \/ TopicsRemove \/ TopicsAdd \/ TopicsAdvertise
           \/ ServicesErase \/ ServicesRemove
           \/ ServicesAdd \/ ServicesAdvertise
           \/ \E c \in Conn, i \in Id : Subscribe(c, i) \/ Unsubscribe(c, i)
           \/ /\ UNCHANGED tableVars
              /\ upc' = upc \/ (upc \notin Locked /\ upc' \notin Locked)
<1> USE DEF tableVars, localVars, channelVars, serviceVars
<1>1. ASSUME NEW n \in Topic \cup Service, Toggle(n)
      PROVE  UNCHANGED tableVars /\ upc' = upc
  BY <1>1 DEF Toggle
<1>2. CASE UpdateStart \/ QueryState \/ QueryTopics
  <2>1. UNCHANGED tableVars
    BY <1>2 DEF UpdateStart, QueryState, QueryTopics
  <2>2. upc \notin Locked /\ upc' \notin Locked
    BY <1>2 DEF UpdateStart, QueryState, QueryTopics, Locked
  <2> QED BY <2>1, <2>2
<1>3. CASE ServicesSkip \/ UpdateGraph \/ Schedule
  <2>1. UNCHANGED tableVars
    BY <1>3 DEF ServicesSkip, UpdateGraph, Schedule
  <2>2. upc \notin Locked /\ upc' \notin Locked
    BY <1>3 DEF ServicesSkip, UpdateGraph, Schedule, Locked
  <2> QED BY <2>1, <2>2
<1>4. ASSUME \/ \E b \in BOOLEAN : Watch(b)
             \/ \E i \in Id : CallService(i)
             \/ Request \/ CallReturns
      PROVE  UNCHANGED tableVars /\ upc' = upc
  BY <1>4 DEF Watch, CallService, Request, CallReturns
<1>5. CASE UNCHANGED vars
  BY <1>5 DEF vars
<1> HIDE DEF tableVars
<1> QED BY <1>1, <1>2, <1>3, <1>4, <1>5 DEF Next, Update, Handler

(* The channels of the server and the tables of the bridge change          *)
(* together, between TopicsErase and TopicsAdvertise.                      *)
LEMMA ChannelStep ==
    ASSUME TypeOK, ChannelInv, ListInv, [Next]_vars
    PROVE  ChannelInv'
<1>0. /\ channels \in [Id -> Topic \cup {None}] /\ None \notin Topic
      /\ advertised \subseteq Id /\ subs \in [Id -> SUBSET Conn]
      /\ nextCh \in 0..MaxId /\ latest \subseteq Topic
  BY Ros1Constants DEF TypeOK
<1>1. CASE TopicsErase
  <2>1. /\ upc = "erase" /\ upc' = "remove" /\ channels' = channels
        /\ gone' \subseteq advertised /\ advertised' = advertised \ gone'
        /\ subs' = [i \in Id |-> IF i \in gone' THEN {} ELSE subs[i]]
    BY <1>1 DEF TopicsErase
  <2>2. \A i \in Id : channels[i] # None <=> i \in advertised' \/ i \in gone'
    BY <2>1 DEF ChannelInv
  <2>3. \A i \in Id \ advertised' : subs'[i] = {}
    BY <2>1 DEF ChannelInv
  <2> QED BY <2>1, <2>2, <2>3 DEF ChannelInv
<1>2. CASE TopicsRemove
  <2>1. /\ upc = "remove" /\ upc' = "add"
        /\ channels' = Without(channels, gone)
        /\ advertised' = advertised /\ subs' = subs
    BY <1>2 DEF TopicsRemove
  <2>2. \A i \in Id : channels'[i] = IF i \in gone THEN None ELSE channels[i]
    BY <2>1 DEF Without
  <2>3. \A i \in gone : i \notin advertised
    BY <2>1 DEF ListInv
  <2>4. \A i \in Id : channels'[i] # None <=> i \in advertised'
    BY <2>1, <2>2, <2>3 DEF ChannelInv
  <2> QED BY <2>1, <2>4 DEF ChannelInv
<1>3. CASE TopicsAdd
  <2>1. /\ upc = "add" /\ upc' = "advertise"
        /\ advertised' = advertised /\ subs' = subs
    BY <1>3 DEF TopicsAdd
  <2>2. /\ fresh' = (nextCh + 1)..nextCh'
        /\ \A i \in Id : i \notin fresh' => channels'[i] = channels[i]
        /\ \A i \in fresh' : channels'[i] \in Topic
    BY <1>0, <1>3, ChannelsAdded DEF Added
  <2>3. \A i \in Id : channels'[i] # None <=> i \in advertised' \/ i \in fresh'
    BY <1>0, <2>1, <2>2 DEF ChannelInv
  <2> QED BY <2>1, <2>3 DEF ChannelInv
<1>4. CASE TopicsAdvertise
  <2>1. /\ upc = "advertise" /\ upc' = "services" /\ channels' = channels
        /\ advertised' = advertised \cup fresh /\ subs' = subs
    BY <1>4 DEF TopicsAdvertise
  <2> QED BY <2>1 DEF ChannelInv
<1>5. CASE \/ ServicesErase \/ ServicesRemove
           \/ ServicesAdd \/ ServicesAdvertise
  <2>1. /\ UNCHANGED <<channels, advertised, subs>>
        /\ upc \notin {"remove", "advertise"}
        /\ upc' \notin {"remove", "advertise"}
    BY <1>5 DEF ServicesErase, ServicesRemove, ServicesAdd,
                ServicesAdvertise, channelVars
  <2> QED BY <2>1 DEF ChannelInv
<1>6. ASSUME NEW c \in Conn, NEW i \in Id, Subscribe(c, i) \/ Unsubscribe(c, i)
      PROVE  ChannelInv'
  <2>1. /\ UNCHANGED <<channels, advertised, upc, gone, fresh>>
        /\ i \in advertised
        /\ subs' \in {[subs EXCEPT ![i] = @ \cup {c}],
                      [subs EXCEPT ![i] = @ \ {c}]}
    BY <1>6 DEF Subscribe, Unsubscribe, channelVars, localVars
  <2>2. \A j \in Id \ advertised : subs'[j] = subs[j]
    BY <1>0, <2>1
  <2> QED BY <2>1, <2>2 DEF ChannelInv
<1>7. CASE /\ UNCHANGED tableVars
           /\ upc' = upc \/ (upc \notin Locked /\ upc' \notin Locked)
  BY <1>7 DEF tableVars, Locked, ChannelInv
<1> QED BY <1>1, <1>2, <1>3, <1>4, <1>5, <1>6, <1>7, Steps

(* The same for services. *)
LEMMA ServiceStep ==
    ASSUME TypeOK, ServiceInv, ListInv, [Next]_vars
    PROVE  ServiceInv'
<1>0. /\ services \in [Id -> Service \cup {None}] /\ None \notin Service
      /\ bservices \subseteq Id /\ nextSv \in 0..MaxId
  BY Ros1Constants DEF TypeOK
<1>1. CASE ServicesErase
  <2>1. /\ upc = "services" /\ upc' = "sremove" /\ services' = services
        /\ gone' \subseteq bservices /\ bservices' = bservices \ gone'
    BY <1>1 DEF ServicesErase
  <2> QED BY <2>1 DEF ServiceInv
<1>2. CASE ServicesRemove
  <2>1. /\ upc = "sremove" /\ upc' = "sadd" /\ bservices' = bservices
        /\ services' = Without(services, gone)
    BY <1>2 DEF ServicesRemove
  <2>2. \A i \in Id : services'[i] = IF i \in gone THEN None ELSE services[i]
    BY <2>1 DEF Without
  <2>3. \A i \in gone : i \notin bservices
    BY <2>1 DEF ListInv
  <2>4. \A i \in Id : services'[i] # None <=> i \in bservices'
    BY <2>1, <2>2, <2>3 DEF ServiceInv
  <2> QED BY <2>1, <2>4 DEF ServiceInv
<1>3. CASE ServicesAdd
  <2>1. upc = "sadd" /\ upc' = "sadvertise" /\ bservices' = bservices
    BY <1>3 DEF ServicesAdd
  <2>2. /\ \A i \in Id : i \notin fresh' => services'[i] = services[i]
        /\ \A i \in fresh' : services'[i] \in Service
    BY <1>0, <1>3, ServicesAdded DEF Added, ServicesToAdd
  <2>3. \A i \in Id : services'[i] # None <=> i \in bservices' \/ i \in fresh'
    BY <1>0, <2>1, <2>2 DEF ServiceInv
  <2> QED BY <2>1, <2>3 DEF ServiceInv
<1>4. CASE ServicesAdvertise
  <2>1. /\ upc = "sadvertise" /\ upc' = "graph" /\ services' = services
        /\ bservices' = bservices \cup fresh
    BY <1>4 DEF ServicesAdvertise
  <2> QED BY <2>1 DEF ServiceInv
<1>5. CASE TopicsErase \/ TopicsRemove \/ TopicsAdd \/ TopicsAdvertise
  <2>1. /\ UNCHANGED <<services, bservices>>
        /\ upc \notin {"sremove", "sadvertise"}
        /\ upc' \notin {"sremove", "sadvertise"}
    BY <1>5 DEF TopicsErase, TopicsRemove, TopicsAdd, TopicsAdvertise,
                serviceVars
  <2> QED BY <2>1 DEF ServiceInv
<1>6. ASSUME NEW c \in Conn, NEW i \in Id, Subscribe(c, i) \/ Unsubscribe(c, i)
      PROVE  ServiceInv'
  <2>1. UNCHANGED <<services, bservices, upc, gone, fresh>>
    BY <1>6 DEF Subscribe, Unsubscribe, serviceVars, localVars
  <2> QED BY <2>1 DEF ServiceInv
<1>7. CASE /\ UNCHANGED tableVars
           /\ upc' = upc \/ (upc \notin Locked /\ upc' \notin Locked)
  BY <1>7 DEF tableVars, Locked, ServiceInv
<1> QED BY <1>1, <1>2, <1>3, <1>4, <1>5, <1>6, <1>7, Steps

(* Entries with new ids for new names keep ids and names in order. *)
Ordered(table, next) ==
    /\ \A i \in Id : table[i] # None => i <= next
    /\ \A i, j \in Id : table[i] = table[j] /\ table[i] # None => i = j

(* Adding names the table lacks, at ids past the last, keeps it in order. *)
LEMMA AddedOrdered ==
    ASSUME NEW next \in 0..MaxId, NEW last, NEW names, NEW old, NEW new,
           Ordered(old, next), Added(old, new, next, last, names),
           \A i \in Id : old[i] \notin names
    PROVE  Ordered(new, last)
<1>1. MaxId \in Nat
  BY Ros1Constants
<1>2. ASSUME NEW i \in Id, new[i] # None PROVE i <= last
  <2>1. CASE i \in (next + 1)..last
    BY <2>1, SMT
  <2>2. CASE i \notin (next + 1)..last
    <3>1. i <= next /\ next <= last /\ last \in 0..MaxId
      BY <1>2, <2>2 DEF Ordered, Added
    <3> QED BY <1>1, <3>1, SMT DEF Id
  <2> QED BY <2>1, <2>2
<1>3. ASSUME NEW i \in Id, NEW j \in Id, new[i] = new[j], new[i] # None
      PROVE  i = j
  <2>1. CASE i \in (next + 1)..last /\ j \in (next + 1)..last
    BY <1>3, <2>1 DEF Added
  <2>2. CASE i \in (next + 1)..last /\ j \notin (next + 1)..last
    <3>1. new[i] \in names /\ new[j] = old[j]
      BY <2>2 DEF Added
    <3> QED BY <1>3, <3>1
  <2>3. CASE i \notin (next + 1)..last /\ j \in (next + 1)..last
    <3>1. new[j] \in names /\ new[i] = old[i]
      BY <2>3 DEF Added
    <3> QED BY <1>3, <3>1
  <2>4. CASE i \notin (next + 1)..last /\ j \notin (next + 1)..last
    <3>1. new[j] = old[j] /\ new[i] = old[i]
      BY <2>4 DEF Added
    <3> QED BY <1>3, <3>1 DEF Ordered
  <2> QED BY <2>1, <2>2, <2>3, <2>4
<1> QED BY <1>2, <1>3 DEF Ordered

(* Ids are given out in order, and a name has one id at a time. *)
LEMMA IdStep ==
    ASSUME TypeOK, ChannelInv, ServiceInv, IdInv, [Next]_vars
    PROVE  IdInv'
<1>0. /\ IdInv <=> Ordered(channels, nextCh) /\ Ordered(services, nextSv)
      /\ IdInv' <=> Ordered(channels', nextCh') /\ Ordered(services', nextSv')
  BY DEF IdInv, Ordered
<1>1. CASE TopicsAdd
  <2>1. /\ upc = "add" /\ UNCHANGED <<services, nextSv>>
        /\ nextCh \in 0..MaxId /\ latest \subseteq Topic /\ None \notin Topic
    BY <1>1, Ros1Constants DEF TopicsAdd, serviceVars, TypeOK
  <2>2. \A i \in Id : channels[i] \notin
                        latest \ {channels[j] : j \in advertised}
    BY <2>1 DEF ChannelInv
  <2>3. Added(channels, channels', nextCh, nextCh',
              latest \ {channels[i] : i \in advertised})
    BY <1>1, ChannelsAdded
  <2>4. Ordered(channels', nextCh')
    BY <1>0, <2>1, <2>2, <2>3, AddedOrdered
  <2> QED BY <1>0, <2>1, <2>4
<1>2. CASE ServicesAdd
  <2>1. /\ upc = "sadd" /\ UNCHANGED <<channels, nextCh>>
        /\ nextSv \in 0..MaxId /\ None \notin Service
    BY <1>2, Ros1Constants DEF ServicesAdd, channelVars, TypeOK
  <2>2. \A i \in Id : services[i] \notin ServicesToAdd
    BY <2>1 DEF ServiceInv, ServicesToAdd
  <2>3. Added(services, services', nextSv, nextSv', ServicesToAdd)
    BY <1>2, ServicesAdded
  <2>4. Ordered(services', nextSv')
    BY <1>0, <2>1, <2>2, <2>3, AddedOrdered
  <2> QED BY <1>0, <2>1, <2>4
<1>3. CASE TopicsRemove \/ ServicesRemove
  <2>1. /\ UNCHANGED <<nextCh, nextSv>>
        /\ \A i \in Id : channels'[i] \in {None, channels[i]}
        /\ \A i \in Id : services'[i] \in {None, services[i]}
    BY <1>3 DEF TopicsRemove, ServicesRemove, Without, channelVars, serviceVars
  <2> QED BY <2>1 DEF IdInv
<1>4. CASE TopicsErase \/ TopicsAdvertise \/ ServicesErase \/ ServicesAdvertise
  <2>1. UNCHANGED <<channels, nextCh, services, nextSv>>
    BY <1>4 DEF TopicsErase, TopicsAdvertise, ServicesErase,
                ServicesAdvertise, channelVars, serviceVars
  <2> QED BY <2>1 DEF IdInv
<1>5. ASSUME NEW c \in Conn, NEW i \in Id, Subscribe(c, i) \/ Unsubscribe(c, i)
      PROVE  IdInv'
  <2>1. UNCHANGED <<channels, nextCh, services, nextSv>>
    BY <1>5 DEF Subscribe, Unsubscribe, channelVars, serviceVars
  <2> QED BY <2>1 DEF IdInv
<1>6. CASE UNCHANGED tableVars
  BY <1>6 DEF tableVars, IdInv
<1> QED BY <1>1, <1>2, <1>3, <1>4, <1>5, <1>6, Steps

queryVars == <<enabled, asked, failed, failures, steady, system, blank>>

(* What the update knows of the master changes at the master and when it   *)
(* asks.                                                                   *)
LEMMA QuerySteps ==
    ASSUME [Next]_vars
    PROVE  \/ \E n \in Topic \cup Service : Toggle(n)
           \/ UpdateStart \/ QueryState \/ QueryTopics
           \/ TopicsErase \/ ServicesErase
           \/ ServicesAdd \/ UpdateGraph \/ Schedule
           \/ /\ UNCHANGED queryVars
              /\ upc \notin {"timer", "state"}
              /\ upc' \in {"add", "advertise", "services", "sadd", "graph"}
              /\ upc' = "sadd" => upc = "sremove"
           \/ UNCHANGED <<queryVars, upc, latest, gone, channels, advertised,
                          services, bservices>>
<1> USE DEF queryVars, masterVars, localVars, channelVars, serviceVars
<1> USE DEF graphVars
<1>1. CASE TopicsRemove \/ TopicsAdd \/ TopicsAdvertise \/ ServicesSkip
  BY <1>1 DEF TopicsRemove, TopicsAdd, TopicsAdvertise, ServicesSkip
<1>2. CASE ServicesRemove \/ ServicesAdvertise
  BY <1>2 DEF ServicesRemove, ServicesAdvertise
<1>3. ASSUME NEW c \in Conn, NEW i \in Id, Subscribe(c, i) \/ Unsubscribe(c, i)
      PROVE  UNCHANGED <<queryVars, upc, latest, gone, channels, advertised,
                         services, bservices>>
  BY <1>3 DEF Subscribe, Unsubscribe
<1>4. CASE \/ \E b \in BOOLEAN : Watch(b)
           \/ \E i \in Id : CallService(i)
           \/ Request \/ CallReturns
  BY <1>4 DEF Watch, CallService, Request, CallReturns
<1>5. CASE UNCHANGED vars
  BY <1>5 DEF vars
<1> HIDE DEF queryVars
<1> QED BY <1>1, <1>2, <1>3, <1>4, <1>5 DEF Next, Update, Handler

(* The lists have what has been at the master since the update started,    *)
(* and what is erased is not on them.                                      *)
LEMMA ListStep ==
    ASSUME TypeOK, ListInv, QueryInv, [Next]_vars
    PROVE  ListInv'
<1>0. steady \subseteq master
  BY DEF TypeOK
<1>1. ASSUME NEW n \in Topic \cup Service, Toggle(n) PROVE ListInv'
  <2>1. /\ steady' = steady \ {n}
        /\ UNCHANGED <<upc, latest, gone, channels, advertised, enabled,
                       failed, system, services, bservices>>
    BY <1>1 DEF Toggle, localVars, channelVars, serviceVars
  <2> QED BY <2>1 DEF ListInv
<1>2. CASE UpdateStart
  <2>1. upc' = "state"
    BY <1>2 DEF UpdateStart
  <2> QED BY <2>1 DEF ListInv
<1>3. CASE QueryState
  <2>1. upc = "state" /\ upc' = "topics" /\ UNCHANGED <<enabled, steady>>
    BY <1>3 DEF QueryState, masterVars
  <2>2. enabled /\ ~failed' => system' = master
    BY <1>3, <2>1 DEF QueryState, QueryInv
  <2> QED BY <1>0, <2>1, <2>2 DEF ListInv
<1>4. CASE QueryTopics
  <2>1. /\ upc = "topics" /\ upc' \in {"erase", "services"}
        /\ UNCHANGED <<enabled, steady, failed, system>>
        /\ upc' = "erase" => latest' = master \cap Topic
    BY <1>4 DEF QueryTopics, masterVars
  <2> QED BY <1>0, <2>1 DEF ListInv
<1>5. CASE TopicsErase
  <2>1. /\ upc = "erase" /\ upc' = "remove"
        /\ UNCHANGED <<enabled, steady, failed, system, latest, channels>>
        /\ gone' = {i \in advertised : channels[i] \notin latest}
        /\ advertised' = advertised \ gone'
    BY <1>5 DEF TopicsErase, masterVars
  <2> QED BY <2>1 DEF ListInv
<1>6. CASE ServicesErase
  <2>1. /\ upc = "services" /\ upc' = "sremove"
        /\ UNCHANGED <<enabled, steady, failed, system, services>>
        /\ gone' = {i \in bservices : services[i] \notin system}
        /\ bservices' = bservices \ gone'
    BY <1>6 DEF ServicesErase, masterVars
  <2> QED BY <2>1 DEF ListInv
<1>7. CASE ServicesAdd \/ UpdateGraph
  <2>1. /\ upc \in {"sadd", "graph"} /\ upc' \in {"sadvertise", "schedule", "thrown"}
        /\ UNCHANGED <<enabled, steady, failed, system>>
    BY <1>7 DEF ServicesAdd, UpdateGraph, masterVars, localVars
  <2> QED BY <2>1 DEF ListInv
<1>8. CASE Schedule
  <2>1. upc' = "timer"
    BY <1>8 DEF Schedule
  <2> QED BY <2>1 DEF ListInv
<1>9. CASE /\ UNCHANGED queryVars
           /\ upc \notin {"timer", "state"}
           /\ upc' \in {"add", "advertise", "services", "sadd", "graph"}
  BY <1>9 DEF queryVars, ListInv
<1>10. CASE UNCHANGED <<queryVars, upc, latest, gone, channels, advertised,
                        services, bservices>>
  BY <1>10 DEF queryVars, ListInv
<1> QED BY <1>1, <1>2, <1>3, <1>4, <1>5, <1>6, <1>7, <1>8, <1>9, <1>10,
           QuerySteps

(* A graph that was not asked for is stored only without the services      *)
(* capability or after a failure.                                          *)
LEMMA QueryStep ==
    ASSUME TypeOK, QueryInv, GraphNotBlanked, [Next]_vars
    PROVE  QueryInv' /\ GraphNotBlanked'
<1>0. failures \in Nat
  BY Ros1Constants, SMT DEF TypeOK
<1>1. ASSUME NEW n \in Topic \cup Service, Toggle(n)
      PROVE  QueryInv' /\ GraphNotBlanked'
  <2>1. UNCHANGED <<upc, enabled, asked, failed, failures, blank>>
    BY <1>1 DEF Toggle, localVars, graphVars
  <2> QED BY <2>1 DEF QueryInv, GraphNotBlanked
<1>2. CASE UpdateStart
  <2>1. /\ upc' = "state" /\ asked' = (enabled \/ watching)
        /\ UNCHANGED <<enabled, failed, failures, blank>>
    BY <1>2 DEF UpdateStart, graphVars
  <2> QED BY <2>1 DEF QueryInv, GraphNotBlanked
<1>3. Fails => failures' > 0
  BY <1>0, SMT DEF Fails
<1>4. CASE QueryState
  <2>1. /\ upc = "state" /\ upc' = "topics"
        /\ UNCHANGED <<enabled, asked, blank>>
        /\ failures' = failures \/ Fails
        /\ failed' => Fails
    BY <1>4 DEF QueryState, graphVars
  <2> QED BY <1>3, <2>1 DEF QueryInv, GraphNotBlanked
<1>5. CASE QueryTopics
  <2>1. /\ upc = "topics" /\ upc' \in {"erase", "services"}
        /\ UNCHANGED <<enabled, asked, failed, blank>>
        /\ failures' = failures \/ Fails
    BY <1>5 DEF QueryTopics, graphVars
  <2> QED BY <1>3, <2>1 DEF QueryInv, GraphNotBlanked
<1>6. CASE TopicsErase \/ ServicesErase
  <2>1. /\ upc \in {"erase", "services"} /\ upc' \in {"remove", "sremove"}
        /\ upc' = "sremove" => enabled
        /\ UNCHANGED <<enabled, asked, failed, failures, blank>>
    BY <1>6 DEF TopicsErase, ServicesErase, graphVars
  <2> QED BY <2>1 DEF QueryInv, GraphNotBlanked
<1>7. CASE ServicesAdd
  <2>1. /\ upc = "sadd" /\ upc' = "sadvertise"
        /\ UNCHANGED <<enabled, asked, failed, blank>>
        /\ failures' = failures \/ Fails
    BY <1>7 DEF ServicesAdd, graphVars
  <2> QED BY <1>3, <2>1 DEF QueryInv, GraphNotBlanked
<1>8. CASE UpdateGraph
  <2>1. /\ upc = "graph" /\ upc' \in {"schedule", "thrown"}
        /\ UNCHANGED <<enabled, asked, failed, failures>>
    BY <1>8 DEF UpdateGraph, localVars
  <2>2. blank' = blank \/ blank' = (~asked \/ failed)
    BY <1>8 DEF UpdateGraph, graphVars
  <2>3. blank' => blank \/ ~asked \/ failed
    <3>1. CASE blank' = blank
      BY <3>1
    <3>2. CASE blank' = (~asked \/ failed)
      BY <3>2
    <3> QED BY <2>2, <3>1, <3>2
  <2> QED BY <2>1, <2>3 DEF QueryInv, GraphNotBlanked
<1>9. CASE Schedule
  <2>1. /\ upc' = "timer" /\ failed' = FALSE
        /\ UNCHANGED <<enabled, failures, blank>>
    BY <1>9 DEF Schedule, graphVars
  <2> QED BY <2>1 DEF QueryInv, GraphNotBlanked
<1>10. CASE /\ UNCHANGED queryVars
            /\ upc \notin {"timer", "state"}
            /\ upc' \in {"add", "advertise", "services", "sadd", "graph"}
            /\ upc' = "sadd" => upc = "sremove"
  BY <1>10 DEF queryVars, QueryInv, GraphNotBlanked
<1>11. CASE UNCHANGED <<queryVars, upc>>
  BY <1>11 DEF queryVars, QueryInv, GraphNotBlanked
<1> QED BY <1>1, <1>2, <1>4, <1>5, <1>6, <1>7, <1>8, <1>9, <1>10, <1>11,
           QuerySteps

-----------------------------------------------------------------------------
(* Every step keeps the types. *)
LEMMA TypeStep ==
    ASSUME TypeOK, DelayInv, [Next]_vars
    PROVE  TypeOK'
<1> USE DEF TypeOK, masterVars, localVars, channelVars, serviceVars
<1> USE DEF graphVars, timerVars, handlerVars
<1>0. Fails => failures' \in 0..MaxFailures
  BY Ros1Constants, SMT DEF Fails
<1>1. ASSUME NEW n \in Topic \cup Service, Toggle(n) PROVE TypeOK'
  <2>1. changes' \in 0..MaxChanges
    BY <1>1, Ros1Constants, SMT DEF Toggle
  <2>2. master' \subseteq Topic \cup Service /\ steady' \subseteq master'
    BY <1>1 DEF Toggle
  <2>3. UNCHANGED <<failures, enabled, watching, timerVars, upc, localVars,
                    channelVars, subs, serviceVars, graphVars, handlerVars>>
    BY <1>1 DEF Toggle
  <2> QED BY <2>1, <2>2, <2>3, SMT
<1>2. CASE UpdateStart
  <2>1. asked' \in BOOLEAN
    BY <1>2 DEF UpdateStart
  <2> QED BY <1>2, <2>1 DEF UpdateStart
<1>3. CASE QueryState
  <2>1. failures' \in 0..MaxFailures /\ failed' \in BOOLEAN
    BY <1>0, <1>3 DEF QueryState
  <2>2. system' \subseteq Topic \cup Service
    BY <1>3 DEF QueryState
  <2> QED BY <1>3, <2>1, <2>2 DEF QueryState
<1>4. CASE QueryTopics
  <2>1. failures' \in 0..MaxFailures /\ upc' \in {"erase", "services"}
    BY <1>0, <1>4 DEF QueryTopics
  <2>2. latest' \subseteq Topic
    BY <1>4 DEF QueryTopics
  <2> QED BY ZenonT(40), <1>4, <2>1, <2>2 DEF QueryTopics
<1>5. CASE TopicsErase
  <2>1. /\ gone' \subseteq Id /\ advertised' \subseteq Id
        /\ subs' \in [Id -> SUBSET Conn]
    BY <1>5 DEF TopicsErase
  <2> QED BY <1>5, <2>1 DEF TopicsErase
<1>6. CASE TopicsRemove
  <2>1. channels' \in [Id -> Topic \cup {None}]
    BY <1>6, WithoutType DEF TopicsRemove
  <2> QED BY <1>6, <2>1 DEF TopicsRemove
<1>7. CASE TopicsAdd
  <2>1. /\ channels' \in [Id -> Topic \cup {None}] /\ fresh' \subseteq Id
        /\ nextCh' \in 0..MaxId
    BY <1>7, ChannelsAdded DEF Added
  <2> QED BY <1>7, <2>1 DEF TopicsAdd
<1>8. CASE TopicsAdvertise \/ ServicesSkip
  BY ZenonT(40), <1>8 DEF TopicsAdvertise, ServicesSkip
<1>9. CASE ServicesErase
  <2>1. gone' \subseteq Id /\ bservices' \subseteq Id
    BY <1>9 DEF ServicesErase
  <2> QED BY <1>9, <2>1 DEF ServicesErase
<1>10. CASE ServicesRemove
  <2>1. services' \in [Id -> Service \cup {None}]
    BY <1>10, WithoutType DEF ServicesRemove
  <2> QED BY <1>10, <2>1 DEF ServicesRemove
<1>11. CASE ServicesAdd
  <2>1. /\ services' \in [Id -> Service \cup {None}] /\ fresh' \subseteq Id
        /\ nextSv' \in 0..MaxId
    BY <1>11, ServicesAdded DEF Added
  <2>2. failures' \in 0..MaxFailures
    BY <1>0, <1>11 DEF ServicesAdd
  <2> QED BY <1>11, <2>1, <2>2 DEF ServicesAdd
<1>12. CASE ServicesAdvertise
  BY <1>12 DEF ServicesAdvertise
<1>13. CASE UpdateGraph
  <2>1. graph' \subseteq Topic \cup Service /\ blank' \in BOOLEAN
    BY <1>13 DEF UpdateGraph
  <2> QED BY <1>13, <2>1 DEF UpdateGraph
<1>14. CASE Schedule
  <2>1. count' \in 0..Width /\ delay' \in Nat
    <3>1. count' \in 1..Width /\ delay' \in Nat
      BY <1>14, ScheduleStep
    <3> QED BY <3>1, SMT
  <2> QED BY <1>14, <2>1 DEF Schedule
<1>15. ASSUME NEW c \in Conn, NEW i \in Id,
              Subscribe(c, i) \/ Unsubscribe(c, i)
       PROVE  TypeOK'
  <2>1. subs' \in [Id -> SUBSET Conn]
    <3>1. subs' \in {[subs EXCEPT ![i] = @ \cup {c}],
                     [subs EXCEPT ![i] = @ \ {c}]}
      BY <1>15 DEF Subscribe, Unsubscribe
    <3>2. subs \in [Id -> SUBSET Conn]
      OBVIOUS
    <3> HIDE DEF TypeOK
    <3> QED BY <3>1, <3>2, SMT
  <2>2. UNCHANGED <<masterVars, failures, enabled, watching, timerVars, upc,
                    localVars, channelVars, serviceVars, graphVars,
                    handlerVars>>
    BY <1>15 DEF Subscribe, Unsubscribe
  <2> QED BY <2>1, <2>2, SMT
<1>16. CASE \/ \E b \in BOOLEAN : Watch(b)
            \/ \E i \in Id : CallService(i)
            \/ Request \/ CallReturns
  <2>1. UNCHANGED <<masterVars, failures, enabled, timerVars, upc, localVars,
                    channelVars, subs, serviceVars, graphVars>>
    BY <1>16 DEF Watch, CallService, Request, CallReturns
  <2>2. watching' \in BOOLEAN
    BY <1>16 DEF Watch, CallService, Request, CallReturns
  <2>3. hpc' \in {"idle", "request", "calling"} /\ hi' \in Id \cup {0}
    BY <1>16 DEF Watch, CallService, Request, CallReturns
  <2> QED BY <2>1, <2>2, <2>3
<1>17. CASE UNCHANGED vars
  BY <1>17, SMT DEF vars
<1> HIDE DEF TypeOK
<1> QED BY <1>1, <1>2, <1>3, <1>4, <1>5, <1>6, <1>7, <1>8, <1>9, <1>10, <1>11,
           <1>12, <1>13, <1>14, <1>15, <1>16, <1>17 DEF Next, Update, Handler

(* Only Schedule changes the delay. *)
LEMMA TimerSteps ==
    ASSUME [Next]_vars, ~Schedule
    PROVE  UNCHANGED timerVars /\ ~(upc = "schedule" /\ upc' = "timer")
<1> USE DEF timerVars
<1>1. ASSUME NEW n \in Topic \cup Service, Toggle(n)
      PROVE  UNCHANGED timerVars /\ upc' = upc
  BY <1>1 DEF Toggle
<1>2. ASSUME Update
      PROVE  UNCHANGED timerVars /\ upc' # "timer"
  <2>1. CASE UpdateStart \/ QueryState \/ QueryTopics
    BY <2>1 DEF UpdateStart, QueryState, QueryTopics
  <2>2. CASE TopicsErase \/ TopicsRemove \/ TopicsAdd \/ TopicsAdvertise
    BY <2>2 DEF TopicsErase, TopicsRemove, TopicsAdd, TopicsAdvertise
  <2>3. CASE \/ ServicesErase \/ ServicesRemove
             \/ ServicesAdd \/ ServicesAdvertise
    BY <2>3 DEF ServicesErase, ServicesRemove, ServicesAdd, ServicesAdvertise
  <2>4. CASE ServicesSkip \/ UpdateGraph
    BY <2>4 DEF ServicesSkip, UpdateGraph
  <2> QED BY <1>2, <2>1, <2>2, <2>3, <2>4 DEF Update
<1>3. ASSUME Handler PROVE UNCHANGED timerVars /\ upc' = upc
  BY <1>3 DEF Handler, Subscribe, Unsubscribe, Watch, CallService, Request,
              CallReturns
<1>4. CASE UNCHANGED vars
  BY <1>4 DEF vars
<1> QED BY <1>1, <1>2, <1>3, <1>4 DEF Next

(* Every step keeps the delay equal to the truncated power of two that     *)
(* update_count_ calls for, as long as the shift is defined.               *)
LEMMA DelayStep ==
    ASSUME TypeOK, DelayInv, [Next]_vars
    PROVE  DelayInv'
<1>1. CASE Schedule
  <2>1. count' \in 1..Width /\ (count' < Width => delay' = Truncated(2^count'))
    BY <1>1, ScheduleStep
  <2>2. count' # 0 /\ (count' \in 1..(Width - 1) => count' < Width)
    BY <2>1, Ros1Constants, SMT
  <2> QED BY <2>1, <2>2 DEF DelayInv
<1>2. CASE ~Schedule
  <2>1. UNCHANGED <<count, delay>>
    BY <1>2, TimerSteps DEF timerVars
  <2> QED BY <2>1 DEF DelayInv, Truncated
<1> QED BY <1>1, <1>2

(* All of it is an invariant. *)
THEOREM Invariance == Spec => []IInv
<1>1. IInv /\ [Next]_vars => IInv'
  BY TypeStep, ChannelStep, ServiceStep, IdStep, ListStep, QueryStep, DelayStep
  DEF IInv
<1> QED BY InitInv, <1>1, PTL DEF Spec

-----------------------------------------------------------------------------
(* Whenever subscribe or service_request gets its mutex, the tables of the *)
(* bridge are those of the server, whatever failed in the updates before.  *)
THEOREM TablesFollow == Spec => []TablesAgree
<1>1. IInv => TablesAgree
  <2> SUFFICES ASSUME IInv PROVE TablesAgree
    OBVIOUS
  <2>1. advertised \subseteq Id /\ bservices \subseteq Id /\ TypeOK
    BY DEF IInv, TypeOK
  <2>2. ASSUME SubscriptionsMutexFree
        PROVE  /\ advertised = {i \in Id : channels[i] # None}
               /\ \A i \in Id \ advertised : subs[i] = {}
               /\ \A i, j \in advertised : channels[i] = channels[j] => i = j
    <3>1. \A i \in Id : channels[i] # None <=> i \in advertised
      BY <2>2 DEF IInv, ChannelInv, SubscriptionsMutexFree
    <3> QED BY <2>1, <3>1 DEF IInv, ChannelInv, IdInv
  <2>3. ASSUME ServicesMutexFree
        PROVE  /\ bservices = {i \in Id : services[i] # None}
               /\ \A i, j \in bservices : services[i] = services[j] => i = j
    <3>1. \A i \in Id : services[i] # None <=> i \in bservices
      BY <2>3 DEF IInv, ServiceInv, ServicesMutexFree
    <3> QED BY <2>1, <3>1 DEF IInv, IdInv
  <2> QED BY <2>1, <2>2, <2>3 DEF TablesAgree
<1> QED BY <1>1, Invariance, PTL

(* The two reads of subscribe_graph_updates_ in one update do not store a  *)
(* graph that was never asked for, with the services capability and a      *)
(* master that answers.                                                    *)
THEOREM GraphKept == Spec => []GraphNotBlanked
<1>1. IInv => GraphNotBlanked
  BY DEF IInv
<1> QED BY <1>1, Invariance, PTL

(* What exists at the master during a whole update keeps its channel, and  *)
(* its service unless getSystemState failed.                               *)
THEOREM EntriesKept == Spec => SteadyEntriesKept
<1>1. ASSUME IInv, [Next]_vars, NEW i \in Id
      PROVE  /\ channels[i] # None /\ channels'[i] = None =>
                  channels[i] \notin steady
             /\ services[i] # None /\ services'[i] = None =>
                  services[i] \notin steady \/ failed
  <2>0. /\ TypeOK /\ ListInv /\ QueryInv /\ None \notin Topic \cup Service
        /\ channels[i] \in Topic \cup {None}
    BY <1>1, Ros1Constants DEF IInv, TypeOK
  <2>1. CASE TopicsRemove
    <3>1. /\ upc = "remove" /\ services' = services
          /\ channels'[i] = IF i \in gone THEN None ELSE channels[i]
      BY <2>1 DEF TopicsRemove, Without, serviceVars
    <3> QED BY <2>0, <3>1 DEF ListInv
  <2>2. CASE ServicesRemove
    <3>1. /\ upc = "sremove" /\ channels' = channels
          /\ services'[i] = IF i \in gone THEN None ELSE services[i]
      BY <2>2 DEF ServicesRemove, Without, channelVars
    <3> QED BY <2>0, <3>1 DEF ListInv, QueryInv
  <2>3. CASE TopicsAdd
    <3>1. services' = services
      BY <2>3 DEF TopicsAdd, serviceVars
    <3>2. channels'[i] \in latest \/ channels'[i] = channels[i]
      BY <2>0, <2>3, ChannelsAdded DEF Added
    <3>3. latest \subseteq Topic
      BY <2>0 DEF TypeOK
    <3> QED BY <2>0, <3>1, <3>2, <3>3
  <2>4. CASE ServicesAdd
    <3>1. channels' = channels
      BY <2>4 DEF ServicesAdd, channelVars
    <3>2. services'[i] \in Service \/ services'[i] = services[i]
      BY <2>0, <2>4, ServicesAdded DEF Added, ServicesToAdd
    <3> QED BY <2>0, <3>1, <3>2
  <2>5. CASE \/ TopicsErase \/ TopicsAdvertise
             \/ ServicesErase \/ ServicesAdvertise
    <3>1. UNCHANGED <<channels, services>>
      BY <2>5 DEF TopicsErase, TopicsAdvertise, ServicesErase,
                  ServicesAdvertise, channelVars, serviceVars
    <3> QED BY <3>1
  <2>6. CASE \E c \in Conn, j \in Id : Subscribe(c, j) \/ Unsubscribe(c, j)
    <3>1. UNCHANGED <<channels, services>>
      BY <2>6 DEF Subscribe, Unsubscribe, channelVars, serviceVars
    <3> QED BY <3>1
  <2>7. CASE UNCHANGED tableVars
    BY <2>7 DEF tableVars
  <2> QED BY <1>1, <2>1, <2>2, <2>3, <2>4, <2>5, <2>6, <2>7, Steps
<1>2. IInv /\ [Next]_vars =>
        [\A i \in Id :
           /\ channels[i] # None /\ channels'[i] = None =>
                channels[i] \notin steady
           /\ services[i] # None /\ services'[i] = None =>
                services[i] \notin steady \/ failed]_vars
  BY <1>1
<1> QED BY <1>2, Invariance, PTL DEF Spec, SteadyEntriesKept

(* Every delay is between MIN_UPDATE_PERIOD_MS and max_update_ms_, and     *)
(* none is shorter than the one before as long as the shift is defined.    *)
THEOREM DelaysGrow == Spec => BackOffGrows
<1>1. ASSUME IInv, [Next]_vars, upc = "schedule", upc' = "timer"
      PROVE  /\ delay' \in MinMs..Max({MinMs, MaxMs})
             /\ delay' >= delay \/ count' = Width
  <2>1. Schedule
    BY <1>1, TimerSteps
  <2>2. /\ count' \in 1..Width
        /\ delay' \in MinMs..Max({MinMs, MaxMs})
        /\ count' < Width => delay' >= delay
    BY <1>1, <2>1, ScheduleStep DEF IInv
  <2>3. count' < Width \/ count' = Width
    BY <2>2, Ros1Constants, SMT
  <2> QED BY <2>2, <2>3
<1>2. IInv /\ [Next]_vars =>
        [upc = "schedule" /\ upc' = "timer" =>
           /\ delay' \in MinMs..Max({MinMs, MaxMs})
           /\ delay' >= delay \/ count' = Width]_vars
  BY <1>1
<1> QED BY <1>2, Invariance, PTL DEF Spec, BackOffGrows
=============================================================================
