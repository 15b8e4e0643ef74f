----------------------------- MODULE Ros1Bridge -----------------------------
(***************************************************************************)
(* The ROS 1 bridge (ros1_bridge_nodelet.cpp).  A timer callback asks the  *)
(* ROS master for its state, brings the channels and services of the       *)
(* server up to date and starts the timer again, later and later.  The     *)
(* handler thread of the server calls subscribe, unsubscribe,              *)
(* service_request and the switch for graph updates at any time; what the  *)
(* server does around these calls is in ChannelSessions, ServiceCalls and  *)
(* ConnectionGraph.                                                        *)
(*                                                                         *)
(* subscriptions_mutex_ is held by the update from TopicsErase to          *)
(* TopicsAdvertise.  services_mutex_ is held by the update from            *)
(* ServicesErase to ServicesAdvertise, and by service_request until the    *)
(* service has answered.                                                   *)
(***************************************************************************)
EXTENDS Naturals, FiniteSetsExt, Functions

CONSTANTS
    Conn,         \* connection handles
    Topic,        \* whitelisted topics, with their data types
    Service,      \* names of whitelisted services
    None,         \* no topic and no service
    Width,        \* number of bits of size_t
    MinMs,        \* MIN_UPDATE_PERIOD_MS
    MaxMs,        \* max_update_ms_
    MaxId,        \* bound on the channel ids and on the service ids
    MaxChanges,   \* bound on the changes at the master
    MaxFailures   \* bound on the failures of the master and of services

Id == 1..MaxId

ASSUME Ros1Constants ==
    /\ None \notin Topic \cup Service
    /\ Width \in Nat \ {0} /\ MinMs \in Nat /\ MaxMs \in 0..(2^Width - 1)
    /\ MaxId \in Nat /\ MaxChanges \in Nat /\ MaxFailures \in Nat

(* Arithmetic of the shift, of which the provers know nothing. *)
ASSUME ShiftDoubles ==
    \A n \in 0..Width : 2^n \in Nat /\ 2^(n + 1) = 2 * 2^n

VARIABLES
    master,      \* topics and services that exist
    changes,     \* number of its changes so far
    failures,    \* number of failures so far
    enabled,     \* has_capability(CAPABILITY_SERVICES)
    watching,    \* subscribe_graph_updates_
    count,       \* update_count_, all values from Width on being one
    delay,       \* the period of update_timer_
    upc,         \* where the update is; "timer" when it waits, "thrown"
                 \* when it ended with an exception
    asked,       \* its query_system_state
    latest,      \* its latest_topics
    system,      \* its publishers, subscribers and services
    failed,      \* its query of the system state failed
    steady,      \* what has existed at the master since it started
    gone,        \* the ids it removes
    fresh,       \* the ids it has created
    channels,    \* the server's channels, with their topics
    advertised,  \* ids in advertised_topics_
    subs,        \* subscriptions_: the clients of each channel
    services,    \* the server's services, with their names
    bservices,   \* ids in advertised_services_
    nextCh,      \* the server's last channel id
    nextSv,      \* the server's last service id
    graph,       \* the server's connection graph
    blank,       \* it was replaced by nothing, without a query
    hpc,         \* where the handler thread is
    hi           \* the service it calls

masterVars == <<master, changes, steady>>
localVars == <<asked, latest, system, failed, gone, fresh>>
channelVars == <<channels, advertised, nextCh>>
serviceVars == <<services, bservices, nextSv>>
graphVars == <<graph, blank>>
timerVars == <<count, delay>>
handlerVars == <<hpc, hi>>
vars == <<master, changes, failures, enabled, watching, count, delay, upc,
          asked, latest, system, failed, steady, gone, fresh, channels,
          advertised, subs, services, bservices, nextCh, nextSv, graph, blank,
          hpc, hi>>

(* The update starts once in onInit, before there is a timer. *)
Init ==
    /\ master \in SUBSET (Topic \cup Service)
    /\ changes = 0 /\ failures = 0
    /\ enabled \in BOOLEAN
    /\ watching = FALSE
    /\ count = 0 /\ delay = 0
    /\ upc = "timer"
    /\ asked = FALSE /\ latest = {} /\ system = {} /\ failed = FALSE
    /\ steady = {} /\ gone = {} /\ fresh = {}
    /\ channels = [i \in Id |-> None] /\ advertised = {} /\ nextCh = 0
    /\ services = [i \in Id |-> None] /\ bservices = {} /\ nextSv = 0
    /\ subs = [i \in Id |-> {}]
    /\ graph = {} /\ blank = FALSE
    /\ hpc = "idle" /\ hi = 0

-----------------------------------------------------------------------------
(* The master. *)

Toggle(n) ==
    /\ changes < MaxChanges
    /\ changes' = changes + 1
    /\ master' = IF n \in master THEN master \ {n} ELSE master \cup {n}
    /\ steady' = steady \ {n}
    /\ UNCHANGED <<failures, enabled, watching, timerVars, upc, localVars,
                   channelVars, subs, serviceVars, graphVars, handlerVars>>

Fails ==
    /\ failures < MaxFailures
    /\ failures' = failures + 1

-----------------------------------------------------------------------------
(* update_advertised_topics_and_services *)

(* Mutant of UpdateStart: only graph updates ask for the state. *)
UpdateStartForGraph ==
    /\ upc = "timer"
    /\ asked' = watching
    /\ steady' = master
    /\ upc' = "state"
    /\ UNCHANGED <<master, changes, failures, enabled, watching, timerVars,
                   latest, system, failed, gone, fresh, channelVars, subs,
                   serviceVars, graphVars, handlerVars>>

(* The timer is stopped, and it is decided whether to ask for the state of *)
(* the system.  ros::ok() holds until the node ends, which is not          *)
(* modelled.                                                               *)
UpdateStart ==
    /\ upc = "timer"
    /\ asked' = (enabled \/ watching)
    /\ steady' = master
    /\ upc' = "state"
    /\ UNCHANGED <<master, changes, failures, enabled, watching, timerVars,
                   latest, system, failed, gone, fresh, channelVars, subs,
                   serviceVars, graphVars, handlerVars>>

(* When getSystemState is not called or fails, the lists stay empty. *)
QueryState ==
    /\ upc = "state"
    /\ \/ asked /\ system' = master /\ failed' = FALSE /\ UNCHANGED failures
       \/ asked /\ system' = {} /\ failed' = TRUE /\ Fails
       \/ ~asked /\ system' = {} /\ failed' = FALSE /\ UNCHANGED failures
    /\ upc' = "topics"
    /\ UNCHANGED <<masterVars, enabled, watching, timerVars, asked, latest,
                   gone, fresh, channelVars, subs, serviceVars, graphVars,
                   handlerVars>>

(* Mutant of QueryTopics: after a failure it goes on with an empty list. *)
QueryTopicsGoesOn ==
    /\ upc = "topics"
    /\ \/ latest' = master \cap Topic /\ UNCHANGED failures
       \/ latest' = {} /\ Fails
    /\ upc' = "erase"
    /\ UNCHANGED <<masterVars, enabled, watching, timerVars, asked, system,
                   failed, gone, fresh, channelVars, subs, serviceVars,
                   graphVars, handlerVars>>

(* When getTopics fails, update_advertised_topics returns. *)
QueryTopics ==
    /\ upc = "topics"
    /\ \/ /\ latest' = master \cap Topic /\ upc' = "erase"
          /\ UNCHANGED failures
       \/ Fails /\ upc' = "services" /\ UNCHANGED latest
    /\ UNCHANGED <<masterVars, enabled, watching, timerVars, asked, system,
                   failed, gone, fresh, channelVars, subs, serviceVars,
                   graphVars, handlerVars>>

(* Mutant of TopicsErase: the ROS subscriptions are kept. *)
TopicsEraseKeepsSubscriptions ==
    /\ upc = "erase"
    /\ gone' = {i \in advertised : channels[i] \notin latest}
    /\ advertised' = advertised \ gone'
    /\ upc' = "remove"
    /\ UNCHANGED <<masterVars, failures, enabled, watching, timerVars, asked,
                   latest, system, failed, fresh, channels, nextCh, subs,
                   serviceVars, graphVars, handlerVars>>

(* Channels whose topic has gone leave the bridge with their               *)
(* subscriptions.                                                          *)
TopicsErase ==
    /\ upc = "erase"
    /\ gone' = {i \in advertised : channels[i] \notin latest}
    /\ advertised' = advertised \ gone'
    /\ subs' = [i \in Id |-> IF i \in gone' THEN {} ELSE subs[i]]
    /\ upc' = "remove"
    /\ UNCHANGED <<masterVars, failures, enabled, watching, timerVars, asked,
                   latest, system, failed, fresh, channels, nextCh,
                   serviceVars, graphVars, handlerVars>>

Without(table, ids) == [i \in Id |-> IF i \in ids THEN None ELSE table[i]]

(* remove_channels of the server. *)
TopicsRemove ==
    /\ upc = "remove"
    /\ channels' = Without(channels, gone)
    /\ gone' = {}
    /\ upc' = "add"
    /\ UNCHANGED <<masterVars, failures, enabled, watching, timerVars, asked,
                   latest, system, failed, fresh, advertised, nextCh, subs,
                   serviceVars, graphVars, handlerVars>>

(* add_channels of the server.  A topic without a message definition is    *)
(* added with an empty schema.                                             *)
TopicsAdd ==
    /\ upc = "add"
    /\ \E last \in nextCh..MaxId :
         \E new \in Bijection((nextCh + 1)..last,
                              latest \ {channels[i] : i \in advertised}) :
           /\ nextCh' = last
           /\ fresh' = (nextCh + 1)..last
           /\ channels' = [i \in Id |->
                             IF i \in fresh' THEN new[i] ELSE channels[i]]
    /\ upc' = "advertise"
    /\ UNCHANGED <<masterVars, failures, enabled, watching, timerVars, asked,
                   latest, system, failed, gone, advertised, subs,
                   serviceVars, graphVars, handlerVars>>

TopicsAdvertise ==
    /\ upc = "advertise"
    /\ advertised' = advertised \cup fresh
    /\ fresh' = {} /\ latest' = {}
    /\ upc' = "services"
    /\ UNCHANGED <<masterVars, failures, enabled, watching, timerVars, asked,
                   system, failed, gone, channels, nextCh, subs, serviceVars,
                   graphVars, handlerVars>>

ServicesSkip ==
    /\ upc = "services" /\ ~enabled
    /\ upc' = "graph"
    /\ UNCHANGED <<masterVars, failures, enabled, watching, timerVars,
                   localVars, channelVars, subs, serviceVars, graphVars,
                   handlerVars>>

(* update_advertised_services takes the mutex, which service_request may   *)
(* hold, and forgets the services that are not in the list.                *)
ServicesErase ==
    /\ upc = "services" /\ enabled
    /\ hpc # "calling"
    /\ gone' = {i \in bservices : services[i] \notin system}
    /\ bservices' = bservices \ gone'
    /\ upc' = "sremove"
    /\ UNCHANGED <<masterVars, failures, enabled, watching, timerVars, asked,
                   latest, system, failed, fresh, channelVars, subs, services,
                   nextSv, graphVars, handlerVars>>

(* remove_services of the server. *)
ServicesRemove ==
    /\ upc = "sremove"
    /\ services' = Without(services, gone)
    /\ gone' = {}
    /\ upc' = "sadd"
    /\ UNCHANGED <<masterVars, failures, enabled, watching, timerVars, asked,
                   latest, system, failed, fresh, channelVars, subs, bservices,
                   nextSv, graphVars, handlerVars>>

ServicesToAdd == (system \cap Service) \ {services[i] : i \in bservices}

(* add_services of the server.  A service that does not tell its type in   *)
(* time is left out.                                                       *)
ServicesAdd ==
    /\ upc = "sadd"
    /\ \E found \in SUBSET ServicesToAdd :
         /\ IF found = ServicesToAdd THEN UNCHANGED failures ELSE Fails
         /\ \E last \in nextSv..MaxId :
              \E new \in Bijection((nextSv + 1)..last, found) :
                /\ nextSv' = last
                /\ fresh' = (nextSv + 1)..last
                /\ services' = [i \in Id |->
                                  IF i \in fresh' THEN new[i] ELSE services[i]]
    /\ upc' = "sadvertise"
    /\ UNCHANGED <<masterVars, enabled, watching, timerVars, asked, latest,
                   system, failed, gone, channelVars, subs, bservices,
                   graphVars, handlerVars>>

ServicesAdvertise ==
    /\ upc = "sadvertise"
    /\ bservices' = bservices \cup fresh
    /\ fresh' = {}
    /\ upc' = "graph"
    /\ UNCHANGED <<masterVars, failures, enabled, watching, timerVars, asked,
                   latest, system, failed, gone, channelVars, subs, services,
                   nextSv, graphVars, handlerVars>>

(* Whether there are subscribers of the graph is asked a second time; what *)
(* the server stores is empty if there were none the first time.  The      *)
(* graph is stored when it is sent, and send throws for a subscriber whose *)
(* connection is closed: nothing catches that, and there is no timer then. *)
(* It sends only a difference, but who publishes and subscribes, which is  *)
(* not kept here, is part of the graph: any round may have one to send.    *)
UpdateGraph ==
    /\ upc = "graph"
    /\ \/ ~watching /\ upc' = "schedule" /\ UNCHANGED graphVars
       \/ /\ watching /\ upc' \in {"schedule", "thrown"}
          /\ graph' = system /\ blank' = (~asked \/ failed)
    /\ UNCHANGED <<masterVars, failures, enabled, watching, timerVars,
                   localVars, channelVars, subs, serviceVars, handlerVars>>

(* size_t(1) << n.  A shift by Width or more is undefined. *)
Shifted(n) == IF n < Width THEN {2^n} ELSE 0..(2^Width - 1)

(* Mutant of Schedule: the largest delay is not applied. *)
ScheduleUntruncated ==
    /\ upc = "schedule"
    /\ count' = Min({count + 1, Width})
    /\ \E ms \in Shifted(count') : delay' = Max({MinMs, ms})
    /\ upc' = "timer"
    /\ asked' = FALSE /\ system' = {} /\ failed' = FALSE
    /\ UNCHANGED <<masterVars, failures, enabled, watching, latest, gone,
                   fresh, channelVars, subs, serviceVars, graphVars,
                   handlerVars>>

(* Mutant of Schedule: after a failed query the timer is not started. *)
ScheduleUnlessFailed ==
    /\ upc = "schedule" /\ ~failed
    /\ count' = Min({count + 1, Width})
    /\ \E ms \in Shifted(count') : delay' = Max({MinMs, Min({ms, MaxMs})})
    /\ upc' = "timer"
    /\ asked' = FALSE /\ system' = {} /\ failed' = FALSE
    /\ UNCHANGED <<masterVars, failures, enabled, watching, latest, gone,
                   fresh, channelVars, subs, serviceVars, graphVars,
                   handlerVars>>

(* The next update, by truncated exponential back-off. *)
Schedule ==
    /\ upc = "schedule"
    /\ count' = Min({count + 1, Width})
    /\ \E ms \in Shifted(count') : delay' = Max({MinMs, Min({ms, MaxMs})})
    /\ upc' = "timer"
    /\ asked' = FALSE /\ system' = {} /\ failed' = FALSE
    /\ UNCHANGED <<masterVars, failures, enabled, watching, latest, gone,
                   fresh, channelVars, subs, serviceVars, graphVars,
                   handlerVars>>

-----------------------------------------------------------------------------
(* The handler thread. *)

SubscriptionsMutexFree == upc \notin {"remove", "add", "advertise"}
ServicesMutexFree == upc \notin {"sremove", "sadd", "sadvertise"}

(* subscribe throws for a channel that has gone since the server looked it *)
(* up, and for a client that is subscribed already.                        *)
Subscribe(c, i) ==
    /\ hpc = "idle" /\ SubscriptionsMutexFree
    /\ i \in advertised /\ c \notin subs[i]
    /\ subs' = [subs EXCEPT ![i] = @ \cup {c}]
    /\ UNCHANGED <<masterVars, failures, enabled, watching, timerVars, upc,
                   localVars, channelVars, serviceVars, graphVars,
                   handlerVars>>

Unsubscribe(c, i) ==
    /\ hpc = "idle" /\ SubscriptionsMutexFree
    /\ i \in advertised /\ c \in subs[i]
    /\ subs' = [subs EXCEPT ![i] = @ \ {c}]
    /\ UNCHANGED <<masterVars, failures, enabled, watching, timerVars, upc,
                   localVars, channelVars, serviceVars, graphVars,
                   handlerVars>>

(* subscribe_connection_graph_handler *)
Watch(b) ==
    /\ hpc = "idle"
    /\ watching' = b /\ watching # b
    /\ UNCHANGED <<masterVars, failures, enabled, timerVars, upc, localVars,
                   channelVars, subs, serviceVars, graphVars, handlerVars>>

(* The server found the service and calls service_request. *)
CallService(i) ==
    /\ hpc = "idle" /\ services[i] # None
    /\ hpc' = "request" /\ hi' = i
    /\ UNCHANGED <<masterVars, failures, enabled, watching, timerVars, upc,
                   localVars, channelVars, subs, serviceVars, graphVars>>

(* service_request takes the mutex.  It throws when the service has gone   *)
(* from the bridge or from ROS, or its type is unknown.                    *)
Request ==
    /\ hpc = "request" /\ ServicesMutexFree
    /\ \/ /\ hi \in bservices /\ services[hi] \in master
          /\ hpc' = "calling" /\ UNCHANGED hi
       \/ hpc' = "idle" /\ hi' = 0
    /\ UNCHANGED <<masterVars, failures, enabled, watching, timerVars, upc,
                   localVars, channelVars, subs, serviceVars, graphVars>>

(* The service answers or its connection breaks, and the mutex is          *)
(* released.                                                               *)
CallReturns ==
    /\ hpc = "calling"
    /\ hpc' = "idle" /\ hi' = 0
    /\ UNCHANGED <<masterVars, failures, enabled, watching, timerVars, upc,
                   localVars, channelVars, subs, serviceVars, graphVars>>

-----------------------------------------------------------------------------
Update ==
    \/ UpdateStart \/ QueryState \/ QueryTopics
    \/ TopicsErase \/ TopicsRemove \/ TopicsAdd \/ TopicsAdvertise
    \/ ServicesSkip
    \/ ServicesErase \/ ServicesRemove \/ ServicesAdd \/ ServicesAdvertise
    \/ UpdateGraph \/ Schedule

Handler ==
    \/ \E c \in Conn, i \in Id : Subscribe(c, i) \/ Unsubscribe(c, i)
    \/ \E b \in BOOLEAN : Watch(b)
    \/ \E i \in Id : CallService(i)
    \/ Request \/ CallReturns

Next ==
    \/ \E n \in Topic \cup Service : Toggle(n)
    \/ Update
    \/ Handler

(* The timer fires and its callback runs; ServicesErase gets the mutex     *)
(* although calls go on.  Nothing obliges a service to answer.             *)
Fairness == WF_vars(Update) /\ SF_vars(ServicesErase)

Spec == Init /\ [][Next]_vars /\ Fairness

-----------------------------------------------------------------------------
(* Every variable has the type of the field it stands for. *)
TypeOK ==
    /\ master \subseteq Topic \cup Service /\ steady \subseteq master
    /\ changes \in 0..MaxChanges /\ failures \in 0..MaxFailures
    /\ enabled \in BOOLEAN /\ watching \in BOOLEAN
    /\ count \in 0..Width
    /\ delay \in Nat
    /\ upc \in {"timer", "state", "topics", "erase", "remove", "add",
                "advertise", "services", "sremove", "sadd", "sadvertise",
                "graph", "schedule", "thrown"}
    /\ asked \in BOOLEAN /\ failed \in BOOLEAN /\ blank \in BOOLEAN
    /\ latest \subseteq Topic
    /\ system \subseteq Topic \cup Service /\ graph \subseteq Topic \cup Service
    /\ gone \subseteq Id /\ fresh \subseteq Id
    /\ channels \in [Id -> Topic \cup {None}]
    /\ services \in [Id -> Service \cup {None}]
    /\ advertised \subseteq Id /\ bservices \subseteq Id
    /\ subs \in [Id -> SUBSET Conn]
    /\ nextCh \in 0..MaxId /\ nextSv \in 0..MaxId
    /\ hpc \in {"idle", "request", "calling"}
    /\ hi \in Id \cup {0}

(* Whenever subscribe or service_request can get its mutex, the bridge has *)
(* the channels and services the server has, no topic and no service is    *)
(* advertised twice, and nobody is subscribed to a channel that is gone,   *)
(* whichever queries of the update failed.                                 *)
TablesAgree ==
    /\ TypeOK
    /\ SubscriptionsMutexFree =>
         /\ advertised = {i \in Id : channels[i] # None}
         /\ \A i \in Id \ advertised : subs[i] = {}
         /\ \A i, j \in advertised : channels[i] = channels[j] => i = j
    /\ ServicesMutexFree =>
         /\ bservices = {i \in Id : services[i] # None}
         /\ \A i, j \in bservices : services[i] = services[j] => i = j

(* A channel is removed only if its topic was missing at some moment of    *)
(* the update, even when queries of the master fail.  The same holds for   *)
(* services only as long as getSystemState succeeds: after a failure all   *)
(* of them are removed, and come back with new ids.                        *)
SteadyEntriesKept ==
    [][\A i \in Id :
         /\ channels[i] # None /\ channels'[i] = None =>
              channels[i] \notin steady
         /\ services[i] # None /\ services'[i] = None =>
              services[i] \notin steady \/ failed]_vars

(* subscribe_graph_updates_ is read twice in an update.  With the services *)
(* capability the system state is asked for in any case, so a subscriber   *)
(* that comes in between does not make the update store an empty graph     *)
(* that was never asked for; only a failing master does.                   *)
GraphNotBlanked == blank => ~enabled \/ failures > 0

(* "Schedule the next update using truncated exponential backoff, between  *)
(* `MIN_UPDATE_PERIOD_MS` and `_maxUpdateMs`": the delay stays in these    *)
(* bounds, even when the shift is undefined, and does not shrink before.   *)
BackOffGrows ==
    [][upc = "schedule" /\ upc' = "timer" =>
         /\ delay' \in MinMs..Max({MinMs, MaxMs})
         /\ delay' >= delay \/ count' = Width]_vars

(* Once the master changes and fails no more, the channels of the server   *)
(* are its topics, and the services its services if they are enabled: the  *)
(* timer makes up for every failed query, and calls that return do not     *)
(* keep the update from services_mutex_ for ever, however many there are.  *)
(* If subscribers of the connection graph stay, the server gets to have    *)
(* the graph of the master, whatever it had before.  Two things end all of *)
(* that: an update of the graph that throws, and a call that never returns.*)
MasterIsFollowed ==
    [](upc # "thrown") /\ []<>(hpc # "calling") =>
        /\ <>[](/\ {channels[i] : i \in Id} \ {None} = master \cap Topic
                /\ enabled => {services[i] : i \in Id} \ {None} = master \cap Service)
        /\ <>[]watching => <>[](graph = master)
=============================================================================
