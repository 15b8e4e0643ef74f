# A TLA+ model of coBridge

coBridge connects a ROS graph to remote clients over a websocket. Clients log
in, learn the topics of the graph as *channels*, subscribe to channels, publish
on channels of their own, read, set and follow parameters, follow the connection
graph, call services and fetch files. These modules model the parts of it where
several threads change shared tables, where nodes, clients and queries fail, and
the algorithms whose results clients depend on. TLC checks them on small
instances; TLAPS proves the main safety properties for every value of the
constants.

## 1. The system

### Threads

| thread | started in | what it runs |
|---|---|---|
| network (ASIO) | `Server::start` | opens connections, writes frames; queues a callback for every message and every close |
| handler | `CallbackQueue` with one worker (`websocket_server.hpp:377`) | the callbacks: requests and `handle_connection_closed`, one at a time |
| poll | `CoBridge::CoBridge` (ROS 2); a timer in ROS 1 | `rosgraph_poll_thread`: channels, services and the connection graph follow the ROS graph |
| executor (several) | `ros2_bridge_node.cpp:46` | messages of subscribed topics, parameter events, service responses |
| parameter tasks | `std::async` in `get_params`, `set_params` | one request to one node, with a timeout |
| fetch-asset | `CallbackQueue` with one worker (`ros2_bridge.cpp:103`) | reads files |
| HTTP | `HttpServer::start` | answers requests until `_running` is reset |
| main | `main` | construction, spin, destruction with `Server::stop` |

### Components, their state and what is hard about them

| component | state | operations | hard behaviours |
|---|---|---|---|
| sessions, channels, subscriptions (`websocket_server.hpp`, `ros2_bridge.cpp`) | `_clients`, `_channels`, `_next_channel_id`; `_advertised_topics`, `_subscriptions` | open, login, subscribe, unsubscribe, close; `add_channels`, `remove_channels`, `update_advertised_topics` | two tables under different mutexes, changed by two threads; handlers work on copies taken before a call into the bridge; exceptions leave a request half done |
| connection graph | `_connection_graph`, `subscribed_to_connection_graph`; `_subscribe_graph_updates` | subscribe, unsubscribe, close, `update_connection_graph` from two threads | the count and the marks change in different critical sections; queries, snapshots and differences cross |
| callback queue (`callback_queue.hpp`) | deque, `_quit`, mutex, condition variable | `add_callback`, `stop`, `do_work` | lost wakeups |
| parameter subscriptions (`parameter_interface.cpp`, ROS 1: the master) | `_client_param_subscriptions`; `_subscribed_params_by_node`, `_param_subscriptions_by_node` | subscribe, unsubscribe, close, event callback | the event callback uses the table without the mutex; early return or exception in the middle of a list; unsubscribe of what was not subscribed; a master that refuses |
| parameter get and set | `_param_clients_by_node`, futures | `get_params`, `set_params`, read-back | parallel requests, timeouts, sets that take effect late, nodes that stop, node names that are not valid |
| parameter values | | `to_json`, `from_json`, `to_ros_param`, `from_ros_param`, base64 | numbers lose their type at the client; what JSON cannot write; integers of 64 bits; empty arrays |
| client publications | `_client_channels`, `advertised_channels`; `_client_advertised_topics` | advertise, unadvertise, message data, close | three records of the same thing, exceptions between their updates |
| services and fetch asset | `_services`; `_advertised_services`, `_service_clients`, pending requests of `GenericClient` | `update_advertised_services`, call, response, fetch | `service_request` waits for the service with `_services_mutex` held; responses come on another thread, perhaps after the client left |
| message data path | subscriptions and their QoS, send queues | `subscribe`, `ros_message_handler`, `send_message`, `write_push`, `write_pop` | an id read under a lock and used after it; reentrant callbacks; old messages skipped |
| message definitions | the cache | `get_full_msg_text`, `get_full_srv_text` | a search that fails half way and starts over in another format; a cache that outlives rebuilds |
| start and stop | connections, threads, members | constructor, signal, destructor, `Server::stop`, HTTP start and stop | bounded wait for the close handshakes, joins that a lost notification blocks, callbacks left in the queue |
| ROS 1 bridge (`ros1_bridge_nodelet.cpp`) | the same tables, `update_timer_`, `update_count_` | `update_advertised_topics_and_services` on a timer, the same handlers | failing master queries, a flag read twice in one update, a mutex held during a service call, the back-off's shift |

## 2. Modules

| module | contents |
|---|---|
| `ChannelSessions`, `MCChannelSessions`, `ChannelSessionsProofs` | sessions, channels and subscriptions: server and ROS 2 bridge composed, three threads |
| `ConnectionGraph`, `MCConnectionGraph`, `ConnectionGraphProofs` | the connection graph: handler thread and poll thread |
| `CallbackFifo` | what a callback queue promises: first in, first out, every callback started unless the queue is stopped |
| `CallbackQueue` | the implementation of the queue and its refinement of `CallbackFifo` |
| `ParameterSubscriptions`, `MCParameterSubscriptions`, `ParameterSubscriptionsProofs` | parameter subscriptions: handler thread and an executor thread, either bridge |
| `ParameterRequests` | get and set of parameters: handler thread, tasks, nodes |
| `ParameterValues` | conversions of parameter values, as operators |
| `ParameterExchange`, `MCParameterRequests` | the requests with the values: what an answer carries and what comes back |
| `ClientPublications` | client channels: handler thread only, failures in the middle of requests, either bridge |
| `MCHandler` | `CallbackQueue` and `ClientPublications` side by side, for one run |
| `HandlerProofs` | the theorems about what the handler thread does: `ParameterRequests`, `CallbackQueue`, `ClientPublications` |
| `ServiceCalls`, `MCServiceCalls`, `ServiceCallsProofs` | services, calls and assets: poll, handler, executor and fetch-asset threads |
| `SendQueue` | the send queue of a connection, as operators |
| `MessageDelivery` | publisher, subscription and QoS, executor, send queue, client; extends `SendQueue`, takes its handler queue from `CallbackFifo` |
| `Lifecycle`, `MCLifecycle` | start, signal, stop and destruction around `MessageDelivery`, which it extends |
| `LifecycleProofs`, `DeliveryProofs` | the theorems about `Lifecycle` and about what reaches a client; the second extends the first |
| `MessageDefinitions`, `MCMessageDefinitions` | the definition cache and the poll thread that uses it |
| `Ros1Bridge`, `Ros1BridgeProofs` | the ROS 1 bridge: its update timer and the calls of the handler thread |

Definitions named "Mutant of ..." in a comment are not part of a specification.
Each is a deliberate mistake in one definition, put in its place to see that
TLC then refutes a property.

### How states and actions correspond to the code

A step is what a thread does in one critical section, or between two calls that
another thread can separate. So `handle_subscribe` is `Subscribe` (the copy of
`subscriptions_by_channel`), then for each item `SubscribeItem` (the checks
against the copy and `_channels`), `SubscribeCall` (`CoBridge::subscribe`, under
`_subscriptions_mutex`) and `SubscribeStore` (the entry in `_clients`);
`RequestDone` ends the list. The list of a request is not stored: after each
item the handler takes an arbitrary next one or ends, which covers lists of
every length. Where an exception ends a handler there is an action `...Throws`,
or the branch that calls `EndRequest`: `handle_text_message` catches, so the
thread goes on and the request stays half done.

*ChannelSessions.* `con` is the connection object (`new`, `open`, `closed`,
`expired`), `closeq` the close callbacks in the queue. `clients`, `login`, `subs`
are `_clients` and two fields of `ClientInfo`; `channels`, `nextId`, `topic` the
channels; `advertised`, `bsubs` the bridge's tables; `view` is what each client
can conclude from the advertise and unadvertise messages it got. The poll thread
holds `_subscriptions_mutex` from `PollRemove` to `PollAdvertise`; the handler's
calls into the bridge wait for it (`BridgeMutexFree`). The order in which
`add_channels` numbers new topics follows a hash map, so `PollAdd` picks any
numbering. Clients that `handle_login` kicks lose their `login` flag and stay in
`clients`: the code sends them a message and leaves their connection open.
`failed` (history) says that the last query of the graph threw. The graph event
is set at the start: the thread updates once before its loop, and the guard
condition of the graph is triggered by then.

*ConnectionGraph.* The three maps (published topics, subscribed topics,
services) are one map from names to sets of ids. A message maps each name to its
new ids, to `Absent`, or to `Keep`. `Broadcast` needs no case for a send that
throws before other clients: only the subscriber that brings the count to one is
marked, so at most one client is (a conjunct of the inductive invariant).
When `WatchSend` runs no client is marked at all, because the count has just
come from zero, so its send never throws. Three history variables say what can
go wrong between the threads: `older` is the thread whose query is the older of
two under way, `behind` is set when the older one is stored last or a query
throws, `crossed` holds the clients whose snapshot was copied before and sent
after an update.

*CallbackQueue.* One action per access to the mutex, the flag or the condition
variable. `_quit` is atomic and written without the mutex. `missed` is a history
variable: the workers that had tested the predicate and not yet blocked when
`stop` notified.

*ParameterSubscriptions.* `ros1` chooses the bridge. In ROS 2, `entries` and
`table` are `_subscribed_params_by_node`, `rossubs` is
`_param_subscriptions_by_node`; in ROS 1 `table` is the master's. Erasing an end
iterator is undefined; the model sets `crashed` and stops. History variables:
`spoiled` (nodes whose entry and ROS subscription came apart), `astray`
(parameters that were unsubscribed by a client that had not subscribed them),
`refused` (parameters whose latest call to the master failed) and `due` (changes a
client has a right to be told of). `ListenThrows` is the `AsyncParametersClient`
that cannot be made. `events` are the changes of each node that wait for the
executor: ROS keeps the events of a subscription in order and drops them with it.

*ParameterRequests.* One request is served at a time, under the mutex. `task` is
the future of each node: `TaskStart` tests `service_is_ready` and asks,
`TaskAnswer` takes an answer, `TaskTimeout` gives up. What was asked stays in
`asked`, so a set that timed out is still carried out later (`NodeSets`); an
answer to a call that is over is dropped. When all parameters are asked for,
`get_node_names` lists the nodes first and their services are queried after it:
`get_params_throws` is the query for a node that has gone meanwhile. Nodes in
`BadNode` have a name for which no client can be made; the call throws when it
comes to one of them, after the tasks started before it are through. `NodeFault` stops a node, with what it
was asked, or starts it again. Values are numbers that say which request set
them; `own`, `lost` and `left` (history) are the changes the request has made, the
parameters it is not known to have set, and the nodes that stopped while it was served. In ROS 1 the bridge asks the master
parameter by parameter on the handler thread, so a request is one step; names
asked for that are off the whitelist are read all the same and reported as an
error, as in the code. An answer is a set: a parameter named twice is read twice
and the copies are not told apart.

*ParameterValues.* A value is a record with one field named for its type; strings
are sequences of character codes, doubles are counted in halves, so that a whole
double and an integer can be confused the way a client without number types
confuses them. `Text` is what `dump` writes (null for what is not finite), `FromJson`
what the parser and `from_json` make of it. The range of the integers is scaled
down: `IntLimit` stands for 2^63, so that the integers a client writes for whole
doubles pass it, and twice it. base64 works on the actual bits.

*ClientPublications.* `adv`, `pub` with `known`, and `bpub` are the three records;
`client_advertise`, `client_unadvertise` and `client_message` say when the bridge
throws, in the terms that both bridges share. `bknown` are the connections with an
entry in `_client_advertised_topics`, which `client_advertise` makes before it can
fail. The history variables `early` and `refused` hold the connections that
advertised before their login, and those the bridge has refused a channel.

*ServiceCalls.* `services` is the server's table, `advertised` the bridge's, `bmutex` the
bridge's `_services_mutex`, which `service_request` keeps from `Request` through the
creation of a `GenericClient` and `wait_for_service` to `Store`. A request is the pair of
a service id and a sequence number; it is in `wire` while the service works on it, in
`replies` when it waits for an executor thread, in `dead` when no response will come.
`pending` is `pending_requests_` of all clients; its mutex is held from `Send` to `Store`.
`meant` remembers the service an id stood for when the call was accepted; `answers` and
`refused` record what the client got.

*MessageDelivery and SendQueue.* One channel. `rossub` is the QoS a client's
subscription was created with, `inbox` its history in DDS, `exec` the message
each executor thread holds: `Take` is the start of the callback, `Lookup` the critical
section in which `send_message` looks for the client and its id, `Send` the rest.
Any number of requests may be served between them. A request
takes two steps where the code calls the bridge and changes `_clients` under
different mutexes (`stage`). An entry of the send queue is a message, the
`reliable` flag that the patch of websocketpp adds, and whether it looks old;
`Ages` makes a prefix of the queue old, which covers both time and a clock that
is set back. History: `made` (the ROS subscriptions created for each client so
far; a message carries the number of the one it was taken from), `pushed`
(reliable messages in order), `late` (messages sent under an id since it was
given up), `overtaken` (connections where one thread overtook another).

*Lifecycle.* `main` is the position of the main thread, from the constructor to
the destruction of the members, in the order of their declarations: the bridge,
the tables of the server, and last the callback queue, whose thread is joined. A
constructor that throws ends in the same destruction. The first member of the bridge to go
is `_fetch_asset_queue`, whose worker is joined as well. The stop of either queue
may miss a worker that is about to block, as in `CallbackQueue` (`missed`); only a
spurious wakeup helps then.
A network thread returns when it was stopped or has nothing left to wait for.
`unseen` (history) says that stop found no client although a connection was
open, `leftover` are the callbacks queued or running when stop returned, `misuse`
the callbacks that used destroyed members.

*MessageDefinitions.* A definition file is the set of types it mentions, in one
of several versions. `load_message_spec`, `load_service_spec`, `append_recursive`
and the two `get_full_..._text` are operators that return the cache, the
sections found and how the search ended. `Poll` computes the schemas of new
topics and services in any order, as the code iterates over hash maps. `behind`
and `unpolled` (history) say what was advertised before the latest build and
whether the thread has run since.

*Ros1Bridge.* The server appears as the tables that the bridge changes and as a caller of
the bridge's handlers at any time; what surrounds those calls is the same for both bridges
and is in the other modules. A handler that throws changes nothing, so only the calls that
succeed are steps. `system` stands for the lists that `getSystemState` fills and `failed`
for its failure, after which the code goes on with empty lists. `count` stops at `Width`,
the number of bits of `size_t`: from there on `size_t(1) << update_count_` is undefined and
`Shifted` is any value. `steady` (history) is what has existed at the master since the
update began, `blank` (history) says that an empty graph was stored without an answer from
the master. `UpdateGraph` may end in `thrown`: the send to a graph subscriber that is gone
throws through the timer callback, and no timer is started. A service call may last for ever.

## 3. Runs

Deadlock is checked in every run; `Exhausted` and `Terminated` are the only states
in which the system may rest, and they say why. Every property has a mutant that
TLC refutes under the same configuration (`PROJECT.json`).

| run | distinct states | shows |
|---|---|---|
| `channels` | 2,629,950 | `AtMostOneLogin`, `ClientsKnowChannels`, `SubscriptionsAgree`; the channels lag behind ROS only after a query that threw (`OnlyFailuresLeaveStale`); only the login of a client itself tells it of a channel that is gone (`OnlyLoginOutdates`) |
| `channel_liveness` | 24,684 | `ChannelsFollowGraph`, `DepartedClientsForgotten` |
| `unsubscribed_id` | violation | `UnsubscribedIdIsFree` fails |
| `graph` | 1,250,942 | `WatchedWhileCounted`, `MarkedClientsCatchUp` |
| `graph_subscribers` | violation | `UpdatesReachSubscribers` fails |
| `handler` | 51,771 | the queue implements `CallbackFifo`, including that each callback is started while the queue is not stopped (`ImplementsFifo`), `StopReturnsUnlessMissed`; the records of client channels: `RecordsAgree`, `NothingLeftBehind` |
| `parameters` | 1,181,592 | `TablesAgree`, `ChangesReachSubscribers`, in ROS 1 and ROS 2 |
| `services` | 2,329,854 | `ClientsKnowServices`, `BridgeKnowsServices`, `AnswersMatchCalls`, `NoCallForgotten` |
| `ros1` | 548,172 | `TablesAgree`, `GraphNotBlanked`, `SteadyEntriesKept`, `BackOffGrows`, `MasterIsFollowed` |
| `definitions` | 41,073 | schemas are complete and of one format (`SchemasComplete`), the cache changes no answer (`CacheTransparent`), advertisements are what the cache gives and are left out only on errors (`AdvertisedUpToDate`) |
| `lifecycle` | 309,509 | reliable messages arrive once and in order (`ReliableKept`); those of a publisher reach a subscription in order unless one executor thread overtook another (`OrderKept`); messages under a given-up id are bounded (`LateMessagesBounded`); the QoS suits the known publishers (`KnownPublishersHeard`); a message that was taken is dropped only without a ROS subscription or during a request (`DroppedOnlyMidway`); no thread or logged-in client outlives stop (`NothingOutlives`), `MisuseOnlyOfLeftovers`, `ShutdownCompletes` |
| `parameter_requests` | 90,807 | `ValuesReturn`, `WhitelistGuards`, `ReadBackIsFresh`, `AnsweredNodesComplete`, `RequestsEnd` |

No run checks a type invariant by itself. Those of `ChannelSessions`,
`ConnectionGraph`, `CallbackQueue` and `ClientPublications` are theorems; those of
`ParameterSubscriptions`, `Ros1Bridge`, `ServiceCalls`, `Lifecycle` and
`ParameterRequests` are a conjunct of `TablesAgree`, of the `TablesAgree` of ROS 1,
of `BridgeKnowsServices`, `NothingOutlives` and `WhitelistGuards`, and so both checked
and proved.

### Bounds

- *channels*: two connections are enough for one to log in over the other and for
  one to close while the other subscribes. Two topics and four channel ids with two
  changes of the graph let a topic go and come back under a new id while another
  stays. One subscription id suffices, since a request may name it twice, for two
  channels. The proofs remove these bounds.
- *channel_liveness*: one connection, two topics of which the second has no message
  definition, two changes. Without symmetry, which liveness checking does not allow.
- *graph*: two subscribers, a count up to 3 (clients may subscribe twice), one name
  with two possible values and absence, two changes: a new, a changed and a removed
  entry all occur, and either thread can store the older query last.
- *handler*: two workers although the program uses one, so that two can wake
  for one callback; three callbacks, so that order matters after one is taken. For the
  publications two connections and two channels, without counters. A behaviour is about
  the queue or about the publications: they share no state.
- *parameters*: two parameters of one node and one of another, which is off the
  whitelist; two changes, so that an event can wait while another is handled. Clients
  unsubscribe whatever they like.
- *services*: one client with two calls or asset requests, so that two can be under way
  for one service or for two; two services, three ids and two changes, so that a service
  goes and comes back under a new id while its `GenericClient` is kept.
- *ros1*: one client, one topic, one service, two changes and one failure: each can go, come
  back, and be missed by a query. A `size_t` of three bits with delays from 2 to 4 passes
  the smallest delay, the largest delay and the undefined shift in turn. Updates are not
  bounded.
- *definitions*: a message whose two dependencies share one, a service that uses both, and
  an action two of whose generated types are topics; two files are built or rebuilt while
  the bridge runs, one may be missing at the start, and the graph changes three
  times: a search can fail half way, start over as IDL, and find a part cached from
  before. One version has an action without a goal, another a field type that is not in
  the list of primitive types.
- *lifecycle*: five scenarios (`MCBudgets`), chosen together with the initial state. Three
  are of one client, without an end: two publishers with three messages and two requests,
  a latched one with one message and four requests (a client logs in, subscribes,
  unsubscribes and subscribes again), a best-effort one with one message, two requests
  and two notices that share the send queue with it. Two are of two connections, one of them silent, with a shutdown in the middle
  of one or two requests, with or without a notice.
  Messages and shutdown only meet in that both use the tables, which `misuse` records
  for every callback. Depths run from 1 to 3, so that the sum of two publishers stays
  within the limit and that of no publisher is raised to the least.
- *parameter_requests*: two of eleven requests in sequence, nodes of which one is the
  bridge itself and one has an invalid name, one node fault. The requests name a parameter
  off the whitelist, one of the invalid node, a read-only one, one twice, one to be deleted, an integer out of range, a value that
  cannot be converted, and none at all. The conversions are checked in the same run for
  all values up to arrays of two, and base64 for all strings of up to four of the bytes
  `Byte`, whose bits differ in every position of a group.

### Fairness

The poll thread only waits for the graph event (weak fairness of its steps). The
handler thread takes its next step (weak fairness), a request has finitely many
items and a first-in first-out queue gets to every close callback (strong fairness of
`RequestDone` and `Close`: further requests may come in between). Workers of
the callback queue and `stop` are scheduled when they can go on; spurious wakeups are
possible and not assumed, and nobody is assumed to call `stop` or `add_callback`.
In ROS 1 the timer fires and its callback goes on (weak fairness of `Update`), and the
update gets `services_mutex_` when it is free again and again (strong fairness of
`ServicesErase`). No service is assumed to answer: `MasterIsFollowed` speaks of the
behaviours in which calls end again and again, and no send threw. Clients are not
assumed to do anything.
`ChannelsFollowGraph` is checked with `QueryMayFail = FALSE`: when the query throws
after `check_and_clear`, the code waits for the next change of the graph.
In `ParameterRequests` the handler thread and the tasks go on, a timeout included (weak
fairness); no node is assumed to answer or to be there. In `Lifecycle` the threads of the
process go on when they can (weak fairness of the main, HTTP, poll, executor, network and
handler threads); no client is assumed to answer a close frame, to read, or to leave.

### What the violations show

`unsubscribed_id`: a channel goes between `SubscribeCall` and `SubscribeStore`. The stored entry outlives
its channel; when the client unsubscribes, the bridge throws and the entry, with its id,
stays. The document says "After unsubscribing, the client may reuse the id."

`graph_subscribers`: one client is subscribed to the connection graph when another one
subscribes. `handle_subscribe_connection_graph` counts it, sends it the graph, and marks
it only if the count has become one; so the next update goes to the first client alone.
The document says of the request "Subscribe to connection graph updates."

### Exceptions that passing properties name

Where the code keeps a promise except in some cases, the property names the cases, and
TLC shows that there are no others; so does TLAPS, for all but `CacheTransparent`,
`AdvertisedUpToDate`, `ShutdownCompletes` and `ValuesReturn`.

- `OnlyLoginOutdates`: the copy that `handle_login` sends may be older than an
  unadvertise message the client got before it.
- `OnlyFailuresLeaveStale`: an exception after `check_and_clear` loses the change.
- `WatchedWhileCounted`: the bridge may watch for nobody, since a subscriber that is counted
  and not marked stays counted when it leaves.
- `MarkedClientsCatchUp`: the marked client is up to date unless the older of two queries
  was stored last (`behind`) or its snapshot was sent after a difference that is newer
  (`crossed`).
- `TablesAgree` of `ParameterSubscriptions`: `operator[]` in the event callback puts back an
  entry that `unsubscribe_params` has erased, and the next subscriber finds an entry and
  creates no ROS subscription; `subscribe_params` returns at the first parameter off the
  whitelist, or throws at a node it can make no client for, and leaves the rest of its
  list undone. Each makes a node `spoiled`. `unsubscribe_params` erases the result of `find`
  without comparing it with `end()`: that is undefined (`crashed`) after one of these, or
  when a client unsubscribes a parameter it had not subscribed (`astray`).
- `RecordsAgree`, `NothingLeftBehind`: `handle_advertise` calls the bridge before it looks up
  the client, so a connection without a login leaves publishers behind (`early`). And an
  advertisement that the bridge refuses leaves an empty entry in
  `_client_advertised_topics`, which nothing removes when the client goes (`refused`).
- `MasterIsFollowed`: not after a send that threw in the timer callback, nor while a service
  call does not return.
- `SteadyEntriesKept`: a failing `getSystemState` withdraws all services, which come back
  under new ids, whereas a failing `getTopics` withdraws no channel. `GraphNotBlanked`:
  without the services capability, a graph subscriber that arrives during an update makes
  it store an empty graph. `BackOffGrows`: after as many updates as `size_t` has bits the
  back-off may start over.
- `CacheTransparent`, `AdvertisedUpToDate`: a definition that was cached is never read again,
  so after a rebuild old and new sections meet in one schema; a topic that was advertised
  with an empty schema keeps it after its package is built.
- `DroppedOnlyMidway`: a latched message that arrives between the call of the bridge and the
  store of `handle_subscribe` is dropped; so is one that was taken before the ROS
  subscription went and is looked up after.
- `OrderKept`: two executor threads that hold messages of one subscription may send them in
  either order (`overtaken`). The order is that of one subscription: a client that
  subscribes again gets a latched message again.
- `ShutdownCompletes`: `Server::stop` closes only the clients in `_clients`; with none there and a
  connection open, it waits for the network thread until that connection ends (`unseen`);
  and the stop of a callback queue may join a worker that missed it (`missed`).
  `MisuseOnlyOfLeftovers`: the callback queue is the last member to go, so callbacks left
  in it run after the tables they use were destroyed.
- `LateMessagesBounded`: `send_message` reads the id with the mutex and sends without it, so a
  client may get as many messages under an old id as the executor has threads.
- `ReadBackIsFresh`: the answer to a set may show the old value where the set timed out, and
  that set may be carried out later (`lost`).
- `AnsweredNodesComplete`: a request is answered with an error and no values if it names a node
  whose name is not valid, has a value that cannot be converted, or asks for everything
  while a node goes (`Fails`).
- `ValuesReturn`: an empty array comes back without a type; in ROS 1 so does an empty
  container at any depth, and a whole double that is neither the value itself nor in an
  array of doubles comes back as an integer. A double that is not finite is written as
  null and comes back unset, or makes an array an error; one that a client writes as an
  integer from 2^63 up to 2^64 comes back with the wrong sign.

One more has no property: `handle_unsubscribe_parameter_updates` does nothing for an empty
list, where the document says "leave empty to unsubscribe from all parameter updates".

## 4. Proofs

A theorem holds for all sets of connections, topics, services, parameters, nodes,
channels, workers and calls, finite or not, and for all bounds, as far as the named
assumption on the constants of its module says no more (`SessionConstants`,
`GraphConstants`, ...). Most of these only say that `None` is nothing else and that bounds
are numbers. Three say more:

- `DeliveryConstants`: the executor has finitely many threads, which `LateMessagesBounded`
  counts, and a topic finitely many publishers, whose depths are added up.
- `ShiftDoubles` (`Ros1Bridge`): the arithmetic of powers of two up to `Width`, which the
  provers do not know. `DelaysGrow` uses it, and TLC evaluates it.
- `RequestConstants`: requests are of the two kinds, and a value is a number, no value, or
  one that cannot be converted; the bridge's own node has a valid name.

| module | theorem | statement |
|---|---|---|
| `ChannelSessionsProofs` | `Invariance`, `TypeCorrectness` | `Spec => []IInv`, `Spec => []TypeOK` |
| | `SingleLogin` | `Spec => []AtMostOneLogin` |
| | `NoMissedChannel` | `Spec => []ClientsKnowChannels` |
| | `Agreement` | `Spec => []SubscriptionsAgree` |
| | `IdsNotReused` | `Spec => ChannelIdsNotReused` |
| | `FollowInvariance` | `Spec => [](FollowInv /\ ToldInv)` |
| | `ChannelsUpToDate` | `Spec => []OnlyFailuresLeaveStale` |
| | `OutdatedFromLogin` | `Spec => OnlyLoginOutdates` |
| `ConnectionGraphProofs` | `GraphInvariant`, `GraphTypeOK` | `Spec => []IInv`, `Spec => []TypeOK` |
| | `GraphWatched` | `Spec => []WatchedWhileCounted` |
| | `GraphCatchUp` | `Spec => []MarkedClientsCatchUp` |
| `ParameterSubscriptionsProofs` | `ChangesArrive` | `Spec => []ChangesReachSubscribers` |
| | `TablesKept` | `Spec => []TablesAgree` |
| `ServiceCallsProofs` | `ServicesTold` | `Spec => []ClientsKnowServices` |
| | `ServicesAgree` | `Spec => []BridgeKnowsServices` |
| | `CallsAnsweredOnce` | `Spec => []AnswersMatchCalls` |
| | `CallsKept` | `Spec => []NoCallForgotten` |
| `Ros1BridgeProofs` | `Invariance` | `Spec => []IInv` |
| | `TablesFollow` | `Spec => []TablesAgree` |
| | `GraphKept` | `Spec => []GraphNotBlanked` |
| | `EntriesKept` | `Spec => SteadyEntriesKept` |
| | `DelaysGrow` | `Spec => BackOffGrows` |
| `LifecycleProofs` | `EndInvariance`, `SendInvariance` | `Spec => []EndInv`, `Spec => []SendInv` |
| | `ThreadsJoined` | `Spec => []NothingOutlives` |
| | `OnlyLeftovers` | `Spec => []MisuseOnlyOfLeftovers` |
| | `FewLateMessages` | `Spec => []LateMessagesBounded` |
| | `OnlyMidway` | `Spec => DroppedOnlyMidway` |
| `DeliveryProofs` | `WayInvariance`, `OrderInvariance` | `Spec => [](WayType /\ WayInv)`, `Spec => []OrderInv` |
| | `ReliableArrive` | `Spec => []ReliableKept` |
| | `InOrderArrive` | `Spec => []OrderKept` |
| `HandlerProofs` | `RequestInvariance` | `Spec => []RequestInv`, of `ParameterRequests` |
| | `WhitelistHolds` | `Spec => []WhitelistGuards` |
| | `ReadBackFresh` | `Spec => []ReadBackIsFresh` |
| | `AnswersComplete` | `Spec => []AnsweredNodesComplete` |
| | `QueueInvariant`, `QueueTypeOK` | `Queue!Spec => []QueueInv`, `Queue!Spec => []Queue!TypeOK` |
| | `QueueWaitDelivers` | `Queue!Spec => []Queue!WaitDelivers` |
| | `QueueIsFifo` | `Queue!Spec => Queue!Fifo!Spec` |
| | `PublicationInvariant`, `PublicationTypeOK` | `Publications!Spec => []PublicationInv`, `... => []Publications!TypeOK` |
| | `PublicationRecordsAgree` | `Publications!Spec => []Publications!RecordsAgree` |
| | `PublicationNothingLeft` | `Publications!Spec => []Publications!NothingLeftBehind` |
| | `PublicationAccepted` | `Publications!Spec => []Publications!AcceptedIsPublished` |

None of these properties is inductive as it stands: they speak of moments when a mutex is
free, a thread idle or an answer sent, and what makes them true happens in between. Each
proof has an invariant that says what holds at every position of every thread, and one
lemma per conjunct with a case for each action that can disturb it.

*ChannelSessions.*

- `HandlerInv`, `ClientInv`: what the handler's position says about its local variables,
  and that only clients have subscriptions.
- `ChannelInv`: the bridge knows exactly the server's channels but for the fresh ones.
- `UnusedInv`: nobody is subscribed to an id that is not assigned yet or still fresh.
  Without it a subscription left over for such an id would appear when the bridge
  learns of the channel.
- `AgreementInv`: the two tables agree up to the one item the handler works on, position
  by position.
- `ViewInv`: a client that logs in has been told of every channel, or the missing ones are
  in the copy `handle_login` is about to send.
- `FollowInv`: how far the poll thread has brought the ROS graph into the tables at each of
  its positions (unless a query threw, what it has not brought there is announced by the
  event). `ToldInv`: only open connections know of channels.

*ConnectionGraph.* `CountInv` gives the count, the mark and the bridge's flag at every
position of the handler. `LeakInv` says that a client which knows of the graph without
being marked has a subscription in the count that nothing takes out: this is why a
fresh first subscriber starts with everybody's view empty. `GraphInv` follows the graph
queried last through the local variables of the two threads, and `ViewInv` says what a
client knows once the messages under way have been sent.

*ParameterSubscriptions.* `HandInv` says what the handler thread has in hand at each position.
For `ChangesArrive`, `DueInv`: a change that a client is to be told of waits in the queue of
its node or is with the executor, and the client is still subscribed. For `TablesKept`,
`EntryInv` (an entry goes with a ROS subscription), `WantedInv` (nothing is followed that
nobody subscribed), `FollowedInv` (what is subscribed is followed) and `EraseInv` (what is
about to be erased is there), each up to the parameters in the handler's hand and the
nodes that are `spoiled`. The last holds until a parameter is `astray`, and is why an
iterator past the end is never erased before one of the two has happened.

*ServiceCalls.* First the tables: `UpdateInv` (server and bridge differ by what the update has
in hand, and the mutex says who is at work), `NameInv`, `HandlerInv`, `ViewInv`. Then
`RequestInv`: whoever answers a request finds it pending, or the request is the one that
the handler has sent and not stored yet, and the answer waits for the mutex. Then the
calls: a call is in at most one place (`PlaceInv`: with the handler, in
`pending_requests_`, with an executor thread, in the queue of assets, answered, refused),
once (`OnceInv`), for the service that was meant (`SentInv`), and in none only when its
client has gone (`KeptInv`). A step moves one call at most, so each kind of move is a
lemma about that call alone.

*Ros1Bridge.* `ChannelInv` and `ServiceInv` relate the tables of bridge and server at each
position of the update; `IdInv`: ids are given out in order and a name has one at a time;
`ListInv`: what the update erases was not on the list it got, and what has existed since
it began is on the list unless the query failed; `QueryInv`; `DelayInv`: the delay is that of
the last shift that was defined.

*Lifecycle.* `EndInv` follows the main thread: which threads run or were joined at each of
its positions (`ThreadInv`), that the network thread returns only after the acceptor was
closed (`NetworkInv`), that the clients that stop closes are closed once it has returned
(`ClosingInv`), and that nobody queues callbacks after stop (`LeftInv`). `SendInv` has
`LateInv`, which counts the messages sent under an old id together with the threads that
still hold one they have looked up, so that an unsubscribe moves a message from one side to the other, and
`TwoStepInv`, what the two steps of a request leave in the tables in between.

*MessageDelivery.* `WayInv`: what was pushed as reliable is what is reliable on the way (read,
being written, queued), and the close frame comes last. It rests on lemmas about the
operators of `SendQueue` (`Reliable`, `Thin`, `write_pop`, the frames), proved by induction over
queues. `OrderInv`: along the way, in the hands of the executor threads and in the history
of the subscription, the messages of one publisher to one subscription are in order, each
place before the next, unless a thread overtook another.

*ParameterRequests.* `RequestInv` says of every task, query and answer what it is good for:
`TaskOk`, `GetOk`, `SetOk`, `AnswerOk`. They bind what belongs to the call that is running. What is
left over from an earlier call is recognised by its number and may be anything: a late
answer is dropped and a late set is carried out, which is what `lost` allows for.

*CallbackQueue.* `MutexHeld` (a worker has the mutex exactly at three places of `do_work`) and
`RunningHeld` make `WaitDelivers` inductive: between the test of the predicate and the
take, nobody else can take the callback. From it follows the refinement: each step of
the implementation is a step of `CallbackFifo` or a stutter, with `queue`, `running` and `quit`
mapped to themselves.

*ClientPublications.* `RecordInv` relates the three records of each connection, `OwnerInv` says
who can have one, `HandlerInv` whom the handler serves, and `EntryInv` why the bridge has an
entry without publishers.

*Induction over data.* The library's induction theorems have an operator as a parameter and
cannot be used. `LifecycleProofs` instead has `Upwards` and `Lengthening`: a set with 0 and
with the successor of each of its numbers holds all numbers, and the same of sequences
with `Append`. They follow from the well-foundedness of the numbers, and an induction is
about the set of those numbers or sequences of which the claim is true. `HandlerProofs` has
`Upwards` too, and with it `Recursion`: a function that is given by its start and its steps
exists, as do those by which the model carries out a list of changes.

Only model-checked:

- every liveness property (`ChannelsFollowGraph`, `DepartedClientsForgotten`,
  `StopReturnsUnlessMissed`, `MasterIsFollowed`, `ShutdownCompletes`, `RequestsEnd`) and the fairness of
  the refinement of `CallbackFifo`: the prover does not reason about fairness;
- `SchemasComplete`, `CacheTransparent` and `AdvertisedUpToDate`: the definition search is recursive;
- `ValuesReturn`: the conversions are recursive, too;
- `KnownPublishersHeard`.

## 5. Not modelled

- The components with status `not_modelled` in `PROJECT.json`: logging, TLS, the factory and
  the type support, which have no protocol of their own, and the JSON text of channels,
  services and status messages.
- The greeting of `handle_connection_opened`, which walks `_clients` on the network thread
  without the mutex: a data race whose result is only logged or sent as text.
- `incompatible_qos_callback` (`ros2_bridge.cpp:565`), which holds references into
  `_advertised_topics` beyond their life and only logs.
- An exception of the first update of the poll thread, which is outside its `try` block
  (`ros2_bridge.cpp:242`) and would end the process: the model treats it as an iteration.
- Failures of `start` after it has created its thread (`websocket_server.hpp:414`) and of
  `get_port`; the set-up and the end of the ROS 1 nodelet.
- The clock subscription, the contents of messages, the contents of files.
- Publishers that appear after a client has subscribed: the QoS is not chosen anew, and
  `KnownPublishersHeard` speaks of the others only.
- The parameter event callback does not look at the node an event comes from; the model
  gives each node its own events.

## 6. Plan

1. Proofs of `MessageDefinitions`, which need its recursive search written as steps of a
   state machine, and of `KnownPublishersHeard`.
2. `Lifecycle` with the steps of `CallbackQueue` in place of `CallbackFifo` and `missed`.
3. Messages and shutdown together in one scenario of `MCLifecycle`, when a larger bound
   is affordable. The proofs have no such split.
