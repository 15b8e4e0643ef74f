-------------------------- MODULE ParameterRequests --------------------------
(***************************************************************************)
(* getParameters and setParameters.  The ROS 2 bridge asks every node      *)
(* concerned in a task of its own, with a timeout, and merges what comes   *)
(* back (parameter_interface.cpp); the ROS 1 bridge asks the master, one   *)
(* parameter after the other (ros1_bridge_nodelet.cpp).  The handler       *)
(* thread serves one request at a time and holds the mutex throughout.     *)
(*                                                                         *)
(* A node that has not answered in time may still do what it was asked.    *)
(***************************************************************************)
EXTENDS Naturals, Sequences, Functions

CONSTANTS
    Param, NodeOf,   \* parameters and the node of each
    Self,            \* the node of the bridge
    BadNode,         \* names a client may give that no node can have
    White,           \* parameters that match the whitelist
    ReadOnly,        \* parameters their node refuses to change
    Unset, Bad,      \* PARAMETER_NOT_SET, and a value to_ros_param throws for
    IntRange,        \* how many values the int of ROS 1 has
    Start,           \* the values before the first request
    Requests,        \* what clients may ask for
    None,            \* nothing
    MaxRequests, MaxFaults   \* bounds: requests, nodes that stop or come back

ASSUME RequestConstants ==
    /\ White \subseteq Param
    /\ Self \notin BadNode
    /\ IntRange \in Nat \ {0}
    /\ Start \in [Param -> Nat \cup {Unset}] /\ Unset \notin Nat
    /\ Requests \subseteq
         [op : {"get", "set"}, names : SUBSET Param, withId : BOOLEAN,
          changes : Seq([param : Param, value : Nat \cup {Unset, Bad}])]
    /\ None \notin Requests

Node == {NodeOf[p] : p \in Param}

VARIABLES
    ros1,      \* whether the bridge is the one for ROS 1
    value,     \* the value of each parameter
    changes,   \* how often it was changed
    ready,     \* nodes whose parameter services are there
    asked,     \* requests each node has not handled: get and list, and set
    answers,   \* answers that were not waited for yet
    req,       \* the request that is served
    phase,     \* where it is: "set_params" or "get_params", "services", the call "set" or "get"
    call,      \* number of the call
    listed,    \* the nodes get_node_names gave
    task,      \* the task for each node
    requests, faults,
    own,       \* changes the request has made, and which change of the parameter each is
    lost,      \* parameters it could not set, or is not known to have set
    unset,     \* parameters that have been without a value
    left,      \* nodes that stopped while the request was served
    sent       \* the last answer, and whether an error was reported

nodeVars == <<value, changes, ready, asked, answers, faults>>
reqVars == <<req, phase, call, listed, requests>>
callVars == <<reqVars, task>>
histVars == <<own, lost, unset, left, sent>>
vars == <<ros1, nodeVars, callVars, histVars>>

(* The int of ROS 1: to_ros_param casts an integer to it. *)
to_int(v) == IF v = Unset THEN Unset ELSE v % IntRange

Idle == [at |-> "none", result |-> {}]

Init ==
    /\ ros1 \in BOOLEAN
    /\ value = [p \in Param |-> IF ros1 THEN to_int(Start[p]) ELSE Start[p]]
    /\ changes = [p \in Param |-> 0]
    /\ ready = Node \ BadNode
    /\ asked = [n \in Node |-> [get |-> {}, set |-> <<>>]]
    /\ answers = {}
    /\ req = None /\ phase = "idle" /\ call = 0 /\ listed = {}
    /\ task = [n \in Node |-> Idle]
    /\ requests = 0 /\ faults = 0
    /\ own = {} /\ lost = {} /\ left = {} /\ sent = None
    /\ unset = {p \in Param : Start[p] = Unset}

-----------------------------------------------------------------------------
(* A request is a get of a set of names, or a set of a sequence of         *)
(* parameters and values; withId tells whether it has an id.               *)
Named(r) == IF r.op = "get" THEN r.names ELSE {x.param : x \in Range(r.changes)}

Sent(answered, values, error) ==
    sent' = [req |-> req, answered |-> answered, values |-> values, error |-> error,
             own |-> own', lost |-> lost', left |-> left,
             done |-> {n \in Node : task[n].at = "done"}]

Reply(values, error) == Sent(TRUE, values, error)
NoReply(error) == Sent(FALSE, {}, error)

Tasks(N) == [n \in Node |-> IF n \in N THEN [at |-> "start", result |-> {}] ELSE Idle]

Finish == req' = None /\ phase' = "idle" /\ listed' = {} /\ task' = Tasks({})

Receive(r) ==
    /\ req = None /\ requests < MaxRequests
    /\ req' = r /\ requests' = requests + 1
    /\ own' = {} /\ lost' = {} /\ left' = {} /\ sent' = None
    /\ phase' = IF r.op = "set" THEN "set_params" ELSE "get_params"
    /\ UNCHANGED <<ros1, nodeVars, call, listed, task, unset>>

-----------------------------------------------------------------------------
(* set_params. *)

(* The elements of cs that are in S, in their order. *)
Selected(cs, S) ==
    LET upto[k \in 0 .. Len(cs)] ==
            IF k = 0 THEN <<>>
            ELSE IF cs[k] \in S THEN Append(upto[k - 1], cs[k])
            ELSE upto[k - 1]
    IN  upto[Len(cs)]

(* Mutant of Accepted: parameters off the whitelist are left out. *)
AcceptedOnly(cs) == Selected(cs, {x \in Range(cs) : x.param \in White})

(* Parameters are looked at in order: the first one off the whitelist ends *)
(* the call and nothing is set; one that cannot be converted throws.       *)
Accepted(cs) == IF \A x \in Range(cs) : x.param \in White THEN cs ELSE <<>>

Throws(cs) ==
    \E i \in 1 .. Len(cs) :
        cs[i].value = Bad /\ \A j \in 1 .. i : cs[j].param \in White

(* A task is started for each node, in no certain order.  The client of a  *)
(* node with an invalid name cannot be made: that throws, once the tasks   *)
(* started before it, those of M, are through.                             *)
Called ==
    IF phase \in {"set_params", "set"} THEN {NodeOf[x.param] : x \in Range(Accepted(req.changes))}
    ELSE IF Named(req) # {} THEN {NodeOf[p] : p \in Named(req)} \ {Self}
    ELSE listed

Broken == Called \cap BadNode # {}

StartTasks ==
    \E M \in SUBSET (Called \ BadNode) : (Broken \/ M = Called) /\ task' = Tasks(M)

set_params ==
    /\ ~ros1 /\ phase = "set_params"
    /\ ~Throws(req.changes)
    /\ StartTasks
    /\ phase' = "set" /\ call' = call + 1
    /\ UNCHANGED <<ros1, nodeVars, req, listed, requests, histVars>>

set_params_throws ==
    /\ ~ros1 /\ phase = "set_params"
    /\ UNCHANGED <<ros1, nodeVars, call, requests, own, lost, unset, left>>
    /\ Throws(req.changes)
    /\ NoReply(TRUE) /\ Finish

(* get_params: the nodes of the names, or all nodes with the services; the *)
(* own node is left out.  The services of all nodes are queried after      *)
(* get_node_names; the query throws if the node is gone by then.           *)
get_node_names ==
    /\ ~ros1 /\ phase = "get_params" /\ Named(req) = {}
    /\ listed' = ready \ {Self}
    /\ phase' = "services"
    /\ UNCHANGED <<ros1, nodeVars, req, call, task, requests, histVars>>

get_params ==
    /\ ~ros1
    /\ \/ phase = "get_params" /\ Named(req) # {}
       \/ phase = "services" /\ listed \subseteq ready
    /\ StartTasks
    /\ phase' = "get" /\ call' = call + 1 /\ listed' = {}
    /\ UNCHANGED <<ros1, nodeVars, req, requests, histVars>>

get_params_throws ==
    /\ ~ros1 /\ phase = "services" /\ ~(listed \subseteq ready)
    /\ UNCHANGED <<ros1, nodeVars, call, requests, own, lost, unset, left>>
    /\ NoReply(TRUE) /\ Finish

-----------------------------------------------------------------------------
(* A task: set_node_parameters or get_node_parameters. *)
At(n, at, result) == task' = [task EXCEPT ![n] = [at |-> at, result |-> result]]

Ask(n, kind, names) ==
    asked' = [asked EXCEPT ![n].get = @ \cup {[kind |-> kind, call |-> call, names |-> names]}]

Mine(n, kind) == {a \in answers : a.node = n /\ a.call = call /\ a.kind = kind}

TaskStart(n) ==
    /\ task[n].at = "start"
    /\ LET names == {p \in Named(req) : NodeOf[p] = n}
           cs == Selected(Accepted(req.changes),
                          {x \in Range(req.changes) : NodeOf[x.param] = n})
       IN  \/ n \notin ready /\ At(n, "failed", {}) /\ UNCHANGED asked
           \/ /\ n \in ready /\ phase = "set"
              /\ asked' = [asked EXCEPT ![n].set =
                              Append(@, [call |-> call, by |-> requests, changes |-> cs])]
              /\ At(n, "set", {})
           \/ /\ n \in ready /\ phase = "get" /\ names # {}
              /\ Ask(n, "get", names) /\ At(n, "get", {})
           \/ /\ n \in ready /\ phase = "get" /\ names = {}
              /\ Ask(n, "list", {}) /\ At(n, "list", {})
    /\ UNCHANGED <<ros1, value, changes, ready, answers, faults, reqVars, histVars>>

Allowed(values) == {v \in values : v.param \in White}

TaskAnswer(n) ==
    \E a \in Mine(n, task[n].at) :
        /\ answers' = answers \ {a}
        /\ IF a.kind = "list"
             THEN Ask(n, "get", a.names) /\ At(n, "get", {})
             ELSE At(n, "done", Allowed(a.values)) /\ UNCHANGED asked
        /\ UNCHANGED <<ros1, value, changes, ready, faults, reqVars, histVars>>

(* Mutant of TaskTimeout: names that do not come are asked for again. *)
TaskTimeoutRetry(n) ==
    /\ task[n].at \in {"list", "get", "set"} /\ Mine(n, task[n].at) = {}
    /\ At(n, IF task[n].at = "list" THEN "start" ELSE "failed", {})
    /\ UNCHANGED <<ros1, nodeVars, reqVars, histVars>>

TaskTimeout(n) ==
    /\ task[n].at \in {"list", "get", "set"} /\ Mine(n, task[n].at) = {}
    /\ At(n, "failed", {})
    /\ UNCHANGED <<ros1, nodeVars, reqVars, histVars>>

-----------------------------------------------------------------------------
(* The futures are waited for in turn; the exception of one is logged.  A  *)
(* broken call waits for them in their destructors, and throws.            *)

(* Mutant of Joined: a set is not waited for. *)
JoinedGets ==
    phase = "set" \/ (phase = "get" /\ \A n \in Node : task[n].at \in {"none", "done", "failed"})

Joined ==
    phase \in {"set", "get"} /\ \A n \in Node : task[n].at \in {"none", "done", "failed"}

(* Mutant of Merged: the exception of one task ends the loop. *)
MergedAll ==
    IF \E n \in Node : task[n].at = "failed" THEN {} ELSE UNION {task[n].result : n \in Node}

Merged == UNION {task[n].result : n \in Node}

(* set_parameters of the bridge reads back what it set if there is an id. *)
SetJoin ==
    /\ Joined /\ phase = "set"
    /\ UNCHANGED <<ros1, nodeVars, call, requests, own, unset, left>>
    /\ lost' = {p \in Named(req) : task[NodeOf[p]].at \in {"none", "failed"}}
    /\ \/ /\ req.withId /\ ~Broken
          /\ phase' = "get_params" /\ task' = Tasks({}) /\ UNCHANGED <<req, listed, sent>>
       \/ ~req.withId /\ ~Broken /\ Finish /\ NoReply(FALSE)
       \/ Broken /\ Finish /\ NoReply(TRUE)

(* publish_parameter_values leaves out what is not set. *)
GetJoin ==
    /\ Joined /\ phase = "get"
    /\ UNCHANGED <<ros1, nodeVars, call, requests, own, lost, unset, left>>
    /\ \/ ~Broken /\ Reply({v \in Merged : v.value # Unset}, FALSE)
       \/ Broken /\ NoReply(TRUE)
    /\ Finish

-----------------------------------------------------------------------------
(* Nodes.  A change is counted; a node refuses what is read-only. *)
Change(st, x) ==
    IF x.param \in ReadOnly THEN st
    ELSE [value |-> [st.value EXCEPT ![x.param] = x.value],
          changes |-> [st.changes EXCEPT ![x.param] = @ + 1],
          own |-> st.own \cup {[param |-> x.param, n |-> st.changes[x.param] + 1]}]

Applied(st, cs) ==
    LET upto[k \in 0 .. Len(cs)] ==
            IF k = 0 THEN st ELSE Change(upto[k - 1], cs[k])
    IN  upto[Len(cs)]

Changed(cs, ours) ==
    LET st == Applied([value |-> value, changes |-> changes, own |-> own], cs)
    IN  /\ value' = st.value /\ changes' = st.changes
        /\ own' = IF ours THEN st.own ELSE own
        /\ unset' = unset \cup {p \in Param : st.value[p] = Unset}

(* An answer comes in time, or after the timeout, when nobody waits for it *)
(* any more.                                                               *)
Answers(a) ==
    answers' \in {answers} \cup
        (IF a.call = call /\ task[a.node].at = a.kind THEN {answers \cup {a}} ELSE {})

(* The sets of the bridge reach a node in order. *)
NodeSets(n) ==
    LET s == Head(asked[n].set)
    IN  /\ n \in ready /\ asked[n].set # <<>>
        /\ asked' = [asked EXCEPT ![n].set = Tail(@)]
        /\ Changed(s.changes, s.by = requests)
        /\ Answers([node |-> n, call |-> s.call, kind |-> "set", names |-> {}, values |-> {}])
        /\ UNCHANGED <<ros1, ready, faults, callVars, lost, left, sent>>

(* A node asked for a parameter it does not have leaves it out, or answers *)
(* with nothing at all.                                                    *)
NodeGets(n) ==
    \E g \in asked[n].get :
        LET set == {p \in Param : NodeOf[p] = n /\ value[p] # Unset}
            V == {[param |-> p, value |-> value[p], at |-> changes[p]] : p \in g.names \cap set}
        IN  /\ n \in ready
            /\ asked' = [asked EXCEPT ![n].get = @ \ {g}]
            /\ \E W \in {V} \cup (IF g.names \subseteq set THEN {} ELSE {{}}) :
                 Answers([node |-> n, call |-> g.call, kind |-> g.kind,
                          names |-> IF g.kind = "list" THEN set ELSE {}, values |-> W])
            /\ UNCHANGED <<ros1, value, changes, ready, faults, callVars, histVars>>

(* A node stops, with what it was asked, or is there again as it started. *)
NodeFault(n) ==
    /\ faults < MaxFaults /\ n \notin BadNode \cup {Self} /\ ~ros1
    /\ faults' = faults + 1
    /\ left' = IF n \in ready /\ req # None THEN left \cup {n} ELSE left
    /\ ready' = IF n \in ready THEN ready \ {n} ELSE ready \cup {n}
    /\ asked' = [asked EXCEPT ![n] = [get |-> {}, set |-> <<>>]]
    /\ value' = [p \in Param |-> IF NodeOf[p] = n THEN Start[p] ELSE value[p]]
    /\ UNCHANGED <<ros1, changes, answers, callVars, own, lost, unset, sent>>

-----------------------------------------------------------------------------
(* The ROS 1 bridge. *)

Ros1Values(names) ==
    {[param |-> p, value |-> value'[p], at |-> changes'[p]] :
        p \in {q \in names : value'[q] # Unset}}

(* Names off the whitelist are skipped when all parameters are asked for;  *)
(* those asked for by name are reported as an error, and read all the      *)
(* same.  A parameter without a value is an error, and one whose call to   *)
(* the master fails (F).                                                   *)
Ros1Answer(names, failed) ==
    LET all == {p \in White : value'[p] # Unset}
        N == IF names = {} THEN all ELSE names
    IN  \E F \in SUBSET N :
            Reply(Ros1Values(N \ F),
                  failed \/ F # {} \/ \E p \in N : value'[p] = Unset \/ p \notin White)

Ros1Get ==
    /\ ros1 /\ phase = "get_params"
    /\ UNCHANGED <<ros1, nodeVars, call, requests, own, lost, unset, left>>
    /\ Ros1Answer(Named(req), FALSE)
    /\ Finish

(* The names of all parameters cannot be had. *)
Ros1GetThrows ==
    /\ ros1 /\ phase = "get_params" /\ Named(req) = {}
    /\ UNCHANGED <<ros1, nodeVars, call, requests, own, lost, unset, left>>
    /\ NoReply(TRUE) /\ Finish

(* What is off the whitelist, cannot be converted or throws (F) is an      *)
(* error; the rest is set, and read back with get_parameters, which may    *)
(* throw, if there is an id.  The master may refuse a call without an      *)
(* exception (S).                                                          *)
Ros1Set ==
    /\ ros1 /\ phase = "set_params"
    /\ UNCHANGED <<ros1, ready, asked, answers, faults, call, requests, left>>
    /\ \E F \in SUBSET Named(req) : \E S \in SUBSET (Named(req) \ F) :
         LET bad == {x \in Range(req.changes) : x.param \notin White \ F \/ x.value = Bad}
             cs == Selected(req.changes, {x \in Range(req.changes) \ bad : x.param \notin S})
         IN  /\ Changed([i \in DOMAIN cs |-> [cs[i] EXCEPT !.value = to_int(@)]], TRUE)
             /\ lost' = S \cup {x.param : x \in bad}
             /\ \/ ~req.withId /\ NoReply(bad # {})
                \/ req.withId /\ Ros1Answer(Named(req), bad # {})
                \/ req.withId /\ Named(req) = {} /\ NoReply(TRUE)
    /\ Finish

-----------------------------------------------------------------------------
Task(n) == TaskStart(n) \/ TaskAnswer(n) \/ TaskTimeout(n)

Handler ==
    \/ set_params \/ set_params_throws
    \/ get_node_names \/ get_params \/ get_params_throws
    \/ SetJoin \/ GetJoin \/ Ros1Get \/ Ros1GetThrows \/ Ros1Set

(* No request is left, or may be made. *)
Exhausted == req = None /\ requests = MaxRequests /\ UNCHANGED vars

Next ==
    \/ \E r \in Requests : Receive(r)
    \/ Handler
    \/ \E n \in Node : Task(n) \/ NodeSets(n) \/ NodeGets(n) \/ NodeFault(n)
    \/ Exhausted

Spec == Init /\ [][Next]_vars

(* The threads of the bridge are scheduled, and waits have a timeout.      *)
(* Nothing obliges a node to answer.                                       *)
FairSpec == Spec /\ WF_vars(Handler) /\ \A n \in Node : WF_vars(Task(n))

-----------------------------------------------------------------------------
(* Every variable has the type of the field or message it stands for. *)
TypeOK ==
    /\ req \in Requests \cup {None}
    /\ phase \in {"idle", "set_params", "set", "get_params", "services", "get"}
    /\ \A p \in Param : value[p] \in Nat \cup {Unset} /\ changes[p] \in Nat
    /\ ros1 => \A p \in Param : value[p] \in (0 .. IntRange - 1) \cup {Unset}
    /\ ready \subseteq Node \ BadNode
    /\ \A n \in Node :
         /\ task[n].at \in {"none", "start", "list", "get", "set", "done", "failed"}
         /\ \A v \in task[n].result : NodeOf[v.param] = n
    /\ \A a \in answers : a.node \in Node /\ a.call \in 1 .. call

(* What is off the whitelist is never changed.  In ROS 2 a setParameters   *)
(* request that names such a parameter changes nothing at all, also not at *)
(* other nodes; in ROS 1 the rest of it is carried out.  An answer has     *)
(* only what was asked for, and in ROS 2 only what is on the whitelist,    *)
(* also where the names came from the node.                                *)
WhitelistGuards ==
    /\ TypeOK
    /\ \A p \in Param \ White : changes[p] = 0
    /\ ~ros1 /\ req # None /\ req.op = "set" /\ ~(Named(req) \subseteq White) => own = {}
    /\ sent # None =>
         \A v \in sent.values :
             /\ Named(sent.req) = {} \/ v.param \in Named(sent.req)
             /\ ~ros1 => v.param \in White

(* What a request with an id reads back was read after what it set was     *)
(* set: a client never takes an old value for the outcome.  The exceptions *)
(* are a parameter its node refuses to change, which is answered with the  *)
(* value it keeps and no error, and one whose node was not ready or did    *)
(* not confirm in time: that one may be changed after the answer, or never.*)
ReadBackIsFresh ==
    sent # None /\ sent.req.op = "set" =>
        \A v \in sent.values :
            v.param \in Named(sent.req) \ (sent.lost \cup ReadOnly)
              => \E o \in sent.own : o.param = v.param /\ o.n <= v.at

(* Why the bridge of ROS 2 answers request r with an error and no values:  *)
(* it names a node that cannot exist, or has a value that cannot be        *)
(* converted, or asks for everything and one of the nodes L went away      *)
(* while it was served.                                                    *)
Fails(r, L) ==
    \/ \E p \in Named(r) : NodeOf[p] \in BadNode
    \/ \E x \in Range(r.changes) : x.value = Bad
    \/ Named(r) = {} /\ L # {}

(* A node that is down, slow or unknown costs an answer of get_params only *)
(* its own parameters: those of every node that answered are there, as     *)
(* long as none of them was ever without a value.  The whole answer is     *)
(* lost, with an error, for the causes of Fails and no others; a           *)
(* setParameters request without an id has no answer.                      *)
AnsweredNodesComplete ==
    sent # None /\ ~ros1 =>
        /\ ~sent.answered =>
             \/ sent.error /\ Fails(sent.req, sent.left)
             \/ ~sent.error /\ sent.req.op = "set" /\ ~sent.req.withId
        /\ sent.answered => \A p \in White :
             (/\ NodeOf[p] \in sent.done
              /\ \A q \in unset : NodeOf[q] # NodeOf[p]
              /\ Named(sent.req) = {} \/ p \in Named(sent.req))
               => \E v \in sent.values : v.param = p

(* The handler thread gets through every request, whichever nodes stop     *)
(* answering and when: no client waits for another one's node for ever.    *)
RequestsEnd == req # None ~> req = None
=============================================================================
