---------------------------- MODULE HandlerProofs ----------------------------
(***************************************************************************)
(* What the handler thread of the server does, for any number of clients,  *)
(* channels, nodes and parameters: how it serves getParameters and         *)
(* setParameters (ParameterRequests), the queue it takes its work from     *)
(* (CallbackQueue), and the records of what clients publish                *)
(* (ClientPublications).                                                   *)
(*                                                                         *)
(* None of the properties of ParameterRequests is inductive: they speak of *)
(* the answer that is sent, and what makes it right happened before, in    *)
(* tasks, queries and answers of nodes that may be late.  RequestInv says  *)
(* of each of them what it is good for: TaskOk of a task, GetOk and SetOk  *)
(* of what a node is asked, AnswerOk of an answer.  They bind what belongs *)
(* to the call that is running; what is left over from an earlier call is  *)
(* recognised by its number and may be anything.                           *)
(***************************************************************************)
EXTENDS ParameterRequests, WellFoundedInduction, TLAPS

USE Zenon

(* What nodes are asked, and what they answer. *)
Setting == [param : White, value : Nat \cup {Unset}]
Reading == [param : Param, value : Nat \cup {Unset}, at : Nat]
GetAsked == [kind : {"list", "get"}, call : Nat \ {0}, names : SUBSET Param]
SetAsked == [call : Nat \ {0}, by : Nat, changes : Seq(Setting)]
Answer == [node : Node, call : Nat \ {0}, kind : {"list", "get", "set"},
           names : SUBSET Param, values : SUBSET Reading]
Made == [param : Param, n : Nat]
Places == {"none", "start", "list", "get", "set", "done", "failed"}

TypeInv ==
    /\ ros1 \in BOOLEAN
    /\ value \in [Param -> Nat \cup {Unset}] /\ changes \in [Param -> Nat]
    /\ ready \subseteq Node \ BadNode
    /\ asked \in [Node -> [get : SUBSET GetAsked, set : Seq(SetAsked)]]
    /\ answers \subseteq Answer
    /\ req \in Requests \cup {None}
    /\ phase \in {"idle", "set_params", "set", "get_params", "services", "get"}
    /\ call \in Nat /\ requests \in Nat
    /\ task \in [Node -> [at : Places, result : SUBSET Reading]]
    /\ own \subseteq Made /\ unset \subseteq Param

(* Where a request can be. *)
PlaceInv ==
    /\ req = None <=> phase = "idle"
    /\ phase \in {"set_params", "set"} => req.op = "set"
    /\ phase \in {"set", "get"} => call # 0
    /\ phase = "services" => Named(req) = {}
    /\ phase # "services" => listed = {}

(* A listed node that is not there any more has left since. *)
ListedInv == \A n \in listed : n \notin BadNode /\ n \in ready \cup left

(* The bridge of ROS 1 has no tasks. *)
Ros1Inv ==
    ros1 =>
      /\ phase \in {"idle", "set_params", "get_params"}
      /\ phase = "get_params" => req.op = "get"
      /\ \A n \in Node : asked[n].set = <<>>
      /\ \A p \in Param : value[p] \in (0 .. IntRange - 1) \cup {Unset}

(* A request of ROS 2 that names what is off the whitelist. *)
Refused == ~ros1 /\ req # None /\ req.op = "set" /\ ~(Named(req) \subseteq White)

(* What has been changed. *)
OwnInv ==
    /\ \A o \in own : o.n <= changes[o.param]
    /\ \A p \in Param \ White : changes[p] = 0
    /\ \A p \in Param : value[p] = Unset \/ Start[p] = Unset => p \in unset
    /\ Refused => own = {}

(* The request has changed p. *)
Has(p) == \E o \in own : o.param = p

(* When it reads back, it has changed all that it does not count as lost. *)
ReadBackInv ==
    ~ros1 /\ phase \in {"get_params", "services", "get"} /\ req.op = "set" =>
      \A p \in Named(req) \ (lost \cup ReadOnly) : Has(p)

(* It has changed every parameter of n that it could. *)
Confirmed(n) == \A p \in Named(req) \ ReadOnly : NodeOf[p] = n => Has(p)

Wanted(p) == Named(req) = {} \/ p \in Named(req)
AlwaysSet(n) == \A q \in unset : NodeOf[q] # n

(* The names P of node n are wanted, and are all that are. *)
RightNames(n, P) ==
    /\ \A p \in P : NodeOf[p] = n /\ Wanted(p)
    /\ AlwaysSet(n) => \A p \in White : NodeOf[p] = n /\ Wanted(p) => p \in P

(* What n answered was asked for, has a value, and is not older than what  *)
(* the request has set.                                                    *)
RightValues(n, V) ==
    \A v \in V :
      /\ NodeOf[v.param] = n /\ Wanted(v.param) /\ v.value # Unset
      /\ req.op = "set" /\ v.param \in Named(req) \ (lost \cup ReadOnly) =>
           \E o \in own : o.param = v.param /\ o.n <= v.at

AllValues(n, V) ==
    AlwaysSet(n) => \A p \in White :
        NodeOf[p] = n /\ Wanted(p) => \E v \in V : v.param = p

(* The task for node n. *)
TaskOk(n, t) ==
    /\ phase \notin {"set", "get"} => t.at = "none"
    /\ phase # "get" => t.result = {}
    /\ phase = "set" =>
         /\ t.at \in {"none", "start", "set", "done", "failed"}
         /\ t.at # "none" => Range(req.changes) \subseteq Setting
         /\ t.at = "done" => Confirmed(n)
    /\ phase = "get" =>
         /\ t.at \in {"none", "start", "list", "get", "done", "failed"}
         /\ t.at # "none" => Named(req) = {} \/ \E p \in Named(req) : NodeOf[p] = n
         /\ RightValues(n, t.result)
         /\ \A v \in t.result : v.param \in White
         /\ t.at = "done" => AllValues(n, t.result)

(* What node n is asked for: a list or a get, a set. *)
GetOk(n, g) ==
    /\ g.call <= call
    /\ phase = "get" /\ g.call = call =>
         /\ g.kind = "list" => Named(req) = {}
         /\ g.kind = "get" => RightNames(n, g.names)

SetOk(n, s) ==
    /\ s.call <= call /\ s.by <= requests
    /\ Refused /\ s.by = requests => s.changes = <<>>
    /\ phase = "set" /\ s.call = call =>
         /\ s.by = requests
         /\ \A p \in Named(req) :
              NodeOf[p] = n => \E x \in Range(s.changes) : x.param = p

(* An answer. *)
AnswerOk(a) ==
    /\ a.call <= call
    /\ a.kind = "set" => a.values = {}
    /\ phase = "set" /\ a.call = call /\ a.kind = "set" => Confirmed(a.node)
    /\ phase = "get" /\ a.call = call =>
         /\ a.kind = "list" => Named(req) = {} /\ RightNames(a.node, a.names)
         /\ a.kind = "get" =>
              RightValues(a.node, a.values) /\ AllValues(a.node, a.values)

TasksInv == \A n \in Node : TaskOk(n, task[n])
AskedInv ==
    \A n \in Node : /\ \A g \in asked[n].get : GetOk(n, g)
                    /\ \A s \in Range(asked[n].set) : SetOk(n, s)
AnswersInv == \A a \in answers : AnswerOk(a)

(* What was sent is what the properties say. *)
SentInv ==
    /\ sent # None =>
         \A v \in sent.values :
             /\ Named(sent.req) = {} \/ v.param \in Named(sent.req)
             /\ ~ros1 => v.param \in White
    /\ ReadBackIsFresh /\ AnsweredNodesComplete

RequestInv ==
    /\ TypeInv /\ PlaceInv /\ ListedInv /\ Ros1Inv /\ OwnInv /\ ReadBackInv
    /\ TasksInv /\ AskedInv /\ AnswersInv /\ SentInv

-----------------------------------------------------------------------------
(* A set of numbers has a least one. *)
LEMMA Least ==
    ASSUME NEW S, S \subseteq Nat, S # {}
    PROVE  \E k \in S : \A j \in S : k <= j
<1> DEFINE R == OpToRel(<, Nat)
<1>1. PICK k \in S : \A j \in S : ~ (<<j, k>> \in R)
  BY NatLessThanWellFounded, WFMin
<1>2. ASSUME NEW j \in S PROVE k <= j
  <2>1. ~(<<j, k>> \in R) /\ j \in Nat /\ k \in Nat
    BY <1>1
  <2>2. j < k => <<j, k>> \in R
    BY <2>1, SMT DEF OpToRel
  <2>3. ~(j < k)
    BY <2>1, <2>2
  <2> HIDE DEF R
  <2> QED BY <2>1, <2>3, SMT
<1> QED BY <1>2

(* Induction over the numbers up to n: a set with 0 and with the successor *)
(* of each of its numbers below n holds them all.                          *)
LEMMA Upwards ==
    ASSUME NEW n \in Nat, NEW S, 0 \in S,
           \A k \in 0 .. n - 1 : k \in S => k + 1 \in S
    PROVE  \A k \in 0 .. n : k \in S
<1> DEFINE T == (0 .. n) \ S
<1> SUFFICES ASSUME T # {} PROVE FALSE
  OBVIOUS
<1>1. T \subseteq Nat
  BY SMT
<1>2. PICK x \in T : \A y \in T : x <= y
  BY <1>1, Least
<1>3. x # 0 /\ x \in 0 .. n /\ x \notin S
  OBVIOUS
<1>4. x - 1 \in 0 .. n - 1 /\ x - 1 \in 0 .. n /\ x = (x - 1) + 1 /\ ~(x <= x - 1)
  BY <1>3, SMT
<1>5. x - 1 \in S
  BY <1>2, <1>4
<1> QED BY <1>3, <1>4, <1>5

(* f starts with b and goes on, step by step, by F. *)
Stepwise(f, X, b, n, F) ==
    /\ f \in [0 .. n -> X] /\ f[0] = b
    /\ \A k \in 1 .. n : f[k] = F[<<f[k - 1], k>>]

(* There is such a function. *)
LEMMA Recursion ==
    ASSUME NEW X, NEW b \in X, NEW n \in Nat, NEW F,
           \A x \in X, k \in 1 .. n : F[<<x, k>>] \in X
    PROVE  \E f : Stepwise(f, X, b, n, F)
<1> DEFINE Is(f, m) == /\ f \in [0 .. m -> X] /\ f[0] = b
                       /\ \A k \in 1 .. m : f[k] = F[<<f[k - 1], k>>]
           S == {m \in 0 .. n : \E f : Is(f, m)}
<1>1. 0 \in S
  <2> DEFINE f == [k \in 0 .. 0 |-> b]
  <2>1. 0 \in 0 .. 0 /\ 0 \in 0 .. n /\ ~\E k : k \in 1 .. 0
    BY SMT
  <2>2. Is(f, 0)
    BY <2>1
  <2> QED BY <2>1, <2>2
<1>2. ASSUME NEW m \in 0 .. n - 1, m \in S PROVE m + 1 \in S
  <2>1. PICK f : Is(f, m)
    BY <1>2
  <2> DEFINE g == [k \in 0 .. m + 1 |->
                     IF k <= m THEN f[k] ELSE F[<<f[m], m + 1>>]]
  <2>2. /\ m \in 0 .. m /\ m + 1 \in 1 .. n /\ m + 1 \in 0 .. n
        /\ 0 \in 0 .. m + 1 /\ 0 <= m
        /\ \A k \in 0 .. m + 1 : k <= m => k \in 0 .. m
    BY <1>2, SMT
  <2>3. f[m] \in X /\ F[<<f[m], m + 1>>] \in X
    BY <2>1, <2>2
  <2>4. g \in [0 .. m + 1 -> X] /\ g[0] = b
    BY <2>1, <2>2, <2>3
  <2>5. ASSUME NEW k \in 1 .. m + 1 PROVE g[k] = F[<<g[k - 1], k>>]
    <3>1. /\ k \in 0 .. m + 1 /\ k - 1 \in 0 .. m + 1 /\ k - 1 <= m
          /\ (k = m + 1 /\ k - 1 = m /\ ~(k <= m)) \/ (k \in 1 .. m /\ k <= m)
      BY <1>2, SMT
    <3>2. g[k - 1] = f[k - 1]
      BY <3>1
    <3>3. CASE k = m + 1 /\ k - 1 = m /\ ~(k <= m)
      BY <3>1, <3>2, <3>3
    <3>4. CASE k \in 1 .. m /\ k <= m
      BY <2>1, <3>1, <3>2, <3>4
    <3> QED BY <3>1, <3>3, <3>4
  <2> HIDE DEF g
  <2> QED BY <2>2, <2>4, <2>5
<1>3. n \in 0 .. n
  BY SMT
<1> HIDE DEF S
<1>4. n \in S
  BY <1>1, <1>2, <1>3, Upwards
<1> QED BY <1>4 DEF S, Stepwise

-----------------------------------------------------------------------------
(* One more element. *)
LEMMA AppendRange ==
    ASSUME NEW E, NEW s \in Seq(E), NEW x \in E
    PROVE  Append(s, x) \in Seq(E) /\ Range(Append(s, x)) = Range(s) \cup {x}
<1>1. /\ Append(s, x) \in Seq(E) /\ Len(s) \in Nat
      /\ DOMAIN Append(s, x) = 1 .. Len(s) + 1 /\ DOMAIN s = 1 .. Len(s)
      /\ \A i \in 1 .. Len(s) : Append(s, x)[i] = s[i]
      /\ Append(s, x)[Len(s) + 1] = x
  BY SMT
<1>2. /\ \A i \in 1 .. Len(s) + 1 : i \in 1 .. Len(s) \/ i = Len(s) + 1
      /\ \A i \in 1 .. Len(s) : i \in 1 .. Len(s) + 1
      /\ Len(s) + 1 \in 1 .. Len(s) + 1
  BY <1>1, SMT
<1> QED BY <1>1, <1>2 DEF Range

(* The elements of a sequence before its k-th, with it. *)
LEMMA PrefixStep ==
    ASSUME NEW E, NEW cs \in Seq(E), NEW k \in 0 .. Len(cs) - 1
    PROVE  /\ k + 1 \in 1 .. Len(cs) /\ (k + 1) - 1 = k /\ cs[k + 1] \in E
           /\ {cs[j] : j \in 1 .. k + 1} = {cs[j] : j \in 1 .. k} \cup {cs[k + 1]}
<1>1. /\ k + 1 \in 1 .. Len(cs) /\ (k + 1) - 1 = k /\ cs[k + 1] \in E
      /\ \A j \in 1 .. k + 1 : j \in 1 .. k \/ j = k + 1
      /\ \A j \in 1 .. k : j \in 1 .. k + 1
      /\ k + 1 \in 1 .. k + 1
  BY SMT
<1> QED BY <1>1

(* What Selected leaves of a sequence. *)
LEMMA SelectedElements ==
    ASSUME NEW E, NEW cs \in Seq(E), NEW S
    PROVE  /\ Selected(cs, S) \in Seq(E)
           /\ Range(Selected(cs, S)) = Range(cs) \cap S
<1> DEFINE n == Len(cs)
           F == [y \in Seq(E) \X (1 .. n) |->
                   IF cs[y[2]] \in S THEN Append(y[1], cs[y[2]]) ELSE y[1]]
           Is(f) == f = [k \in 0 .. n |->
                           IF k = 0 THEN <<>>
                           ELSE IF cs[k] \in S THEN Append(f[k - 1], cs[k])
                           ELSE f[k - 1]]
           f == CHOOSE g : Is(g)
<1>1. n \in Nat /\ <<>> \in Seq(E) /\ \A k \in 1 .. n : cs[k] \in E
  BY SMT
<1>2. \A s \in Seq(E), x \in E : Append(s, x) \in Seq(E)
  BY SMT
<1>3. \A s \in Seq(E), k \in 1 .. n :
        F[<<s, k>>] = IF cs[k] \in S THEN Append(s, cs[k]) ELSE s
  OBVIOUS
<1>4. \A s \in Seq(E), k \in 1 .. n : F[<<s, k>>] \in Seq(E)
  BY <1>1, <1>2, <1>3
<1> HIDE DEF F, n
<1>5. PICK g : Stepwise(g, Seq(E), <<>>, n, F)
  BY <1>1, <1>4, Recursion
<1>6. \A k \in 0 .. n : k # 0 => k \in 1 .. n /\ k - 1 \in 0 .. n
  BY <1>1, SMT
<1>7. \A k \in 0 .. n : g[k] = IF k = 0 THEN <<>>
                               ELSE IF cs[k] \in S THEN Append(g[k - 1], cs[k])
                               ELSE g[k - 1]
  BY <1>3, <1>5, <1>6 DEF Stepwise
<1>8. Is(f)
  <2>1. Is(g)
    BY <1>5, <1>7 DEF Stepwise
  <2> QED BY <2>1
<1>9. Selected(cs, S) = f[n]
  BY DEF Selected, n
<1> HIDE DEF f
<1>10. \A k \in 0 .. n : f[k] = IF k = 0 THEN <<>>
                                ELSE IF cs[k] \in S THEN Append(f[k - 1], cs[k])
                                ELSE f[k - 1]
  BY <1>8
<1> DEFINE T == {k \in 0 .. n : /\ f[k] \in Seq(E)
                                /\ Range(f[k]) = {cs[j] : j \in 1 .. k} \cap S}
<1>11. 0 \in T
  <2>1. 0 \in 0 .. n /\ DOMAIN <<>> = {} /\ 1 .. 0 = {}
    BY <1>1, SMT
  <2> QED BY <1>1, <1>10, <2>1 DEF Range
<1>12. ASSUME NEW k \in 0 .. n - 1, k \in T PROVE k + 1 \in T
  <2>1. /\ k + 1 \in 1 .. n /\ (k + 1) - 1 = k /\ cs[k + 1] \in E
        /\ {cs[j] : j \in 1 .. k + 1} = {cs[j] : j \in 1 .. k} \cup {cs[k + 1]}
    BY <1>12, PrefixStep DEF n
  <2>2. k + 1 \in 0 .. n /\ k + 1 # 0
    BY <1>1, <1>12, SMT
  <2>3. f[k + 1] = IF cs[k + 1] \in S THEN Append(f[k], cs[k + 1]) ELSE f[k]
    BY <1>10, <2>1, <2>2
  <2>4. f[k] \in Seq(E) /\ Range(f[k]) = {cs[j] : j \in 1 .. k} \cap S
    BY <1>12
  <2>5. CASE cs[k + 1] \in S
    <3>1. f[k + 1] = Append(f[k], cs[k + 1])
      BY <2>3, <2>5
    <3>2. /\ Append(f[k], cs[k + 1]) \in Seq(E)
          /\ Range(Append(f[k], cs[k + 1])) = Range(f[k]) \cup {cs[k + 1]}
      BY <2>1, <2>4, AppendRange, SMT
    <3> QED BY <2>1, <2>2, <2>4, <2>5, <3>1, <3>2
  <2>6. CASE cs[k + 1] \notin S
    BY <2>1, <2>2, <2>3, <2>4, <2>6
  <2> QED BY <2>5, <2>6
<1>13. n \in 0 .. n
  BY <1>1, SMT
<1> HIDE DEF T
<1>14. n \in T
  BY <1>1, <1>11, <1>12, <1>13, Upwards
<1>15. Range(cs) = {cs[j] : j \in 1 .. n}
  <2>1. DOMAIN cs = 1 .. n
    BY SMT DEF n
  <2> QED BY <2>1 DEF Range
<1> QED BY <1>9, <1>14, <1>15 DEF T

-----------------------------------------------------------------------------
(* Values, counted changes and the changes of the request. *)
States(V) ==
    {st \in [value : [Param -> V], changes : [Param -> Nat], own : SUBSET Made] :
        \A o \in st.own : o.n <= st.changes[o.param]}

(* What can have become of st. *)
Grown(st, new) ==
    /\ st.own \subseteq new.own
    /\ \A p \in Param \ White : new.changes[p] = st.changes[p]

HasChanged(st, p) == p \in ReadOnly \/ \E o \in st.own : o.param = p

(* A node carries out one change. *)
LEMMA ChangeStep ==
    ASSUME NEW V, NEW st \in States(V), NEW x \in [param : White, value : V]
    PROVE  /\ Change(st, x) \in States(V)
           /\ Grown(st, Change(st, x)) /\ HasChanged(Change(st, x), x.param)
<1>1. CASE x.param \in ReadOnly
  BY <1>1 DEF Change, Grown, HasChanged
<1>2. CASE x.param \notin ReadOnly
  <2> DEFINE p == x.param
             new == Change(st, x)
             o == [param |-> p, n |-> st.changes[p] + 1]
  <2>1. /\ st \in [value : [Param -> V], changes : [Param -> Nat],
                   own : SUBSET Made]
        /\ \A q \in st.own : q.n <= st.changes[q.param]
    BY DEF States
  <2>2. p \in White /\ p \in Param /\ x.value \in V
    BY RequestConstants
  <2>3. new = [value |-> [st.value EXCEPT ![p] = x.value],
               changes |-> [st.changes EXCEPT ![p] = @ + 1],
               own |-> st.own \cup {o}]
    BY <1>2 DEF Change
  <2>4. st.changes \in [Param -> Nat] /\ st.changes[p] \in Nat
        /\ st.own \subseteq Made /\ st.value \in [Param -> V]
    BY <2>1, <2>2
  <2>5. st.changes[p] + 1 \in Nat /\ st.changes[p] <= st.changes[p] + 1
        /\ \A k \in Nat : k <= st.changes[p] => k <= st.changes[p] + 1
        /\ st.changes[p] + 1 <= st.changes[p] + 1
    BY <2>4, SMT
  <2> HIDE DEF new
  <2>6. /\ new.value = [st.value EXCEPT ![p] = x.value]
        /\ new.changes = [st.changes EXCEPT ![p] = st.changes[p] + 1]
        /\ new.own = st.own \cup {o}
    BY <2>3
  <2>7. o \in Made /\ o.param = p /\ o.n = st.changes[p] + 1
    BY <2>2, <2>5 DEF Made
  <2> HIDE DEF o, p
  <2>8. /\ new.value \in [Param -> V] /\ new.changes \in [Param -> Nat]
        /\ new.own \subseteq Made
    <3>1. new.value \in [Param -> V]
      BY <2>2, <2>4, <2>6
    <3>2. new.changes \in [Param -> Nat]
      BY <2>2, <2>4, <2>5, <2>6
    <3> QED BY <2>4, <2>6, <2>7, <3>1, <3>2
  <2>9. ASSUME NEW q \in new.own PROVE q.n <= new.changes[q.param]
    <3> HIDE DEF o, new, p
    <3>1. CASE q = o
      <4>1. new.changes[p] = st.changes[p] + 1
        BY <2>2, <2>4, <2>6
      <4>2. q.param = p /\ q.n = st.changes[p] + 1
        BY <2>7, <3>1
      <4>3. new.changes[q.param] = st.changes[p] + 1
        BY <4>1, <4>2
      <4> QED BY <2>4, <4>2, <4>3, SMT
    <3>2. CASE q \in st.own
      <4>1. q \in Made /\ q.param \in Param /\ q.n \in Nat
        BY <2>4, <3>2 DEF Made
      <4>2. q.n <= st.changes[q.param]
        BY <2>1, <3>2
      <4>3. CASE q.param = p
        <5>1. new.changes[p] = st.changes[p] + 1
          BY <2>2, <2>4, <2>6
        <5> QED BY <2>5, <4>1, <4>2, <4>3, <5>1
      <4>4. CASE q.param # p
        BY <2>4, <2>6, <4>1, <4>2, <4>4
      <4> QED BY <4>3, <4>4
    <3> QED BY <2>6, <3>1, <3>2
  <2>10. new \in [value : [Param -> V], changes : [Param -> Nat],
                  own : SUBSET Made]
    BY <2>3, <2>6, <2>8
  <2>11. new \in States(V)
    BY <2>9, <2>10 DEF States
  <2>12. Grown(st, new)
    BY <2>2, <2>4, <2>6 DEF Grown
  <2>13. HasChanged(new, p)
    BY <2>6, <2>7 DEF HasChanged
  <2> QED BY <2>11, <2>12, <2>13 DEF new, p
<1> QED BY <1>1, <1>2

(* It carries out a sequence of changes: what was made stays counted, what *)
(* is off the whitelist is left alone, and each change is made.            *)
LEMMA AppliedStep ==
    ASSUME NEW V, NEW st \in States(V),
           NEW cs \in Seq([param : White, value : V])
    PROVE  /\ Applied(st, cs) \in States(V)
           /\ Grown(st, Applied(st, cs))
           /\ \A x \in Range(cs) : HasChanged(Applied(st, cs), x.param)
           /\ cs = <<>> => Applied(st, cs) = st
<1> DEFINE n == Len(cs)
           C == [param : White, value : V]
           F == [y \in States(V) \X (1 .. n) |-> Change(y[1], cs[y[2]])]
           Is(f) == f = [k \in 0 .. n |->
                           IF k = 0 THEN st ELSE Change(f[k - 1], cs[k])]
           f == CHOOSE g : Is(g)
<1>1. n \in Nat /\ \A k \in 1 .. n : cs[k] \in C
  <2> HIDE DEF C
  <2>1. cs \in Seq(C)
    BY DEF C
  <2> QED BY <2>1, SMT
<1>2. \A s \in States(V), x \in C :
        /\ Change(s, x) \in States(V) /\ Grown(s, Change(s, x))
        /\ HasChanged(Change(s, x), x.param)
  BY ChangeStep
<1>3. \A s \in States(V), k \in 1 .. n : F[<<s, k>>] = Change(s, cs[k])
  OBVIOUS
<1>4. \A s \in States(V), k \in 1 .. n : F[<<s, k>>] \in States(V)
  BY <1>1, <1>2, <1>3
<1> HIDE DEF F, n
<1>5. PICK g : Stepwise(g, States(V), st, n, F)
  BY <1>1, <1>4, Recursion
<1>6. \A k \in 0 .. n : k # 0 => k \in 1 .. n /\ k - 1 \in 0 .. n
  BY <1>1, SMT
<1>7. \A k \in 0 .. n : g[k] = IF k = 0 THEN st ELSE Change(g[k - 1], cs[k])
  BY <1>3, <1>5, <1>6 DEF Stepwise
<1>8. Is(f)
  <2>1. Is(g)
    BY <1>5, <1>7 DEF Stepwise
  <2> QED BY <2>1
<1>9. Applied(st, cs) = f[n]
  BY DEF Applied, n
<1> HIDE DEF f, C
<1>10. \A k \in 0 .. n : f[k] = IF k = 0 THEN st ELSE Change(f[k - 1], cs[k])
  BY <1>8
<1> DEFINE T == {k \in 0 .. n :
                   /\ f[k] \in States(V) /\ Grown(st, f[k])
                   /\ \A x \in {cs[j] : j \in 1 .. k} : HasChanged(f[k], x.param)}
<1>11. 0 \in T
  <2>1. 0 \in 0 .. n /\ 1 .. 0 = {}
    BY <1>1, SMT
  <2> QED BY <1>10, <2>1 DEF Grown
<1>12. ASSUME NEW k \in 0 .. n - 1, k \in T PROVE k + 1 \in T
  <2>1. /\ k + 1 \in 1 .. n /\ (k + 1) - 1 = k /\ cs[k + 1] \in C
        /\ {cs[j] : j \in 1 .. k + 1} = {cs[j] : j \in 1 .. k} \cup {cs[k + 1]}
    BY ZenonT(40), <1>12, PrefixStep DEF n, C
  <2>2. k + 1 \in 0 .. n /\ k + 1 # 0
    BY <1>1, <1>12, SMT
  <2>3. f[k + 1] = Change(f[k], cs[k + 1])
    BY <1>10, <2>1, <2>2
  <2>4. /\ f[k] \in States(V) /\ Grown(st, f[k])
        /\ \A x \in {cs[j] : j \in 1 .. k} : HasChanged(f[k], x.param)
    BY <1>12
  <2>5. /\ f[k + 1] \in States(V) /\ Grown(f[k], f[k + 1])
        /\ HasChanged(f[k + 1], cs[k + 1].param)
    BY <1>2, <2>1, <2>3, <2>4
  <2>6. Grown(st, f[k + 1])
    BY <2>4, <2>5 DEF Grown
  <2>7. \A x \in {cs[j] : j \in 1 .. k} : HasChanged(f[k + 1], x.param)
    BY <2>4, <2>5 DEF Grown, HasChanged
  <2> QED BY <2>1, <2>2, <2>5, <2>6, <2>7
<1>13. n \in 0 .. n
  BY <1>1, SMT
<1> HIDE DEF T
<1>14. n \in T
  BY <1>1, <1>11, <1>12, <1>13, Upwards
<1>15. Range(cs) = {cs[j] : j \in 1 .. n}
  <2>1. DOMAIN cs = 1 .. n
    BY SMT DEF n
  <2> QED BY <2>1 DEF Range
<1>16. cs = <<>> => n = 0
  BY SMT DEF n
<1>17. cs = <<>> => f[n] = st
  BY <1>10, <1>13, <1>16
<1> QED BY <1>9, <1>14, <1>15, <1>17 DEF T

-----------------------------------------------------------------------------
(* A request names parameters, and every parameter has a node. *)
LEMMA Requested ==
    /\ \A p \in Param : NodeOf[p] \in Node
    /\ \A r \in Requests :
         /\ r.op \in {"get", "set"} /\ Named(r) \subseteq Param
         /\ r.changes \in Seq([param : Param, value : Nat \cup {Unset, Bad}])
         /\ r.op = "set" => Named(r) = {x.param : x \in Range(r.changes)}
         /\ \A x \in Range(r.changes) :
              x \in [param : Param, value : Nat \cup {Unset, Bad}]
<1> DEFINE C == [param : Param, value : Nat \cup {Unset, Bad}]
<1>1. \A p \in Param : NodeOf[p] \in Node
  BY DEF Node
<1>2. ASSUME NEW r \in Requests
      PROVE  /\ r.op \in {"get", "set"} /\ Named(r) \subseteq Param
             /\ r.changes \in Seq(C)
             /\ r.op = "set" => Named(r) = {x.param : x \in Range(r.changes)}
             /\ \A x \in Range(r.changes) : x \in C
  <2> HIDE DEF C
  <2>1. /\ r.op \in {"get", "set"} /\ r.names \subseteq Param
        /\ r.changes \in Seq(C)
    BY RequestConstants DEF C
  <2>2. \A i \in DOMAIN r.changes : r.changes[i] \in C
    BY <2>1, SMT
  <2>3. \A x \in Range(r.changes) : x \in C
    BY <2>2 DEF Range
  <2>4. \A x \in Range(r.changes) : x.param \in Param
    BY <2>3 DEF C
  <2> QED BY <2>1, <2>3, <2>4 DEF Named
<1> QED BY <1>1, <1>2

(* While the request and its call go on, what was right stays so. *)
LEMMA Stable ==
    ASSUME UNCHANGED <<ros1, req, phase, call, requests, lost>>,
           own \subseteq own', unset \subseteq unset'
    PROVE  /\ \A n, t : TaskOk(n, t) => TaskOk(n, t)'
           /\ \A n, g : GetOk(n, g) => GetOk(n, g)'
           /\ \A n, s : SetOk(n, s) => SetOk(n, s)'
           /\ \A a : AnswerOk(a) => AnswerOk(a)'
           /\ \A n : Confirmed(n) => Confirmed(n)'
           /\ ReadBackInv => ReadBackInv'
<1>1. \A p : Has(p) => Has(p)'
  BY DEF Has
<1>2. \A p : Wanted(p)' = Wanted(p)
  BY DEF Wanted, Named
<1>3. \A n : AlwaysSet(n)' => AlwaysSet(n)
  BY DEF AlwaysSet
<1>4. Named(req)' = Named(req)
  BY DEF Named
<1>5. \A n : Confirmed(n) => Confirmed(n)'
  BY <1>1, <1>4 DEF Confirmed
<1>6. \A n, P : RightNames(n, P) => RightNames(n, P)'
  BY <1>2, <1>3 DEF RightNames
<1>7. \A n, V : RightValues(n, V) => RightValues(n, V)'
  BY <1>2, <1>4 DEF RightValues
<1>8. \A n, V : AllValues(n, V) => AllValues(n, V)'
  BY <1>2, <1>3 DEF AllValues
<1>9. Refused' = Refused
  BY <1>4 DEF Refused
<1>10. \A n, t : TaskOk(n, t) => TaskOk(n, t)'
  BY ZenonT(40), <1>4, <1>5, <1>7, <1>8 DEF TaskOk
<1>11. \A n, g : GetOk(n, g) => GetOk(n, g)'
  BY <1>4, <1>6 DEF GetOk
<1>12. \A n, s : SetOk(n, s) => SetOk(n, s)'
  BY <1>4, <1>9 DEF SetOk
<1>13. \A a : AnswerOk(a) => AnswerOk(a)'
  BY <1>4, <1>5, <1>6, <1>7, <1>8 DEF AnswerOk
<1>14. ReadBackInv => ReadBackInv'
  BY <1>1, <1>4 DEF ReadBackInv
<1> QED BY <1>5, <1>10, <1>11, <1>12, <1>13, <1>14

(* The types of what is on its way. *)
LEMMA Types ==
    ASSUME TypeInv
    PROVE  /\ \A n \in Node :
                /\ asked[n].get \subseteq GetAsked /\ asked[n].set \in Seq(SetAsked)
                /\ \A s \in Range(asked[n].set) : s \in SetAsked
                /\ task[n].at \in Places /\ task[n].result \subseteq Reading
           /\ \A o \in own : o.param \in Param /\ o.n \in Nat
<1>1. ASSUME NEW n \in Node
      PROVE  /\ asked[n].get \subseteq GetAsked /\ asked[n].set \in Seq(SetAsked)
             /\ task[n].at \in Places /\ task[n].result \subseteq Reading
  BY DEF TypeInv
<1>2. ASSUME NEW n \in Node, NEW s \in Range(asked[n].set) PROVE s \in SetAsked
  <2>1. asked[n].set \in Seq(SetAsked)
    BY <1>1
  <2>2. \A i \in DOMAIN asked[n].set : asked[n].set[i] \in SetAsked
    BY <2>1, SMT
  <2> QED BY <2>2 DEF Range
<1>3. \A o \in own : o.param \in Param /\ o.n \in Nat
  BY DEF TypeInv, Made
<1> QED BY <1>1, <1>2, <1>3

(* When no call is running, what is still on its way concerns nobody. *)
LEMMA NoCall ==
    ASSUME RequestInv, phase' \notin {"set", "get"},
           UNCHANGED <<call, asked, answers>>,
           \/ requests' = requests + 1
           \/ requests' = requests /\ (Refused' => Refused)
    PROVE  AskedInv' /\ AnswersInv'
<1> USE DEF RequestInv
<1>1. ASSUME NEW n \in Node, NEW g \in asked[n].get PROVE GetOk(n, g)'
  <2>1. GetOk(n, g)
    BY DEF AskedInv
  <2> QED BY <2>1 DEF GetOk
<1>2. ASSUME NEW n \in Node, NEW s \in Range(asked[n].set) PROVE SetOk(n, s)'
  <2>1. SetOk(n, s)
    BY DEF AskedInv
  <2>2. s.by \in Nat /\ requests \in Nat
    BY ZenonT(40), Types DEF TypeInv, SetAsked
  <2>3. s.by <= requests
    BY <2>1 DEF SetOk
  <2>4. CASE requests' = requests + 1
    <3>1. s.by <= requests' /\ s.by # requests'
      BY <2>2, <2>3, <2>4, SMT
    <3> QED BY <2>1, <3>1 DEF SetOk
  <2>5. CASE requests' = requests /\ (Refused' => Refused)
    BY <2>1, <2>5 DEF SetOk
  <2> QED BY <2>4, <2>5
<1>3. ASSUME NEW a \in answers PROVE AnswerOk(a)'
  <2>1. AnswerOk(a)
    BY DEF AnswersInv
  <2> QED BY <2>1 DEF AnswerOk
<1>4. AskedInv'
  BY <1>1, <1>2 DEF AskedInv
<1>5. AnswersInv'
  BY <1>3 DEF AnswersInv
<1> QED BY <1>4, <1>5

(* A new call: nothing of it is on its way. *)
LEMMA NewCall ==
    ASSUME RequestInv, call' = call + 1,
           UNCHANGED <<ros1, req, requests, asked, answers>>
    PROVE  call' \in Nat /\ call' # 0 /\ AskedInv' /\ AnswersInv'
<1> USE DEF RequestInv
<1>1. call \in Nat
  BY DEF TypeInv
<1>2. /\ call' \in Nat /\ call' # 0
      /\ \A c \in Nat : c <= call => c <= call' /\ c # call'
  BY <1>1, SMT
<1>3. ASSUME NEW n \in Node, NEW g \in asked[n].get PROVE GetOk(n, g)'
  <2>1. GetOk(n, g) /\ g.call \in Nat
    BY Types DEF AskedInv, GetAsked
  <2> QED BY <1>2, <2>1 DEF GetOk
<1>4. ASSUME NEW n \in Node, NEW s \in Range(asked[n].set) PROVE SetOk(n, s)'
  <2>1. SetOk(n, s) /\ s.call \in Nat
    BY Types DEF AskedInv, SetAsked
  <2>2. Refused' = Refused
    BY DEF Refused, Named
  <2> QED BY <1>2, <2>1, <2>2 DEF SetOk
<1>5. ASSUME NEW a \in answers PROVE AnswerOk(a)'
  <2>1. AnswerOk(a) /\ a.call \in Nat
    BY DEF AnswersInv, TypeInv, Answer
  <2> QED BY <1>2, <2>1 DEF AnswerOk
<1>6. AskedInv'
  BY <1>3, <1>4 DEF AskedInv
<1>7. AnswersInv'
  BY <1>5 DEF AnswersInv
<1> QED BY <1>2, <1>6, <1>7

-----------------------------------------------------------------------------
(* Tasks that are not there, or not started. *)
LEMMA TaskTypes ==
    ASSUME NEW N
    PROVE  /\ Tasks(N) \in [Node -> [at : Places, result : SUBSET Reading]]
           /\ \A n \in Node :
                /\ Tasks(N)[n].result = {}
                /\ Tasks(N)[n].at = IF n \in N THEN "start" ELSE "none"
<1>1. \A n \in Node :
        Tasks(N)[n] = [at |-> IF n \in N THEN "start" ELSE "none", result |-> {}]
  BY DEF Tasks, Idle
<1>2. \A n \in Node : Tasks(N)[n] \in [at : Places, result : SUBSET Reading]
  <2>1. \A n \in Node : (IF n \in N THEN "start" ELSE "none") \in Places
    BY DEF Places
  <2>2. \A x \in Places :
          [at |-> x, result |-> {}] \in [at : Places, result : SUBSET Reading]
    OBVIOUS
  <2> QED BY <1>1, <2>1, <2>2
<1>3. Tasks(N) = [n \in Node |-> Tasks(N)[n]]
  BY DEF Tasks
<1> QED BY <1>1, <1>2, <1>3, SMT

(* A remainder of the int of ROS 1. *)
LEMMA IntValue ==
    ASSUME NEW v \in Nat \cup {Unset}
    PROVE  /\ to_int(v) \in (0 .. IntRange - 1) \cup {Unset}
           /\ to_int(v) \in Nat \cup {Unset}
           /\ to_int(v) = Unset => v = Unset
<1>1. CASE v = Unset
  BY <1>1 DEF to_int
<1>2. CASE v # Unset
  <2>1. v \in Nat /\ IntRange \in Nat \ {0} /\ Unset \notin Nat
    BY <1>2, RequestConstants
  <2>2. v % IntRange \in 0 .. IntRange - 1 /\ v % IntRange \in Nat
    BY <2>1, SMT
  <2> QED BY <1>2, <2>1, <2>2 DEF to_int
<1> QED BY <1>1, <1>2

(* The program starts in a state of the invariant. *)
LEMMA RequestStart ==
    ASSUME Init
    PROVE  RequestInv
<1> USE DEF Init
<1>1. \A p \in Param : Start[p] \in Nat \cup {Unset}
  BY RequestConstants
<1>2. \A p \in Param : /\ value[p] \in Nat \cup {Unset}
                       /\ ros1 => value[p] \in (0 .. IntRange - 1) \cup {Unset}
                       /\ value[p] = Unset => Start[p] = Unset
  BY <1>1, IntValue
<1>3. /\ 0 \in Nat /\ Node \ BadNode \subseteq Node \ BadNode
      /\ <<>> \in Seq(SetAsked)
  BY SMT
<1>4. value \in [Param -> Nat \cup {Unset}] /\ changes \in [Param -> Nat]
  BY <1>2, <1>3
<1>5. asked \in [Node -> [get : SUBSET GetAsked, set : Seq(SetAsked)]]
  BY <1>3
<1>6. task \in [Node -> [at : Places, result : SUBSET Reading]]
      /\ \A n \in Node : task[n].at = "none" /\ task[n].result = {}
  BY DEF Idle, Places
<1>7. TypeInv
  BY <1>3, <1>4, <1>5, <1>6 DEF TypeInv
<1>8. PlaceInv /\ ListedInv
  BY DEF PlaceInv, ListedInv
<1>9. Ros1Inv
  BY <1>2 DEF Ros1Inv
<1>10. OwnInv
  BY <1>2 DEF OwnInv
<1>11. ReadBackInv
  BY DEF ReadBackInv
<1>12. TasksInv
  BY <1>6 DEF TasksInv, TaskOk
<1>13. AskedInv
  <2>1. Range(<<>>) = {}
    BY SMT DEF Range
  <2> QED BY <2>1 DEF AskedInv
<1>14. AnswersInv
  BY DEF AnswersInv
<1>15. SentInv
  BY DEF SentInv, ReadBackIsFresh, AnsweredNodesComplete
<1> QED BY <1>7, <1>8, <1>9, <1>10, <1>11, <1>12, <1>13, <1>14, <1>15
        DEF RequestInv

(* No task is there between the calls of a request. *)
LEMMA BetweenCalls ==
    ASSUME RequestInv, phase \notin {"set", "get"}
    PROVE  \A n \in Node : task[n].at = "none" /\ task[n].result = {}
BY DEF RequestInv, TasksInv, TaskOk

(* A request arrives. *)
LEMMA Receives ==
    ASSUME RequestInv, NEW r \in Requests, Receive(r)
    PROVE  RequestInv'
<1> USE DEF RequestInv, Receive, nodeVars
<1>1. phase = "idle" /\ r # None /\ r.op \in {"get", "set"}
  BY Requested, RequestConstants DEF PlaceInv
<1>2. phase' = (IF r.op = "set" THEN "set_params" ELSE "get_params")
      /\ phase' \in {"set_params", "get_params"}
  OBVIOUS
<1>3. \A n \in Node : task[n].at = "none" /\ task[n].result = {}
  BY <1>1, BetweenCalls
<1>4. TypeInv'
  <2>1. requests + 1 \in Nat
    BY SMT DEF TypeInv
  <2> QED BY <1>2, <2>1 DEF TypeInv
<1>5. PlaceInv' /\ ListedInv'
  BY <1>1, <1>2 DEF PlaceInv, ListedInv
<1>6. Ros1Inv'
  BY <1>1, <1>2 DEF Ros1Inv
<1>7. OwnInv'
  BY DEF OwnInv
<1>8. ReadBackInv'
  BY <1>1, <1>2 DEF ReadBackInv
<1>9. TasksInv'
  BY <1>2, <1>3 DEF TasksInv, TaskOk
<1>10. AskedInv' /\ AnswersInv'
  BY <1>2, NoCall
<1>11. SentInv'
  BY DEF SentInv, ReadBackIsFresh, AnsweredNodesComplete
<1> QED BY <1>4, <1>5, <1>6, <1>7, <1>8, <1>9, <1>10, <1>11

(* A request ends. *)
LEMMA Ends ==
    ASSUME RequestInv, Finish, SentInv',
           UNCHANGED <<ros1, nodeVars, call, requests, own, unset, left>>
    PROVE  RequestInv'
<1> USE DEF RequestInv, Finish, nodeVars
<1>1. TypeInv'
  BY TaskTypes DEF TypeInv
<1>2. PlaceInv' /\ ListedInv'
  BY DEF PlaceInv, ListedInv
<1>3. Ros1Inv'
  BY DEF Ros1Inv
<1>4. ~Refused'
  BY DEF Refused
<1>5. OwnInv'
  BY <1>4 DEF OwnInv
<1>6. ReadBackInv'
  BY DEF ReadBackInv
<1>7. TasksInv'
  BY TaskTypes DEF TasksInv, TaskOk
<1>8. AskedInv' /\ AnswersInv'
  BY <1>4, NoCall
<1> QED BY <1>1, <1>2, <1>3, <1>5, <1>6, <1>7, <1>8

(* An answer without values, and why there is none. *)
LEMMA NoValues ==
    ASSUME NEW error, NoReply(error), UNCHANGED ros1,
           \/ ros1
           \/ error /\ Fails(req, left)
           \/ ~error /\ req.op = "set" /\ ~req.withId
    PROVE  SentInv'
<1>1. /\ ~sent'.answered /\ sent'.values = {} /\ sent'.error = error
      /\ sent'.req = req /\ sent'.left = left
  BY DEF NoReply, Sent
<1>2. AnsweredNodesComplete'
  BY <1>1 DEF AnsweredNodesComplete, Fails, Named
<1> QED BY <1>1, <1>2 DEF SentInv, ReadBackIsFresh

(* A call that is broken names a node that cannot exist. *)
LEMMA BrokenFails ==
    ASSUME RequestInv, Broken, phase \in {"set_params", "set", "get_params", "services", "get"}
    PROVE  Fails(req, left)
<1> USE DEF RequestInv
<1>1. PICK n \in Called : n \in BadNode
  BY DEF Broken
<1>2. n \notin listed
  BY <1>1 DEF ListedInv
<1>3. CASE phase \in {"set_params", "set"}
  <2>1. req.op = "set" /\ Range(<<>>) = {}
    BY <1>3, SMT DEF PlaceInv, Range
  <2>2. PICK x \in Range(req.changes) : n = NodeOf[x.param]
    BY <1>1, <1>3, <2>1 DEF Called, Accepted
  <2> QED BY <1>1, <2>1, <2>2 DEF Fails, Named
<1>4. CASE phase \notin {"set_params", "set"}
  BY <1>1, <1>2, <1>4 DEF Fails, Called
<1> QED BY <1>3, <1>4

(* setParameters sets out to set. *)
LEMMA SetsOut ==
    ASSUME RequestInv, set_params
    PROVE  RequestInv'
<1> USE DEF RequestInv, nodeVars, histVars
<1> DEFINE cs == Accepted(req.changes)
<1>1. /\ ~ros1 /\ phase = "set_params" /\ ~Throws(req.changes) /\ StartTasks
      /\ phase' = "set" /\ call' = call + 1
      /\ UNCHANGED <<ros1, nodeVars, req, listed, requests, histVars>>
  BY DEF set_params
<1>t. PICK N : N \subseteq {NodeOf[x.param] : x \in Range(cs)} /\ task' = Tasks(N)
  BY <1>1 DEF StartTasks, Called
<1>2. req \in Requests /\ req.op = "set" /\ req # None
  BY <1>1 DEF PlaceInv, TypeInv
<1>3. call' \in Nat /\ call' # 0 /\ AskedInv' /\ AnswersInv'
  BY <1>1, NewCall
<1>4. \A n \in Node : /\ task'[n].result = {}
                      /\ task'[n].at = IF n \in N THEN "start" ELSE "none"
  BY <1>t, TaskTypes
<1>5. TypeInv'
  BY <1>1, <1>3, <1>t, TaskTypes DEF TypeInv
<1>6. PlaceInv' /\ ListedInv'
  BY <1>1, <1>2, <1>3 DEF PlaceInv, ListedInv
<1>7. Ros1Inv'
  BY <1>1 DEF Ros1Inv
<1>8. OwnInv'
  <2>1. Refused' = Refused
    BY <1>1 DEF Refused, Named
  <2> QED BY <1>1, <2>1 DEF OwnInv
<1>9. ReadBackInv'
  BY <1>1 DEF ReadBackInv
<1>10. ASSUME NEW n \in Node, n \in N PROVE Range(req.changes) \subseteq Setting
  <2> DEFINE C == [param : Param, value : Nat \cup {Unset, Bad}]
  <2>1. Range(<<>>) = {}
    BY SMT DEF Range
  <2>2. \A x \in Range(req.changes) : x.param \in White
    BY <1>10, <1>t, <2>1 DEF Accepted
  <2>3. \A i \in DOMAIN req.changes : req.changes[i].value # Bad
    <3>1. req.changes \in Seq(C)
      BY <1>2, Requested
    <3> HIDE DEF C
    <3>2. DOMAIN req.changes = 1 .. Len(req.changes)
          /\ \A i \in DOMAIN req.changes : \A j \in 1 .. i : j \in DOMAIN req.changes
      BY <3>1, SMT
    <3>3. \A i \in DOMAIN req.changes : req.changes[i].param \in White
      BY <2>2 DEF Range
    <3> QED BY <1>1, <3>2, <3>3 DEF Throws
  <2>4. \A x \in Range(req.changes) : x.value # Bad
    BY <2>3 DEF Range
  <2>5. \A x \in Range(req.changes) : x \in C
    BY <1>2, Requested
  <2> QED BY <2>2, <2>4, <2>5 DEF Setting
<1>11. TasksInv'
  <2>1. ASSUME NEW n \in Node PROVE TaskOk(n, task[n])'
    <3>1. task'[n].at # "none" => Range(req.changes) \subseteq Setting
      BY <1>4, <1>10
    <3>2. task'[n].at \in {"none", "start"}
      BY <1>4
    <3> QED BY <1>1, <1>4, <3>1, <3>2 DEF TaskOk
  <2> QED BY <2>1 DEF TasksInv
<1>12. SentInv'
  BY <1>1 DEF SentInv, ReadBackIsFresh, AnsweredNodesComplete
<1> QED BY <1>3, <1>5, <1>6, <1>7, <1>8, <1>9, <1>11, <1>12

(* The names of all nodes. *)
LEMMA Lists ==
    ASSUME RequestInv, get_node_names
    PROVE  RequestInv'
<1> USE DEF RequestInv, nodeVars, histVars
<1>1. /\ ~ros1 /\ phase = "get_params" /\ Named(req) = {}
      /\ listed' = ready \ {Self} /\ phase' = "services"
      /\ UNCHANGED <<ros1, nodeVars, req, call, task, requests, histVars>>
  BY DEF get_node_names
<1>2. Refused' = Refused /\ Named(req)' = Named(req) /\ \A p : Has(p)' = Has(p)
  BY <1>1 DEF Refused, Named, Has
<1>3. TypeInv' /\ PlaceInv' /\ ListedInv'
  BY <1>1, <1>2 DEF TypeInv, PlaceInv, ListedInv
<1>4. Ros1Inv' /\ OwnInv' /\ ReadBackInv'
  BY <1>1, <1>2 DEF Ros1Inv, OwnInv, ReadBackInv
<1>5. TasksInv'
  BY <1>1, BetweenCalls DEF TasksInv, TaskOk
<1>6. AskedInv' /\ AnswersInv'
  BY <1>1, <1>2, NoCall
<1>7. SentInv'
  BY <1>1 DEF SentInv, ReadBackIsFresh, AnsweredNodesComplete
<1> QED BY <1>3, <1>4, <1>5, <1>6, <1>7

(* A get, or the read back of a set, sets out. *)
LEMMA GetsOut ==
    ASSUME RequestInv, get_params
    PROVE  RequestInv'
<1> USE DEF RequestInv, nodeVars, histVars
<1>1. /\ ~ros1 /\ phase \in {"get_params", "services"} /\ StartTasks
      /\ phase' = "get" /\ call' = call + 1 /\ listed' = {}
      /\ UNCHANGED <<ros1, nodeVars, req, requests, histVars>>
  BY DEF get_params
<1>t. PICK N : /\ Named(req) = {} \/ N \subseteq {NodeOf[p] : p \in Named(req)}
               /\ task' = Tasks(N)
  BY <1>1 DEF StartTasks, Called
<1>2. req \in Requests /\ req # None
  BY <1>1 DEF PlaceInv, TypeInv
<1>3. call' \in Nat /\ call' # 0 /\ AskedInv' /\ AnswersInv'
  BY <1>1, NewCall
<1>4. \A n \in Node : /\ task'[n].result = {}
                      /\ task'[n].at = IF n \in N THEN "start" ELSE "none"
  BY <1>t, TaskTypes, SMT
<1>5. TypeInv'
  BY <1>1, <1>3, <1>t, TaskTypes DEF TypeInv
<1>6. PlaceInv' /\ ListedInv'
  BY <1>1, <1>2, <1>3 DEF PlaceInv, ListedInv
<1>7. Ros1Inv'
  BY <1>1 DEF Ros1Inv
<1>8. OwnInv'
  <2>1. Refused' = Refused
    BY <1>1 DEF Refused, Named
  <2> QED BY <1>1, <2>1 DEF OwnInv
<1>9. ReadBackInv'
  <2>1. Named(req)' = Named(req) /\ \A p : Has(p)' = Has(p)
    BY <1>1 DEF Named, Has
  <2> QED BY <1>1, <2>1 DEF ReadBackInv
<1>10. TasksInv'
  <2>1. ASSUME NEW n \in Node PROVE TaskOk(n, task[n])'
    <3>1. task'[n].at # "none" =>
            Named(req) = {} \/ \E p \in Named(req) : NodeOf[p] = n
      BY <1>4, <1>t
    <3>2. task'[n].at \in {"none", "start"} /\ task'[n].result = {}
      BY <1>4
    <3>3. Named(req)' = Named(req)
      BY <1>1 DEF Named
    <3>4. RightValues(n, task[n].result)'
      BY <3>2 DEF RightValues
    <3> QED BY <1>1, <3>1, <3>2, <3>3, <3>4 DEF TaskOk
  <2> QED BY <2>1 DEF TasksInv
<1>11. SentInv'
  BY <1>1 DEF SentInv, ReadBackIsFresh, AnsweredNodesComplete
<1> QED BY <1>3, <1>5, <1>6, <1>7, <1>8, <1>9, <1>10, <1>11

(* The sets are waited for; a request with an id goes on to read back. *)
LEMMA SetsJoin ==
    ASSUME RequestInv, SetJoin
    PROVE  RequestInv'
<1> USE DEF RequestInv
<1>1. /\ Joined /\ phase = "set"
      /\ UNCHANGED <<ros1, nodeVars, call, requests, own, unset, left>>
      /\ lost' = {p \in Named(req) : task[NodeOf[p]].at \in {"none", "failed"}}
  BY DEF SetJoin
<1>2. req \in Requests /\ req # None /\ req.op = "set"
  BY <1>1 DEF PlaceInv, TypeInv
<1>3. CASE Finish /\ NoReply(FALSE) /\ ~req.withId
  BY <1>1, <1>2, <1>3, NoValues, Ends
<1>b. CASE Finish /\ NoReply(TRUE) /\ Broken
  BY <1>1, <1>b, BrokenFails, NoValues, Ends
<1>4. CASE phase' = "get_params" /\ task' = Tasks({}) /\ UNCHANGED <<req, listed, sent>>
  <2>1. TypeInv'
    BY <1>1, <1>4, TaskTypes DEF TypeInv, nodeVars
  <2>2. PlaceInv' /\ ListedInv'
    BY <1>1, <1>2, <1>4 DEF PlaceInv, ListedInv, nodeVars
  <2>3. Ros1Inv'
    BY <1>1 DEF Ros1Inv
  <2>4. Refused' = Refused /\ Named(req)' = Named(req)
    BY <1>1, <1>4 DEF Refused, Named
  <2>5. OwnInv'
    BY <1>1, <2>4 DEF OwnInv, nodeVars
  <2>6. ReadBackInv'
    <3>1. ASSUME NEW p \in Named(req) \ (lost' \cup ReadOnly) PROVE Has(p)'
      <4>1. NodeOf[p] \in Node
        BY <1>2, Requested
      <4>2. task[NodeOf[p]].at = "done"
        BY <1>1, <3>1, <4>1 DEF Joined
      <4>3. Confirmed(NodeOf[p])
        BY <1>1, <4>1, <4>2 DEF TasksInv, TaskOk
      <4> QED BY <1>1, <3>1, <4>3 DEF Confirmed, Has
    <3> QED BY <2>4, <3>1 DEF ReadBackInv
  <2>7. TasksInv'
    BY <1>4, TaskTypes DEF TasksInv, TaskOk
  <2>8. AskedInv' /\ AnswersInv'
    BY <1>1, <1>4, <2>4, NoCall DEF nodeVars
  <2>9. SentInv'
    BY <1>1, <1>4 DEF SentInv, ReadBackIsFresh, AnsweredNodesComplete
  <2> QED BY <2>1, <2>2, <2>3, <2>5, <2>6, <2>7, <2>8, <2>9
<1> QED BY <1>3, <1>b, <1>4 DEF SetJoin

(* The gets are waited for, and their values sent. *)
LEMMA GetsJoin ==
    ASSUME RequestInv, GetJoin
    PROVE  RequestInv'
<1> USE DEF RequestInv
<1> DEFINE V == {v \in Merged : v.value # Unset}
<1>j. /\ Joined /\ phase = "get" /\ Finish
      /\ UNCHANGED <<ros1, nodeVars, call, requests, own, lost, unset, left>>
      /\ Reply(V, FALSE) \/ (Broken /\ NoReply(TRUE))
  BY DEF GetJoin
<1>b. CASE Broken /\ NoReply(TRUE)
  BY <1>j, <1>b, BrokenFails, NoValues, Ends
<1> SUFFICES ASSUME Reply(V, FALSE) PROVE RequestInv'
  BY <1>j, <1>b
<1>1. /\ Joined /\ phase = "get" /\ Reply(V, FALSE) /\ Finish
      /\ UNCHANGED <<ros1, nodeVars, call, requests, own, lost, unset, left>>
  BY <1>j
<1>2. /\ sent'.req = req /\ sent'.answered /\ sent'.values = V /\ sent'.own = own
      /\ sent'.lost = lost /\ sent'.done = {n \in Node : task[n].at = "done"}
  <2> HIDE DEF V
  <2> QED BY <1>1, SMT DEF Reply, Sent
<1>3. ~ros1 /\ req \in Requests
  BY <1>1 DEF Ros1Inv, PlaceInv, TypeInv
<1>4. \A n \in Node : /\ RightValues(n, task[n].result)
                      /\ \A v \in task[n].result : v.param \in White
                      /\ task[n].at = "done" => AllValues(n, task[n].result)
  BY <1>1 DEF TasksInv, TaskOk
<1>5. \A v \in V : \E n \in Node : v \in task[n].result
  BY DEF Merged
<1>6. \A v \in V : v.param \in White /\ Wanted(v.param)
  BY <1>4, <1>5 DEF RightValues
<1>7. ReadBackIsFresh'
  <2> SUFFICES ASSUME req.op = "set", NEW v \in V,
                      v.param \in Named(req) \ (lost \cup ReadOnly)
               PROVE  \E o \in own : o.param = v.param /\ o.n <= v.at
    BY <1>2 DEF ReadBackIsFresh
  <2> QED BY <1>4, <1>5 DEF RightValues
<1>8. AnsweredNodesComplete'
  <2> SUFFICES ASSUME NEW p \in White, NodeOf[p] \in Node,
                      task[NodeOf[p]].at = "done",
                      \A q \in unset : NodeOf[q] # NodeOf[p],
                      Named(req) = {} \/ p \in Named(req)
               PROVE  \E v \in V : v.param = p
    BY <1>1, <1>2 DEF AnsweredNodesComplete
  <2>1. AllValues(NodeOf[p], task[NodeOf[p]].result)
        /\ RightValues(NodeOf[p], task[NodeOf[p]].result)
    BY <1>4
  <2>2. PICK v \in task[NodeOf[p]].result : v.param = p
    BY <2>1 DEF AllValues, AlwaysSet, Wanted
  <2>3. v.value # Unset
    BY <2>1 DEF RightValues
  <2> QED BY <2>2, <2>3 DEF Merged
<1> HIDE DEF V
<1>9. SentInv'
  BY <1>2, <1>6, <1>7, <1>8 DEF SentInv, Wanted
<1> QED BY <1>1, <1>9, Ends

(* The values ROS 1 answers with. *)
LEMMA Ros1Answers ==
    ASSUME NEW failed, ros1, UNCHANGED ros1,
           Ros1Answer(Named(req), failed),
           req.op = "set" => \A p \in Named(req) \ (lost' \cup ReadOnly) :
               \E o \in own' : o.param = p /\ o.n <= changes'[p]
    PROVE  SentInv'
<1>1. PICK N : /\ Named(req) = {} \/ N \subseteq Named(req)
               /\ sent'.req = req /\ sent'.own = own' /\ sent'.lost = lost'
               /\ sent'.values = Ros1Values(N)
  <2> DEFINE all == {p \in White : value'[p] # Unset}
             M == IF Named(req) = {} THEN all ELSE Named(req)
  <2>1. PICK F \in SUBSET M : \E error : Reply(Ros1Values(M \ F), error)
    BY DEF Ros1Answer
  <2>2. PICK error : Reply(Ros1Values(M \ F), error)
    BY <2>1
  <2>3. Named(req) = {} \/ M \ F \subseteq Named(req)
    OBVIOUS
  <2> HIDE DEF M
  <2>4. /\ sent'.req = req /\ sent'.own = own' /\ sent'.lost = lost'
        /\ sent'.values = Ros1Values(M \ F)
    BY <2>2 DEF Reply, Sent
  <2> QED BY <2>3, <2>4
<1>2. \A v \in sent'.values : v.param \in N /\ v.at = changes'[v.param]
  BY <1>1, SMT DEF Ros1Values
<1>3. ReadBackIsFresh'
  <2> SUFFICES ASSUME req.op = "set", NEW v \in sent'.values,
                      v.param \in Named(req) \ (lost' \cup ReadOnly)
               PROVE  \E o \in own' : o.param = v.param /\ o.n <= v.at
    BY <1>1 DEF ReadBackIsFresh
  <2> QED BY <1>2
<1> QED BY <1>1, <1>2, <1>3 DEF SentInv, AnsweredNodesComplete

(* ROS 1 answers a get. *)
LEMMA Ros1Gets ==
    ASSUME RequestInv, Ros1Get \/ Ros1GetThrows
    PROVE  RequestInv'
<1>1. /\ ros1 /\ phase = "get_params" /\ Finish
      /\ UNCHANGED <<ros1, nodeVars, call, requests, own, lost, unset, left>>
  BY DEF Ros1Get, Ros1GetThrows
<1>2. req.op = "get"
  BY <1>1 DEF RequestInv, Ros1Inv
<1>3. SentInv'
  <2>1. CASE Ros1Get
    BY <1>1, <1>2, <2>1, Ros1Answers DEF Ros1Get
  <2>2. CASE Ros1GetThrows
    BY <2>2, NoValues DEF Ros1GetThrows
  <2> QED BY <2>1, <2>2
<1> QED BY <1>1, <1>3, Ends

(* The requests that end with an exception. *)
LEMMA Throwing ==
    ASSUME RequestInv, set_params_throws \/ get_params_throws
    PROVE  RequestInv'
<1>1. /\ Finish /\ NoReply(TRUE)
      /\ UNCHANGED <<ros1, nodeVars, call, requests, own, lost, unset, left>>
  BY DEF set_params_throws, get_params_throws
<1>2. ASSUME set_params_throws PROVE Fails(req, left)
  <2>1. /\ phase = "set_params" /\ req \in Requests
        /\ \E i \in 1 .. Len(req.changes) : req.changes[i].value = Bad
    BY <1>2 DEF set_params_throws, Throws, RequestInv, PlaceInv, TypeInv
  <2>2. DOMAIN req.changes = 1 .. Len(req.changes)
    <3> DEFINE C == [param : Param, value : Nat \cup {Unset, Bad}]
    <3>1. req.changes \in Seq(C)
      BY <2>1, Requested
    <3> HIDE DEF C
    <3> QED BY <3>1, SMT
  <2> QED BY <2>1, <2>2 DEF Fails, Range
<1>3. ASSUME get_params_throws PROVE Fails(req, left)
  <2>1. phase = "services" /\ ~(listed \subseteq ready)
    BY <1>3 DEF get_params_throws
  <2> QED BY <2>1 DEF Fails, RequestInv, PlaceInv, ListedInv
<1>4. Fails(req, left)
  BY <1>2, <1>3
<1> QED BY <1>1, <1>4, NoValues, Ends

-----------------------------------------------------------------------------
(* What a node, or the master, does with changes it is asked to make. *)
LEMMA Changing ==
    ASSUME RequestInv, NEW V, V \subseteq Nat \cup {Unset}, value \in [Param -> V],
           NEW cs \in Seq([param : White, value : V]), NEW ours \in BOOLEAN,
           Changed(cs, ours)
    PROVE  /\ value' \in [Param -> V] /\ changes' \in [Param -> Nat]
           /\ own \subseteq own' /\ own' \subseteq Made
           /\ \A o \in own' : o.n <= changes'[o.param]
           /\ \A p \in Param \ White : changes'[p] = 0
           /\ unset \subseteq unset' /\ unset' \subseteq Param
           /\ \A p \in Param : value'[p] = Unset => p \in unset'
           /\ ours => \A x \in Range(cs) :
                 x.param \in ReadOnly \/ \E o \in own' : o.param = x.param
           /\ cs = <<>> => own' = own
<1> USE DEF RequestInv
<1> DEFINE st == [value |-> value, changes |-> changes, own |-> own]
           new == Applied(st, cs)
<1>1. st \in States(V)
  BY DEF States, TypeInv, OwnInv
<1>2. /\ new \in States(V) /\ Grown(st, new)
      /\ \A x \in Range(cs) : HasChanged(new, x.param)
      /\ cs = <<>> => new = st
  <2> HIDE DEF st
  <2> QED BY <1>1, AppliedStep
<1>3. /\ value' = new.value /\ changes' = new.changes
      /\ own' = IF ours THEN new.own ELSE own
      /\ unset' = unset \cup {p \in Param : new.value[p] = Unset}
  BY DEF Changed
<1>4. st.own = own /\ st.changes = changes
  OBVIOUS
<1> HIDE DEF new, st
<1>5. /\ new.value \in [Param -> V] /\ new.changes \in [Param -> Nat]
      /\ new.own \subseteq Made
      /\ \A o \in new.own : o.n <= new.changes[o.param]
  BY <1>2 DEF States
<1>6. own \subseteq new.own /\ \A p \in Param \ White : new.changes[p] = 0
  BY <1>2, <1>4 DEF Grown, OwnInv
<1>7. own \subseteq own' /\ own' \subseteq new.own
  BY <1>3, <1>6
<1>8. cs = <<>> => own' = own
  BY <1>2, <1>3, <1>4
<1>9. /\ own' \subseteq Made /\ \A o \in own' : o.n <= changes'[o.param]
      /\ \A p \in Param \ White : changes'[p] = 0
  BY <1>3, <1>5, <1>6, <1>7
<1>10. /\ unset \subseteq unset' /\ unset' \subseteq Param
       /\ \A p \in Param : value'[p] = Unset => p \in unset'
  BY <1>3 DEF TypeInv
<1>11. ours => \A x \in Range(cs) :
         x.param \in ReadOnly \/ \E o \in own' : o.param = x.param
  BY <1>2, <1>3 DEF HasChanged
<1> QED BY <1>3, <1>5, <1>7, <1>8, <1>9, <1>10, <1>11

-----------------------------------------------------------------------------
(* The changes that are carried out in ROS 1, as the master gets them. *)
LEMMA Converted ==
    ASSUME NEW cs, NEW V, V = (0 .. IntRange - 1) \cup {Unset},
           cs \in Seq([param : White, value : Nat \cup {Unset}]),
           NEW ds, ds = [i \in DOMAIN cs |-> [cs[i] EXCEPT !.value = to_int(@)]]
    PROVE  /\ ds \in Seq([param : White, value : V])
           /\ \A x \in Range(cs) : \E y \in Range(ds) : y.param = x.param
<1> DEFINE C == [param : White, value : Nat \cup {Unset}]
           D == [param : White, value : V]
<1>1. DOMAIN cs = 1 .. Len(cs) /\ Len(cs) \in Nat /\ \A i \in DOMAIN cs : cs[i] \in C
  <2> HIDE DEF C
  <2>1. cs \in Seq(C)
    BY DEF C
  <2> QED BY <2>1, SMT
<1>2. ASSUME NEW i \in DOMAIN cs PROVE ds[i] \in D /\ ds[i].param = cs[i].param
  <2>1. /\ cs[i] = [param |-> cs[i].param, value |-> cs[i].value]
        /\ cs[i].param \in White /\ cs[i].value \in Nat \cup {Unset}
    BY <1>1
  <2>2. to_int(cs[i].value) \in V
    BY <2>1, IntValue
  <2>3. [cs[i] EXCEPT !.value = to_int(@)]
          = [param |-> cs[i].param, value |-> to_int(cs[i].value)]
    BY <2>1, SMT
  <2> QED BY <2>1, <2>2, <2>3
<1>3. DOMAIN ds = DOMAIN cs
  OBVIOUS
<1>4. ds \in Seq(D)
  <2> HIDE DEF D
  <2>1. ds = [i \in 1 .. Len(cs) |-> ds[i]]
    BY <1>1
  <2>2. ds \in [1 .. Len(cs) -> D]
    BY <1>1, <1>2, <2>1
  <2> QED BY <1>1, <2>2, SMT
<1>5. \A x \in Range(cs) : \E y \in Range(ds) : y.param = x.param
  BY <1>2, <1>3, SMT DEF Range
<1> QED BY <1>4, <1>5

(* ROS 1 carries out a set, and may read back. *)
LEMMA Ros1Sets ==
    ASSUME RequestInv, Ros1Set
    PROVE  RequestInv'
<1> USE DEF RequestInv
<1>1. /\ ros1 /\ phase = "set_params" /\ Finish
      /\ UNCHANGED <<ros1, ready, asked, answers, faults, call, requests>>
  BY DEF Ros1Set
<1>2. req \in Requests /\ req.op = "set"
  BY <1>1 DEF PlaceInv, TypeInv
<1> DEFINE bad(F) == {x \in Range(req.changes) :
                        x.param \notin White \ F \/ x.value = Bad}
           Kept(F, S) == {x \in Range(req.changes) \ bad(F) : x.param \notin S}
           cs(F, S) == Selected(req.changes, Kept(F, S))
           ds(F, S) == [i \in DOMAIN cs(F, S) |->
                          [cs(F, S)[i] EXCEPT !.value = to_int(@)]]
<1>3. PICK F \in SUBSET Named(req), S \in SUBSET Named(req) :
        /\ Changed(ds(F, S), TRUE)
        /\ lost' = S \cup {x.param : x \in bad(F)}
        /\ \/ NoReply(bad(F) # {})
           \/ Ros1Answer(Named(req), bad(F) # {})
           \/ NoReply(TRUE)
  BY DEF Ros1Set
<1> DEFINE C == [param : Param, value : Nat \cup {Unset, Bad}]
           V == (0 .. IntRange - 1) \cup {Unset}
<1>4. /\ req.changes \in Seq(C) /\ \A x \in Range(req.changes) : x \in C
      /\ Named(req) = {x.param : x \in Range(req.changes)}
  BY <1>2, Requested
<1>5. cs(F, S) \in Seq(C) /\ Range(cs(F, S)) = Kept(F, S)
  <2> HIDE DEF C
  <2>1. /\ cs(F, S) \in Seq(C)
        /\ Range(cs(F, S)) = Range(req.changes) \cap Kept(F, S)
    BY <1>4, SelectedElements
  <2> QED BY <2>1
<1>6. cs(F, S) \in Seq(Setting)
  <2>1. \A x \in Kept(F, S) : x \in Setting
    BY <1>4 DEF Setting
  <2> HIDE DEF cs, Kept, C
  <2>2. \A i \in DOMAIN cs(F, S) : cs(F, S)[i] \in Setting
    BY <1>5, <2>1 DEF Range
  <2>3. DOMAIN cs(F, S) = 1 .. Len(cs(F, S)) /\ Len(cs(F, S)) \in Nat
        /\ cs(F, S) = [i \in 1 .. Len(cs(F, S)) |-> cs(F, S)[i]]
    BY <1>5, SMT
  <2>4. cs(F, S) \in [1 .. Len(cs(F, S)) -> Setting]
    BY <2>2, <2>3
  <2> QED BY <2>3, <2>4, SMT
<1>7. /\ ds(F, S) \in Seq([param : White, value : V])
      /\ \A x \in Kept(F, S) : \E y \in Range(ds(F, S)) : y.param = x.param
  <2> HIDE DEF cs, Kept
  <2>1. cs(F, S) \in Seq([param : White, value : Nat \cup {Unset}])
    BY <1>6 DEF Setting
  <2>2. ds(F, S) = [i \in DOMAIN cs(F, S) |->
                      [cs(F, S)[i] EXCEPT !.value = to_int(@)]]
    OBVIOUS
  <2>3. V = (0 .. IntRange - 1) \cup {Unset}
    OBVIOUS
  <2> HIDE DEF ds, V
  <2>4. /\ ds(F, S) \in Seq([param : White, value : V])
        /\ \A x \in Range(cs(F, S)) : \E y \in Range(ds(F, S)) : y.param = x.param
    BY <2>1, <2>2, <2>3, Converted
  <2> QED BY <1>5, <2>4
<1>8. V \subseteq Nat \cup {Unset}
  <2>1. IntRange \in Nat
    BY RequestConstants
  <2> QED BY <2>1, SMT
<1>9. value \in [Param -> V]
  BY <1>1 DEF TypeInv, Ros1Inv
<1>10. /\ value' \in [Param -> V] /\ changes' \in [Param -> Nat]
       /\ own' \subseteq Made
       /\ \A o \in own' : o.n <= changes'[o.param]
       /\ \A p \in Param \ White : changes'[p] = 0
       /\ unset \subseteq unset' /\ unset' \subseteq Param
       /\ \A p \in Param : value'[p] = Unset => p \in unset'
       /\ \A x \in Range(ds(F, S)) :
            x.param \in ReadOnly \/ \E o \in own' : o.param = x.param
  <2> HIDE DEF ds, V
  <2> QED BY <1>3, <1>7, <1>8, <1>9, Changing
<1>11. SentInv'
  <2>1. ASSUME NEW p \in Named(req) \ (lost' \cup ReadOnly)
        PROVE  \E o \in own' : o.param = p /\ o.n <= changes'[p]
    <3>1. PICK x \in Range(req.changes) : x.param = p
      BY <1>4
    <3>2. x \in Kept(F, S)
      BY <1>3, <2>1, <3>1
    <3> HIDE DEF Kept, ds
    <3>3. PICK y \in Range(ds(F, S)) : y.param = p
      BY <1>7, <3>1, <3>2
    <3> QED BY <1>10, <2>1, <3>3
  <2> HIDE DEF bad
  <2> QED BY <1>1, <1>3, <2>1, NoValues, Ros1Answers
<1> HIDE DEF bad, Kept, cs, ds
<1>12. value' \in [Param -> Nat \cup {Unset}]
  <2> HIDE DEF V
  <2> QED BY <1>8, <1>10
<1>13. TypeInv'
  BY <1>1, <1>10, <1>12, TaskTypes DEF TypeInv, Finish
<1>14. PlaceInv' /\ ListedInv'
  BY <1>1 DEF PlaceInv, ListedInv, Finish
<1>15. Ros1Inv'
  BY <1>1, <1>10 DEF Ros1Inv, Finish
<1>16. ~Refused'
  BY <1>1 DEF Refused
<1>17. OwnInv'
  BY <1>10, <1>16 DEF OwnInv
<1>18. ReadBackInv'
  BY <1>1 DEF ReadBackInv
<1>19. TasksInv'
  BY <1>1, TaskTypes DEF TasksInv, TaskOk, Finish
<1>20. AskedInv' /\ AnswersInv'
  BY <1>1, <1>16, NoCall DEF Finish
<1> QED BY <1>11, <1>13, <1>14, <1>15, <1>17, <1>18, <1>19, <1>20

(* A step of a node: the request goes on, with what it has changed and     *)
(* what it is asked for still right.                                       *)
LEMMA NodeStep ==
    ASSUME RequestInv, TypeInv', Ros1Inv', OwnInv',
           UNCHANGED <<ros1, callVars, lost, sent>>, left \subseteq left',
           phase = "services" => ready \subseteq ready' \cup left',
           own \subseteq own', unset \subseteq unset',
           \A n \in Node : /\ asked'[n].get \subseteq asked[n].get
                           /\ Range(asked'[n].set) \subseteq Range(asked[n].set),
           \A a \in answers' : a \in answers \/ AnswerOk(a)'
    PROVE  RequestInv'
<1> USE DEF RequestInv, callVars, reqVars
<1>1. PlaceInv' /\ ListedInv'
  BY DEF PlaceInv, ListedInv, Named
<1>2. /\ \A n, t : TaskOk(n, t) => TaskOk(n, t)'
      /\ \A n, g : GetOk(n, g) => GetOk(n, g)'
      /\ \A n, s : SetOk(n, s) => SetOk(n, s)'
      /\ \A a : AnswerOk(a) => AnswerOk(a)'
      /\ ReadBackInv'
  BY Stable
<1>3. TasksInv'
  BY <1>2 DEF TasksInv
<1>4. AskedInv'
  BY <1>2 DEF AskedInv
<1>5. AnswersInv'
  BY <1>2 DEF AnswersInv
<1>6. SentInv'
  BY DEF SentInv, ReadBackIsFresh, AnsweredNodesComplete
<1> QED BY <1>1, <1>2, <1>3, <1>4, <1>5, <1>6

(* A node stops or is back. *)
LEMMA NodeFaults ==
    ASSUME RequestInv, NEW n \in Node, NodeFault(n)
    PROVE  RequestInv'
<1> USE DEF RequestInv, callVars, reqVars, histVars
<1>1. /\ ~ros1 /\ n \notin BadNode
      /\ UNCHANGED <<ros1, changes, answers, callVars, own, lost, unset, sent>>
      /\ left' = (IF n \in ready /\ req # None THEN left \cup {n} ELSE left)
      /\ ready' = (IF n \in ready THEN ready \ {n} ELSE ready \cup {n})
      /\ asked' = [asked EXCEPT ![n] = [get |-> {}, set |-> <<>>]]
      /\ value' = [p \in Param |-> IF NodeOf[p] = n THEN Start[p] ELSE value[p]]
  BY DEF NodeFault
<1>2. <<>> \in Seq(SetAsked)
  BY SMT
<1>3. asked' \in [Node -> [get : SUBSET GetAsked, set : Seq(SetAsked)]]
  BY <1>1, <1>2 DEF TypeInv
<1>4. /\ asked'[n] = [get |-> {}, set |-> <<>>]
      /\ \A m \in Node : m # n => asked'[m] = asked[m]
  BY <1>1 DEF TypeInv
<1>5. value' \in [Param -> Nat \cup {Unset}]
  BY <1>1, RequestConstants DEF TypeInv
<1>6. TypeInv'
  BY <1>1, <1>3, <1>5 DEF TypeInv
<1>7. Ros1Inv'
  BY <1>1 DEF Ros1Inv
<1>8. OwnInv'
  <2>1. Refused' = Refused
    BY <1>1 DEF Refused, Named
  <2>2. \A p \in Param : value'[p] = Unset \/ Start[p] = Unset => p \in unset
    BY <1>1 DEF OwnInv
  <2> QED BY <1>1, <2>1, <2>2 DEF OwnInv
<1>9. ASSUME NEW m \in Node
      PROVE  /\ asked'[m].get \subseteq asked[m].get
             /\ Range(asked'[m].set) \subseteq Range(asked[m].set)
  <2>1. Range(<<>>) = {}
    BY SMT DEF Range
  <2> QED BY <1>4, <2>1, SMT
<1>10. left \subseteq left' /\ (phase = "services" => ready \subseteq ready' \cup left')
  BY <1>1 DEF PlaceInv
<1> QED BY <1>1, <1>6, <1>7, <1>8, <1>9, <1>10, NodeStep

(* The first of a sequence and the rest. *)
LEMMA HeadTail ==
    ASSUME NEW E, NEW s \in Seq(E), s # <<>>
    PROVE  /\ Head(s) \in Range(s) /\ Tail(s) \in Seq(E)
           /\ Range(Tail(s)) \subseteq Range(s)
<1>1. /\ Head(s) = s[1] /\ 1 \in DOMAIN s /\ Tail(s) \in Seq(E)
      /\ \A i \in DOMAIN Tail(s) : i + 1 \in DOMAIN s /\ Tail(s)[i] = s[i + 1]
  BY SMT
<1> QED BY <1>1, SMT DEF Range

(* A node carries out the oldest set it was asked for, and confirms it. *)
LEMMA NodeSetting ==
    ASSUME RequestInv, NEW n \in Node, NodeSets(n)
    PROVE  RequestInv'
<1> USE DEF RequestInv, callVars, reqVars
<1> PICK s : s = Head(asked[n].set)
  OBVIOUS
<1> PICK a : a = [node |-> n, call |-> s.call, kind |-> "set",
                  names |-> {}, values |-> {}]
  OBVIOUS
<1>1. /\ asked[n].set # <<>>
      /\ asked' = [asked EXCEPT ![n].set = Tail(@)]
      /\ Changed(s.changes, s.by = requests) /\ Answers(a)
      /\ UNCHANGED <<ros1, ready, faults, callVars, lost, left, sent>>
  BY DEF NodeSets
<1>2. asked[n].set \in Seq(SetAsked) /\ asked[n].get \subseteq GetAsked
  BY Types
<1>3. /\ s \in Range(asked[n].set) /\ Tail(asked[n].set) \in Seq(SetAsked)
      /\ Range(Tail(asked[n].set)) \subseteq Range(asked[n].set)
  BY <1>1, <1>2, HeadTail
<1>4. /\ s \in SetAsked /\ SetOk(n, s) /\ ~ros1
  BY <1>1, <1>3, Types DEF AskedInv, Ros1Inv
<1>5. /\ s.call \in Nat \ {0} /\ s.changes \in Seq(Setting)
  BY <1>4 DEF SetAsked
<1>6. asked'[n] = [get |-> asked[n].get, set |-> Tail(asked[n].set)]
      /\ \A m \in Node : m # n => asked'[m] = asked[m]
  BY <1>1 DEF TypeInv
<1>7. asked' \in [Node -> [get : SUBSET GetAsked, set : Seq(SetAsked)]]
  BY ZenonT(40), <1>1, <1>2, <1>3, <1>6 DEF TypeInv
<1> DEFINE V == Nat \cup {Unset}
<1>8. /\ value' \in [Param -> V] /\ changes' \in [Param -> Nat]
      /\ own \subseteq own' /\ own' \subseteq Made
      /\ \A o \in own' : o.n <= changes'[o.param]
      /\ \A p \in Param \ White : changes'[p] = 0
      /\ unset \subseteq unset' /\ unset' \subseteq Param
      /\ \A p \in Param : value'[p] = Unset => p \in unset'
      /\ s.by = requests => \A x \in Range(s.changes) :
            x.param \in ReadOnly \/ \E o \in own' : o.param = x.param
      /\ s.changes = <<>> => own' = own
  <2>1. V \subseteq Nat \cup {Unset} /\ value \in [Param -> V]
    BY DEF TypeInv
  <2>2. s.changes \in Seq([param : White, value : V])
    BY <1>5 DEF Setting
  <2> HIDE DEF V
  <2>3. (s.by = requests) \in BOOLEAN
    OBVIOUS
  <2> QED BY <1>1, <2>1, <2>2, <2>3, Changing
<1>9. own' = own \/ s.by = requests
  BY <1>1 DEF Changed
<1>10. a \in Answer
  BY <1>5 DEF Answer
<1>11. answers' \in {answers, answers \cup {a}} /\ (answers' # answers => s.call = call)
  BY <1>1 DEF Answers
<1> HIDE DEF V
<1>12. TypeInv'
  <2>1. answers' \subseteq Answer
    BY <1>10, <1>11 DEF TypeInv
  <2> QED BY <1>1, <1>7, <1>8, <2>1 DEF TypeInv, V
<1>13. Ros1Inv'
  BY <1>1, <1>4 DEF Ros1Inv
<1>14. OwnInv'
  <2>1. Refused' = Refused
    BY <1>1 DEF Refused, Named
  <2>2. Refused => own' = {}
    BY <1>4, <1>8, <1>9 DEF SetOk, OwnInv
  <2>3. \A p \in Param : value'[p] = Unset \/ Start[p] = Unset => p \in unset'
    BY <1>8 DEF OwnInv
  <2> QED BY <1>8, <2>1, <2>2, <2>3 DEF OwnInv
<1>15. AnswerOk(a)'
  <2>1. s.call <= call /\ call' = call
    BY <1>1, <1>4 DEF SetOk
  <2>2. phase = "set" /\ s.call = call => Confirmed(n)'
    <3>1. SUFFICES ASSUME phase = "set", s.call = call,
                          NEW p \in Named(req) \ ReadOnly, NodeOf[p] = n
                   PROVE  \E o \in own' : o.param = p
      BY <1>1 DEF Confirmed, Has, Named
    <3>2. s.by = requests /\ \E x \in Range(s.changes) : x.param = p
      BY <1>4, <3>1 DEF SetOk
    <3> QED BY <1>8, <3>1, <3>2
  <2>3. a.node = n /\ a.call = s.call /\ a.kind = "set" /\ a.values = {}
    OBVIOUS
  <2> QED BY <1>1, <2>1, <2>2, <2>3 DEF AnswerOk
<1>16. \A m \in Node : /\ asked'[m].get \subseteq asked[m].get
                       /\ Range(asked'[m].set) \subseteq Range(asked[m].set)
  <2>1. asked'[n].get = asked[n].get /\ asked'[n].set = Tail(asked[n].set)
    BY <1>6, SMT
  <2> QED BY <1>3, <1>6, <2>1
<1> QED BY <1>1, <1>8, <1>11, <1>12, <1>13, <1>14, <1>15, <1>16, NodeStep

(* A node answers what it was asked: with what it has now. *)
LEMMA NodeGetting ==
    ASSUME RequestInv, NEW n \in Node, NodeGets(n)
    PROVE  RequestInv'
<1> USE DEF RequestInv, callVars, reqVars, histVars
<1> PICK set : set = {p \in Param : NodeOf[p] = n /\ value[p] # Unset}
  OBVIOUS
<1>1. PICK g \in asked[n].get : \E W :
        /\ \/ W = {[param |-> p, value |-> value[p], at |-> changes[p]] :
                     p \in g.names \cap set}
           \/ W = {} /\ ~(g.names \subseteq set)
        /\ asked' = [asked EXCEPT ![n].get = @ \ {g}]
        /\ Answers([node |-> n, call |-> g.call, kind |-> g.kind,
                    names |-> IF g.kind = "list" THEN set ELSE {}, values |-> W])
        /\ UNCHANGED <<ros1, value, changes, ready, faults, callVars, histVars>>
  BY DEF NodeGets
<1>2. PICK W :
        /\ \/ W = {[param |-> p, value |-> value[p], at |-> changes[p]] :
                     p \in g.names \cap set}
           \/ W = {} /\ ~(g.names \subseteq set)
        /\ asked' = [asked EXCEPT ![n].get = @ \ {g}]
        /\ Answers([node |-> n, call |-> g.call, kind |-> g.kind,
                    names |-> IF g.kind = "list" THEN set ELSE {}, values |-> W])
        /\ UNCHANGED <<ros1, value, changes, ready, faults, callVars, histVars>>
  BY <1>1
<1> PICK a : a = [node |-> n, call |-> g.call, kind |-> g.kind,
                  names |-> IF g.kind = "list" THEN set ELSE {}, values |-> W]
  OBVIOUS
<1>3. /\ g \in GetAsked /\ GetOk(n, g)
      /\ asked[n].set \in Seq(SetAsked) /\ asked[n].get \subseteq GetAsked
  BY Types DEF AskedInv
<1>4. g.kind \in {"list", "get"} /\ g.call \in Nat \ {0} /\ g.names \subseteq Param
  BY <1>3 DEF GetAsked
<1>5. asked'[n] = [get |-> asked[n].get \ {g}, set |-> asked[n].set]
      /\ \A m \in Node : m # n => asked'[m] = asked[m]
  BY <1>2 DEF TypeInv
<1>6. asked' \in [Node -> [get : SUBSET GetAsked, set : Seq(SetAsked)]]
  <2>1. asked' = [asked EXCEPT ![n] = asked'[n]]
    BY <1>2 DEF TypeInv
  <2>2. asked'[n] \in [get : SUBSET GetAsked, set : Seq(SetAsked)]
    BY <1>3, <1>5, SMT
  <2> QED BY <2>1, <2>2 DEF TypeInv
<1>7. \A v \in W : /\ v \in Reading /\ v.param \in g.names \cap set
                   /\ v.value = value[v.param] /\ v.at = changes[v.param]
  <2>1. \A p \in g.names \cap set :
          /\ p \in Param /\ value[p] \in Nat \cup {Unset} /\ changes[p] \in Nat
    BY <1>4 DEF TypeInv
  <2> QED BY <1>2, <2>1, SMT DEF Reading
<1>8. a \in Answer
  <2>1. W \subseteq Reading /\ (IF g.kind = "list" THEN set ELSE {}) \subseteq Param
    BY <1>7
  <2> QED BY <1>4, <2>1 DEF Answer
<1>9. answers' \in {answers, answers \cup {a}}
  BY <1>2 DEF Answers
<1>10. TypeInv'
  <2>1. answers' \subseteq Answer
    BY <1>8, <1>9 DEF TypeInv
  <2> QED BY <1>2, <1>6, <2>1 DEF TypeInv
<1>11. Ros1Inv'
  BY <1>2, <1>5, SMT DEF Ros1Inv
<1>12. OwnInv'
  <2>1. Refused' = Refused
    BY <1>2 DEF Refused, Named
  <2> QED BY <1>2, <2>1 DEF OwnInv
<1>13. \A p \in set : NodeOf[p] = n /\ value[p] # Unset
  OBVIOUS
<1>14. AlwaysSet(n) => \A p \in Param : NodeOf[p] = n => p \in set
  BY DEF AlwaysSet, OwnInv
<1>15. ASSUME phase = "get", g.call = call
       PROVE  /\ g.kind = "list" => Named(req) = {} /\ RightNames(n, set)
              /\ g.kind = "get" => RightValues(n, W) /\ AllValues(n, W)
  <2>1. CASE g.kind = "list"
    <3>1. Named(req) = {}
      BY <1>3, <1>15, <2>1 DEF GetOk
    <3>2. White \subseteq Param
      BY RequestConstants
    <3> QED BY <1>13, <1>14, <2>1, <3>1, <3>2 DEF RightNames, Wanted
  <2>2. CASE g.kind = "get"
    <3>1. RightNames(n, g.names)
      BY <1>3, <1>15, <2>2 DEF GetOk
    <3>2. ASSUME NEW v \in W, req.op = "set",
                 v.param \in Named(req) \ (lost \cup ReadOnly)
          PROVE  \E o \in own : o.param = v.param /\ o.n <= v.at
      <4>1. ~ros1
        BY <1>15 DEF Ros1Inv
      <4>2. PICK o \in own : o.param = v.param
        BY <1>15, <3>2, <4>1 DEF ReadBackInv, Has
      <4>3. o.n <= changes[o.param]
        BY DEF OwnInv
      <4> QED BY <1>7, <4>2, <4>3
    <3>3. RightValues(n, W)
      BY <1>7, <1>13, <3>1, <3>2 DEF RightValues, RightNames
    <3>4. ASSUME AlwaysSet(n), NEW p \in White, NodeOf[p] = n, Wanted(p)
          PROVE  \E v \in W : v.param = p
      <4>1. p \in g.names
        BY <3>1, <3>4 DEF RightNames
      <4>2. g.names \subseteq set /\ p \in set
        BY <1>4, <1>14, <3>1, <3>4, <4>1 DEF RightNames
      <4>3. [param |-> p, value |-> value[p], at |-> changes[p]] \in W
        BY <1>2, <4>1, <4>2
      <4> QED BY <4>3
    <3>5. AllValues(n, W)
      BY <3>4 DEF AllValues
    <3> QED BY <2>2, <3>3, <3>5
  <2> QED BY <1>4, <2>1, <2>2
<1>16. AnswerOk(a)'
  <2>1. AnswerOk(a)
    <3>1. a.node = n /\ a.call = g.call /\ a.kind = g.kind /\ a.values = W
          /\ (g.kind = "list" => a.names = set)
      OBVIOUS
    <3>2. g.call <= call /\ g.kind # "set"
      BY <1>3, <1>4 DEF GetOk
    <3> QED BY <1>15, <3>1, <3>2 DEF AnswerOk
  <2>2. /\ UNCHANGED <<ros1, req, phase, call, requests, lost>>
        /\ own \subseteq own' /\ unset \subseteq unset'
    BY <1>2
  <2> QED BY <2>1, <2>2, Stable
<1>17. \A m \in Node : /\ asked'[m].get \subseteq asked[m].get
                       /\ Range(asked'[m].set) \subseteq Range(asked[m].set)
  <2>1. asked'[n].get = asked[n].get \ {g} /\ asked'[n].set = asked[n].set
    BY <1>5, SMT
  <2> QED BY <1>5, <2>1
<1> QED BY <1>2, <1>9, <1>10, <1>11, <1>12, <1>16, <1>17, NodeStep

-----------------------------------------------------------------------------
(* A step of the task for n. *)
LEMMA TaskStep ==
    ASSUME RequestInv, NEW n \in Node,
           NEW t \in [at : Places, result : SUBSET Reading],
           task' = [task EXCEPT ![n] = t], phase \in {"set", "get"}, TaskOk(n, t),
           UNCHANGED <<ros1, value, changes, ready, reqVars, histVars>>,
           answers' \subseteq answers,
           asked' \in [Node -> [get : SUBSET GetAsked, set : Seq(SetAsked)]],
           \A m \in Node :
             /\ \A g \in asked'[m].get : g \in asked[m].get \/ GetOk(m, g)
             /\ \A s \in Range(asked'[m].set) :
                  s \in Range(asked[m].set) \/ SetOk(m, s)
    PROVE  RequestInv'
<1> USE DEF RequestInv, reqVars, histVars
<1>1. TypeInv'
  <2>1. task' \in [Node -> [at : Places, result : SUBSET Reading]]
    BY DEF TypeInv
  <2> QED BY <2>1 DEF TypeInv
<1>2. PlaceInv' /\ ListedInv'
  BY DEF PlaceInv, ListedInv, Named
<1>3. Ros1Inv'
  BY DEF Ros1Inv
<1>4. OwnInv'
  <2>1. Refused' = Refused
    BY DEF Refused, Named
  <2> QED BY <2>1 DEF OwnInv
<1>5. /\ \A m, u : TaskOk(m, u) => TaskOk(m, u)'
      /\ \A m, g : GetOk(m, g) => GetOk(m, g)'
      /\ \A m, s : SetOk(m, s) => SetOk(m, s)'
      /\ \A a : AnswerOk(a) => AnswerOk(a)'
      /\ ReadBackInv'
  BY Stable
<1>6. TasksInv'
  <2>1. task'[n] = t /\ \A m \in Node : m # n => task'[m] = task[m]
    BY DEF TypeInv
  <2> QED BY <1>5, <2>1 DEF TasksInv
<1>7. AskedInv'
  BY <1>5 DEF AskedInv
<1>8. AnswersInv'
  BY <1>5 DEF AnswersInv
<1>9. SentInv'
  BY DEF SentInv, ReadBackIsFresh, AnsweredNodesComplete
<1> QED BY <1>1, <1>2, <1>3, <1>4, <1>5, <1>6, <1>7, <1>8, <1>9

-----------------------------------------------------------------------------
(* A task that is there may be anywhere its phase has a place for, with    *)
(* nothing.                                                                *)
LEMMA TaskThere ==
    ASSUME RequestInv, NEW n \in Node, task[n].at # "none"
    PROVE  /\ phase \in {"set", "get"} /\ ~ros1 /\ call \in Nat \ {0}
           /\ req \in Requests
           /\ \A x : \/ x \in {"failed", "start"}
                     \/ phase = "set" /\ x = "set"
                     \/ phase = "get" /\ x \in {"list", "get"}
                => /\ [at |-> x, result |-> {}] \in [at : Places, result : SUBSET Reading]
                   /\ TaskOk(n, [at |-> x, result |-> {}])
<1> USE DEF RequestInv
<1>1. phase \in {"set", "get"} /\ TaskOk(n, task[n])
  BY DEF TasksInv, TaskOk
<1>2. ~ros1 /\ req \in Requests
  BY <1>1 DEF Ros1Inv, PlaceInv, TypeInv
<1>3. call \in Nat \ {0}
  BY <1>1 DEF PlaceInv, TypeInv
<1>4. ASSUME NEW x, \/ x \in {"failed", "start"}
                    \/ phase = "set" /\ x = "set"
                    \/ phase = "get" /\ x \in {"list", "get"}
      PROVE  /\ [at |-> x, result |-> {}] \in [at : Places, result : SUBSET Reading]
             /\ TaskOk(n, [at |-> x, result |-> {}])
  <2> DEFINE t == [at |-> x, result |-> {}]
  <2>1. t.at = x /\ t.result = {} /\ x \in Places /\ x # "done"
    BY <1>4 DEF Places
  <2>2. t \in [at : Places, result : SUBSET Reading]
    BY <2>1
  <2> HIDE DEF t
  <2>3. RightValues(n, t.result)
    BY <2>1 DEF RightValues
  <2>4. CASE phase = "set"
    <3>1. Range(req.changes) \subseteq Setting
      BY <1>1, <2>4 DEF TaskOk
    <3>2. x \in {"none", "start", "set", "done", "failed"}
      BY <1>4, <2>4
    <3>3. TaskOk(n, t)
      BY <2>1, <2>4, <3>1, <3>2 DEF TaskOk
    <3> QED BY <2>2, <3>3 DEF t
  <2>5. CASE phase = "get"
    <3>1. Named(req) = {} \/ \E p \in Named(req) : NodeOf[p] = n
      BY <1>1, <2>5 DEF TaskOk
    <3>2. x \in {"none", "start", "list", "get", "done", "failed"}
      BY <1>4, <2>5
    <3>3. TaskOk(n, t)
      BY <2>1, <2>3, <2>5, <3>1, <3>2 DEF TaskOk
    <3> QED BY <2>2, <3>3 DEF t
  <2> QED BY <1>1, <2>4, <2>5
<1> QED BY <1>1, <1>2, <1>3, <1>4

(* A task gives up. *)
LEMMA TimesOut ==
    ASSUME RequestInv, NEW n \in Node, TaskTimeout(n)
    PROVE  RequestInv'
<1> DEFINE t == [at |-> "failed", result |-> {}]
<1>1. /\ task[n].at # "none" /\ task' = [task EXCEPT ![n] = t]
      /\ UNCHANGED <<ros1, nodeVars, reqVars, histVars>>
  BY DEF TaskTimeout, At
<1>2. /\ phase \in {"set", "get"} /\ TaskOk(n, t)
      /\ t \in [at : Places, result : SUBSET Reading]
  BY <1>1, TaskThere
<1>3. asked \in [Node -> [get : SUBSET GetAsked, set : Seq(SetAsked)]]
  BY DEF RequestInv, TypeInv
<1> HIDE DEF t
<1> QED BY <1>1, <1>2, <1>3, TaskStep DEF nodeVars

(* One more get or list is asked of node n. *)
LEMMA Asking ==
    ASSUME RequestInv, NEW n \in Node, NEW kind \in {"list", "get"},
           NEW names \in SUBSET Param, call \in Nat \ {0}, Ask(n, kind, names),
           GetOk(n, [kind |-> kind, call |-> call, names |-> names])
    PROVE  /\ asked' \in [Node -> [get : SUBSET GetAsked, set : Seq(SetAsked)]]
           /\ \A m \in Node :
                /\ \A g \in asked'[m].get : g \in asked[m].get \/ GetOk(m, g)
                /\ Range(asked'[m].set) = Range(asked[m].set)
<1> PICK new : new = [kind |-> kind, call |-> call, names |-> names]
  OBVIOUS
<1>1. new \in GetAsked /\ GetOk(n, new)
  BY DEF GetAsked
<1>2. asked[n].get \subseteq GetAsked /\ asked[n].set \in Seq(SetAsked)
  BY Types DEF RequestInv
<1>3. asked \in [Node -> [get : SUBSET GetAsked, set : Seq(SetAsked)]]
  BY DEF RequestInv, TypeInv
<1>4. asked' = [asked EXCEPT ![n].get = @ \cup {new}]
  BY DEF Ask
<1>5. asked'[n] = [get |-> asked[n].get \cup {new}, set |-> asked[n].set]
      /\ \A m \in Node : m # n => asked'[m] = asked[m]
  BY <1>3, <1>4
<1>6. asked' \in [Node -> [get : SUBSET GetAsked, set : Seq(SetAsked)]]
  BY ZenonT(40), <1>1, <1>2, <1>3, <1>4, <1>5
<1>7. asked'[n].get = asked[n].get \cup {new} /\ asked'[n].set = asked[n].set
  BY <1>5, SMT
<1> QED BY <1>1, <1>5, <1>6, <1>7

(* A task asks its node, or finds it gone. *)
LEMMA Starts ==
    ASSUME RequestInv, NEW n \in Node, TaskStart(n)
    PROVE  RequestInv'
<1> USE DEF RequestInv
<1> DEFINE T(x) == [at |-> x, result |-> {}]
           Type == [Node -> [get : SUBSET GetAsked, set : Seq(SetAsked)]]
<1> PICK names : names = {p \in Named(req) : NodeOf[p] = n}
  OBVIOUS
<1> PICK cs : cs = Selected(Accepted(req.changes),
                            {x \in Range(req.changes) : NodeOf[x.param] = n})
  OBVIOUS
<1>1. /\ task[n].at = "start"
      /\ \/ At(n, "failed", {}) /\ UNCHANGED asked
         \/ /\ phase = "set" /\ At(n, "set", {})
            /\ asked' = [asked EXCEPT ![n].set =
                           Append(@, [call |-> call, by |-> requests, changes |-> cs])]
         \/ phase = "get" /\ names # {} /\ Ask(n, "get", names) /\ At(n, "get", {})
         \/ phase = "get" /\ names = {} /\ Ask(n, "list", {}) /\ At(n, "list", {})
      /\ UNCHANGED <<ros1, value, changes, ready, answers, faults, reqVars, histVars>>
  BY DEF TaskStart
<1>2. /\ phase \in {"set", "get"} /\ ~ros1 /\ call \in Nat \ {0} /\ req \in Requests
      /\ \A x : \/ x \in {"failed", "start"}
                \/ phase = "set" /\ x = "set"
                \/ phase = "get" /\ x \in {"list", "get"}
           => /\ T(x) \in [at : Places, result : SUBSET Reading]
              /\ TaskOk(n, T(x))
  BY <1>1, TaskThere
<1>3. ASSUME NEW x, task' = [task EXCEPT ![n] = T(x)], asked' \in Type,
             T(x) \in [at : Places, result : SUBSET Reading], TaskOk(n, T(x)),
             \A m \in Node :
               /\ \A g \in asked'[m].get : g \in asked[m].get \/ GetOk(m, g)
               /\ \A s \in Range(asked'[m].set) :
                    s \in Range(asked[m].set) \/ SetOk(m, s)
      PROVE  RequestInv'
  <2> HIDE DEF T, RequestInv
  <2> QED BY <1>1, <1>2, <1>3, TaskStep
<1>4. asked \in Type /\ TaskOk(n, task[n])
  BY DEF TypeInv, TasksInv
<1>5. CASE At(n, "failed", {}) /\ UNCHANGED asked
  BY <1>2, <1>3, <1>4, <1>5 DEF At
<1>6. CASE /\ phase = "set" /\ At(n, "set", {})
           /\ asked' = [asked EXCEPT ![n].set =
                          Append(@, [call |-> call, by |-> requests, changes |-> cs])]
  <2> PICK new : new = [call |-> call, by |-> requests, changes |-> cs]
    OBVIOUS
  <2>1. Range(req.changes) \subseteq Setting /\ req.op = "set"
    BY <1>1, <1>4, <1>6 DEF TaskOk, PlaceInv
  <2>2. Accepted(req.changes) = req.changes
    BY <2>1 DEF Accepted, Setting
  <2>3. /\ Named(req) = {x.param : x \in Range(req.changes)}
        /\ Named(req) \subseteq White
    BY <1>2, <2>1, Requested, SMTT(30) DEF Setting
  <2>4. req.changes \in Seq(Setting)
    <3> DEFINE C == [param : Param, value : Nat \cup {Unset, Bad}]
    <3>1. req.changes \in Seq(C)
      BY <1>2, Requested
    <3> HIDE DEF C
    <3>2. DOMAIN req.changes = 1 .. Len(req.changes) /\ Len(req.changes) \in Nat
          /\ req.changes = [i \in 1 .. Len(req.changes) |-> req.changes[i]]
      BY <3>1, SMT
    <3>3. \A i \in 1 .. Len(req.changes) : req.changes[i] \in Setting
      BY <2>1, <3>2 DEF Range
    <3>4. req.changes \in [1 .. Len(req.changes) -> Setting]
      BY <3>2, <3>3
    <3> QED BY <3>2, <3>4, SMT
  <2>5. /\ cs \in Seq(Setting)
        /\ Range(cs) = {x \in Range(req.changes) : NodeOf[x.param] = n}
    <3>1. /\ cs \in Seq(Setting)
          /\ Range(cs) = Range(req.changes)
                           \cap {x \in Range(req.changes) : NodeOf[x.param] = n}
      BY <2>2, <2>4, SelectedElements
    <3> QED BY <3>1
  <2>6. new \in SetAsked
    BY <1>2, <2>5 DEF SetAsked, TypeInv
  <2>7. SetOk(n, new)
    <3>1. call <= call /\ requests <= requests
      BY SMT DEF TypeInv
    <3>2. ~Refused
      BY <2>3 DEF Refused
    <3>3. \A p \in Named(req) : NodeOf[p] = n => \E x \in Range(cs) : x.param = p
      BY <2>3, <2>5
    <3> QED BY <3>1, <3>2, <3>3 DEF SetOk
  <2>8. asked[n].get \subseteq GetAsked /\ asked[n].set \in Seq(SetAsked)
    BY Types
  <2>9. /\ Append(asked[n].set, new) \in Seq(SetAsked)
        /\ Range(Append(asked[n].set, new)) = Range(asked[n].set) \cup {new}
    BY ONLY <2>6, <2>8, AppendRange, SMT
  <2>10. PICK longer : longer = Append(asked[n].set, new)
    OBVIOUS
  <2>11. /\ asked' \in Type
         /\ asked'[n] = [get |-> asked[n].get, set |-> longer]
         /\ \A m \in Node : m # n => asked'[m] = asked[m]
    <3>1. asked' = [asked EXCEPT ![n].set = longer]
      BY <1>6, <2>10
    <3>2. longer \in Seq(SetAsked)
      BY <2>9, <2>10
    <3> QED BY ONLY <1>4, <2>8, <3>1, <3>2
  <2>12. asked'[n].get = asked[n].get
         /\ Range(asked'[n].set) = Range(asked[n].set) \cup {new}
    BY <2>9, <2>10, <2>11, SMTT(30)
  <2>13. \A m \in Node :
           /\ \A g \in asked'[m].get : g \in asked[m].get \/ GetOk(m, g)
           /\ \A s \in Range(asked'[m].set) :
                s \in Range(asked[m].set) \/ SetOk(m, s)
    BY <2>7, <2>11, <2>12
  <2> QED BY <1>2, <1>3, <1>6, <2>11, <2>13 DEF At
<1>7. CASE phase = "get" /\ names # {} /\ Ask(n, "get", names) /\ At(n, "get", {})
  <2> DEFINE g == [kind |-> "get", call |-> call, names |-> names]
  <2>1. names \in SUBSET Param
    BY <1>2, Requested
  <2>2. RightNames(n, names)
    BY <1>7 DEF RightNames, Wanted
  <2>3. call <= call
    BY <1>2, SMT
  <2>4. GetOk(n, g)
    BY <2>2, <2>3 DEF GetOk
  <2>5. /\ asked' \in Type
        /\ \A m \in Node :
             /\ \A h \in asked'[m].get : h \in asked[m].get \/ GetOk(m, h)
             /\ Range(asked'[m].set) = Range(asked[m].set)
    BY <1>2, <1>7, <2>1, <2>4, Asking
  <2> QED BY <1>2, <1>3, <1>7, <2>5 DEF At
<1>8. CASE phase = "get" /\ names = {} /\ Ask(n, "list", {}) /\ At(n, "list", {})
  <2> DEFINE g == [kind |-> "list", call |-> call, names |-> {}]
  <2>1. Named(req) = {}
    BY <1>1, <1>4, <1>8 DEF TaskOk
  <2>2. call <= call
    BY <1>2, SMT
  <2>3. GetOk(n, g)
    BY <2>1, <2>2 DEF GetOk
  <2>4. /\ asked' \in Type
        /\ \A m \in Node :
             /\ \A h \in asked'[m].get : h \in asked[m].get \/ GetOk(m, h)
             /\ Range(asked'[m].set) = Range(asked[m].set)
    BY <1>2, <1>8, <2>3, Asking
  <2> QED BY <1>2, <1>3, <1>8, <2>4 DEF At
<1> QED BY <1>1, <1>5, <1>6, <1>7, <1>8

(* A task gets its answer. *)
LEMMA GetsAnswer ==
    ASSUME RequestInv, NEW n \in Node, TaskAnswer(n)
    PROVE  RequestInv'
<1> USE DEF RequestInv
<1> DEFINE Type == [Node -> [get : SUBSET GetAsked, set : Seq(SetAsked)]]
<1>1. PICK a \in Mine(n, task[n].at) :
        /\ answers' = answers \ {a}
        /\ IF a.kind = "list"
             THEN Ask(n, "get", a.names) /\ At(n, "get", {})
             ELSE At(n, "done", Allowed(a.values)) /\ UNCHANGED asked
        /\ UNCHANGED <<ros1, value, changes, ready, faults, reqVars, histVars>>
  BY DEF TaskAnswer
<1>2. /\ a \in answers /\ a \in Answer /\ AnswerOk(a)
      /\ a.node = n /\ a.call = call /\ a.kind = task[n].at
  BY DEF Mine, TypeInv, AnswersInv
<1>3. a.names \subseteq Param /\ a.values \subseteq Reading
      /\ a.kind \in {"list", "get", "set"}
  BY <1>2 DEF Answer
<1>4. /\ phase \in {"set", "get"} /\ ~ros1 /\ call \in Nat \ {0}
      /\ \A x : \/ x \in {"failed", "start"}
                \/ phase = "set" /\ x = "set"
                \/ phase = "get" /\ x \in {"list", "get"}
           => /\ [at |-> x, result |-> {}] \in [at : Places, result : SUBSET Reading]
              /\ TaskOk(n, [at |-> x, result |-> {}])
  <2>1. task[n].at # "none"
    BY <1>2, <1>3
  <2> QED BY <2>1, TaskThere
<1>5. asked \in Type /\ TaskOk(n, task[n])
  BY DEF TypeInv, TasksInv
<1>6. ASSUME NEW t \in [at : Places, result : SUBSET Reading], TaskOk(n, t),
             task' = [task EXCEPT ![n] = t], asked' \in Type,
             \A m \in Node :
               /\ \A g \in asked'[m].get : g \in asked[m].get \/ GetOk(m, g)
               /\ Range(asked'[m].set) = Range(asked[m].set)
      PROVE  RequestInv'
  <2>1. answers' \subseteq answers
    BY <1>1
  <2> HIDE DEF RequestInv
  <2> QED BY <1>1, <1>4, <1>6, <2>1, TaskStep
<1>7. CASE a.kind = "list"
  <2>1. Ask(n, "get", a.names) /\ At(n, "get", {})
    BY <1>1, <1>7
  <2>2. phase = "get"
    BY <1>2, <1>4, <1>5, <1>7 DEF TaskOk
  <2>3. RightNames(n, a.names)
    BY <1>2, <1>7, <2>2 DEF AnswerOk
  <2> DEFINE g == [kind |-> "get", call |-> call, names |-> a.names]
  <2>4. call <= call
    BY <1>4, SMT
  <2>5. GetOk(n, g)
    BY <2>3, <2>4 DEF GetOk
  <2>6. /\ asked' \in Type
        /\ \A m \in Node :
             /\ \A h \in asked'[m].get : h \in asked[m].get \/ GetOk(m, h)
             /\ Range(asked'[m].set) = Range(asked[m].set)
    BY <1>3, <1>4, <2>1, <2>5, Asking
  <2> QED BY <1>4, <1>6, <2>1, <2>2, <2>6 DEF At
<1>8. CASE a.kind # "list"
  <2> DEFINE t == [at |-> "done", result |-> Allowed(a.values)]
  <2>1. task' = [task EXCEPT ![n] = t] /\ UNCHANGED asked
    BY <1>1, <1>8 DEF At
  <2>2. /\ t \in [at : Places, result : SUBSET Reading]
        /\ t.at = "done" /\ t.result = Allowed(a.values)
    BY <1>3 DEF Allowed, Places
  <2> HIDE DEF t
  <2>3. TaskOk(n, t)
    <3>1. CASE phase = "set"
      <4>1. a.kind = "set" /\ task[n].at # "none"
        BY <1>2, <1>3, <1>5, <1>8, <3>1 DEF TaskOk
      <4>2. Range(req.changes) \subseteq Setting
        BY <1>5, <3>1, <4>1 DEF TaskOk
      <4>3. Confirmed(n) /\ a.values = {}
        BY <1>2, <3>1, <4>1 DEF AnswerOk
      <4>4. t.result = {}
        BY <2>2, <4>3 DEF Allowed
      <4> QED BY <2>2, <3>1, <4>2, <4>3, <4>4 DEF TaskOk
    <3>2. CASE phase = "get"
      <4>1. a.kind = "get" /\ task[n].at # "none"
        BY <1>2, <1>3, <1>5, <1>8, <3>2 DEF TaskOk
      <4>2. RightValues(n, a.values) /\ AllValues(n, a.values)
        BY <1>2, <3>2, <4>1 DEF AnswerOk
      <4>3. RightValues(n, t.result) /\ \A v \in t.result : v.param \in White
        BY <2>2, <4>2 DEF RightValues, Allowed
      <4>4. AllValues(n, t.result)
        BY <2>2, <4>2 DEF AllValues, Allowed
      <4>5. Named(req) = {} \/ \E p \in Named(req) : NodeOf[p] = n
        BY <1>5, <3>2, <4>1 DEF TaskOk
      <4> QED BY <2>2, <3>2, <4>3, <4>4, <4>5 DEF TaskOk
    <3> QED BY <1>4, <3>1, <3>2
  <2> QED BY <1>5, <1>6, <2>1, <2>2, <2>3
<1> QED BY <1>7, <1>8

(* Every step keeps the invariant. *)
LEMMA RequestStep ==
    ASSUME RequestInv, [Next]_vars
    PROVE  RequestInv'
<1>1. CASE \E r \in Requests : Receive(r)
  BY <1>1, Receives
<1>2. CASE Handler
  BY <1>2, SetsOut, Lists, GetsOut, Throwing, SetsJoin, GetsJoin, Ros1Gets, Ros1Sets
     DEF Handler
<1>3. ASSUME NEW n \in Node, Task(n) \/ NodeSets(n) \/ NodeGets(n) \/ NodeFault(n)
      PROVE  RequestInv'
  BY <1>3, Starts, GetsAnswer, TimesOut, NodeSetting, NodeGetting,
     NodeFaults DEF Task
<1>4. CASE UNCHANGED vars
  <2> USE DEF RequestInv, vars, nodeVars, callVars, reqVars, histVars
  <2>1. TypeInv' /\ PlaceInv' /\ Ros1Inv'
    BY <1>4 DEF TypeInv, PlaceInv, Ros1Inv
  <2>2. OwnInv'
    BY <1>4 DEF OwnInv, Refused, Named
  <2>3. \A a \in answers' : a \in answers
    BY <1>4
  <2> HIDE DEF RequestInv
  <2> QED BY <1>4, <2>1, <2>2, <2>3, NodeStep
<1> QED BY <1>1, <1>2, <1>3, <1>4 DEF Next, Exhausted

(* The invariant of the requests holds throughout. *)
THEOREM RequestInvariance == Spec => []RequestInv
<1>1. Init => RequestInv
  BY RequestStart
<1>2. RequestInv /\ [Next]_vars => RequestInv'
  BY RequestStep
<1> QED BY <1>1, <1>2, PTL DEF Spec

(* No request changes a parameter that set_params does not find in the     *)
(* whitelist, and a ROS 2 request that names one changes nothing at all.   *)
(* The types are correct.                                                  *)
THEOREM WhitelistHolds == Spec => []WhitelistGuards
<1>1. ASSUME RequestInv PROVE WhitelistGuards
  <2> USE <1>1 DEF RequestInv
  <2>1. ASSUME NEW n \in Node
        PROVE  task[n].at \in Places /\ \A v \in task[n].result : NodeOf[v.param] = n
    BY Types DEF TasksInv, TaskOk, RightValues
  <2>2. ASSUME NEW a \in answers PROVE a.node \in Node /\ a.call \in 1 .. call
    <3>1. a.node \in Node /\ a.call \in Nat \ {0} /\ a.call <= call /\ call \in Nat
      BY DEF AnswersInv, AnswerOk, TypeInv, Answer
    <3> QED BY <3>1, SMT
  <2>3. TypeOK
    BY <2>1, <2>2 DEF TypeOK, TypeInv, Ros1Inv, Places
  <2> QED BY <2>3 DEF WhitelistGuards, OwnInv, Refused, SentInv
<1> QED BY <1>1, RequestInvariance, PTL

(* What parameter_change_handler reads back after set_params was read after *)
(* the change of the same request, but for parameters of nodes that were   *)
(* not ready or did not confirm in time.                                   *)
THEOREM ReadBackFresh == Spec => []ReadBackIsFresh
<1>1. RequestInv => ReadBackIsFresh
  BY DEF RequestInv, SentInv
<1> QED BY <1>1, RequestInvariance, PTL

(* A node that is down or answers late costs an answer of get_params its   *)
(* own parameters and no others; the whole answer is lost, with an error,  *)
(* only for a node name that is not valid, a value that cannot be          *)
(* converted, or a node that went away while all were asked for.           *)
THEOREM AnswersComplete == Spec => []AnsweredNodesComplete
<1>1. RequestInv => AnsweredNodesComplete
  BY DEF RequestInv, SentInv
<1> QED BY <1>1, RequestInvariance, PTL

-----------------------------------------------------------------------------
(* The queue.  That a worker which leaves the wait of do_work has          *)
(* something to do, and that CallbackQueue implements the safety part of   *)
(* the first-in first-out queue CallbackFifo, both rest on which lines of  *)
(* do_work hold the mutex: nobody else can take the last callback between  *)
(* the predicate of the wait and the pop.                                  *)
CONSTANTS Worker, Callback

VARIABLES queue, running, quit, mutex, wpc, apc, spc, missed

Queue == INSTANCE CallbackQueue

(* None is neither a worker nor a callback. *)
QueueAssumption == None \notin Worker \cup Callback

(* A worker has the mutex exactly at these places of do_work. *)
Inside == {"test", "block", "take"}
MutexHeld == \A w \in Worker : wpc[w] \in Inside <=> mutex = w

(* A worker has a callback exactly while it runs it. *)
RunningHeld == \A w \in Worker : wpc[w] = "run" <=> running[w] # None

QueueInv == Queue!TypeOK /\ MutexHeld /\ RunningHeld /\ Queue!WaitDelivers

(* The queue starts empty, with every worker at the top of its loop. *)
LEMMA QueueStart ==
    ASSUME QueueAssumption, Queue!Init
    PROVE  QueueInv
<1> USE DEF Queue!Init
<1>1. Queue!TypeOK
  <2>1. queue \in Seq(Callback) /\ missed \subseteq Worker
    BY SMT
  <2>2. running \in [Worker -> Callback \cup {None}]
    OBVIOUS
  <2>3. wpc \in [Worker -> {"check", "lock", "test", "block", "asleep", "take",
                           "run", "exit"}]
    OBVIOUS
  <2>4. apc \in [Callback -> {"start", "push", "done"}]
    OBVIOUS
  <2> QED BY <2>1, <2>2, <2>3, <2>4 DEF Queue!TypeOK
<1>2. MutexHeld
  BY DEF QueueAssumption, MutexHeld, Inside
<1>3. RunningHeld
  BY DEF RunningHeld
<1>4. Queue!WaitDelivers
  BY DEF Queue!WaitDelivers
<1> QED BY <1>1, <1>2, <1>3, <1>4 DEF QueueInv

(* A thread that calls add_callback. *)
LEMMA QueueAdd ==
    ASSUME QueueInv, NEW cb \in Callback, Queue!AddCheck(cb) \/ Queue!AddPush(cb)
    PROVE  QueueInv'
<1> USE DEF QueueInv
<1>1. CASE Queue!AddCheck(cb)
  BY <1>1 DEF Queue!AddCheck, Queue!TypeOK, MutexHeld, RunningHeld,
     Queue!WaitDelivers
<1>2. CASE Queue!AddPush(cb)
  <2>1. queue' \in Seq(Callback) /\ queue' # <<>>
    BY <1>2, SMT DEF Queue!AddPush, Queue!TypeOK
  <2>2. \A w \in Worker :
          wpc'[w] = wpc[w] \/ (wpc[w] = "asleep" /\ wpc'[w] = "lock")
    BY <1>2 DEF Queue!AddPush, Queue!Asleep, Queue!TypeOK
  <2>3. Queue!TypeOK'
    BY <1>2, <2>1 DEF Queue!AddPush, Queue!Asleep, Queue!TypeOK
  <2>4. MutexHeld' /\ RunningHeld'
    BY <1>2, <2>2 DEF Queue!AddPush, MutexHeld, RunningHeld, Inside
  <2>5. Queue!WaitDelivers'
    BY <2>1 DEF Queue!WaitDelivers
  <2> QED BY <2>3, <2>4, <2>5
<1> QED BY <1>1, <1>2

(* The thread that calls stop: it takes no mutex. *)
LEMMA QueueStop ==
    ASSUME QueueInv, Queue!StopQuit \/ Queue!StopNotify \/ Queue!StopJoin
    PROVE  QueueInv'
<1> USE DEF QueueInv
<1>1. CASE Queue!StopQuit
  BY <1>1 DEF Queue!StopQuit, Queue!TypeOK, MutexHeld, RunningHeld,
     Queue!WaitDelivers
<1>2. CASE Queue!StopNotify
  <2>1. \A w \in Worker :
          wpc'[w] = wpc[w] \/ (wpc[w] = "asleep" /\ wpc'[w] = "lock")
    BY <1>2 DEF Queue!StopNotify, Queue!Asleep, Queue!TypeOK
  <2>2. Queue!TypeOK'
    BY <1>2 DEF Queue!StopNotify, Queue!Asleep, Queue!TypeOK
  <2>3. MutexHeld' /\ RunningHeld' /\ Queue!WaitDelivers'
    BY <1>2, <2>1
       DEF Queue!StopNotify, MutexHeld, RunningHeld, Queue!WaitDelivers, Inside
  <2> QED BY <2>2, <2>3
<1>3. CASE Queue!StopJoin
  BY <1>3 DEF Queue!StopJoin, Queue!TypeOK, MutexHeld, RunningHeld,
     Queue!WaitDelivers
<1> QED BY <1>1, <1>2, <1>3

(* do_work, and a wakeup for no reason. *)
LEMMA QueueWork ==
    ASSUME QueueAssumption, QueueInv, NEW w \in Worker,
           Queue!Work(w) \/ Queue!SpuriousWakeup(w)
    PROVE  QueueInv'
<1> USE DEF QueueAssumption, QueueInv, Queue!TypeOK, MutexHeld, RunningHeld,
        Queue!WaitDelivers, Queue!Goto, Inside
<1>1. CASE Queue!WorkCheck(w)
  BY <1>1 DEF Queue!WorkCheck
<1>2. CASE Queue!WorkLock(w)
  BY <1>2 DEF Queue!WorkLock
<1>3. CASE Queue!WorkTest(w)
  BY <1>3 DEF Queue!WorkTest
<1>4. CASE Queue!WorkBlock(w)
  BY <1>4 DEF Queue!WorkBlock
<1>5. CASE Queue!SpuriousWakeup(w)
  BY <1>5 DEF Queue!SpuriousWakeup
<1>6. CASE Queue!WorkTake(w)
  <2>1. CASE quit
    BY <1>6, <2>1 DEF Queue!WorkTake
  <2>2. CASE ~quit
    <3>1. Head(queue) \in Callback /\ Tail(queue) \in Seq(Callback)
      BY <1>6, <2>2, SMT DEF Queue!WorkTake
    <3>2. /\ running' = [running EXCEPT ![w] = Head(queue)]
          /\ wpc' = [wpc EXCEPT ![w] = "run"]
          /\ queue' = Tail(queue) /\ mutex' = None /\ mutex = w
          /\ UNCHANGED <<quit, apc, spc, missed>>
      BY <1>6, <2>2 DEF Queue!WorkTake
    <3>3. Queue!TypeOK'
      BY <3>1, <3>2
    <3>4. MutexHeld'
      BY <3>2
    <3>5. RunningHeld'
      BY <3>1, <3>2
    <3>6. Queue!WaitDelivers'
      BY <3>2
    <3> QED BY <3>3, <3>4, <3>5, <3>6
  <2> QED BY <2>1, <2>2
<1>7. CASE Queue!WorkRun(w)
  BY <1>7 DEF Queue!WorkRun
<1> QED BY <1>1, <1>2, <1>3, <1>4, <1>5, <1>6, <1>7 DEF Queue!Work

(* Every step of the program keeps the invariant. *)
LEMMA QueueStep ==
    ASSUME QueueAssumption, QueueInv, [Queue!Next]_(Queue!vars)
    PROVE  QueueInv'
<1>1. CASE UNCHANGED Queue!vars
  BY <1>1 DEF Queue!vars, QueueInv, Queue!TypeOK, MutexHeld, RunningHeld,
     Queue!WaitDelivers
<1>2. CASE Queue!Terminated
  BY <1>1, <1>2 DEF Queue!Terminated
<1> QED BY <1>1, <1>2, QueueAdd, QueueStop, QueueWork DEF Queue!Next

(* The invariant holds in every state of the program. *)
THEOREM QueueInvariant ==
    ASSUME QueueAssumption
    PROVE  Queue!Spec => []QueueInv
<1>1. Queue!Init => QueueInv
  BY QueueStart
<1>2. QueueInv /\ [Queue!Next]_(Queue!vars) => QueueInv'
  BY QueueStep
<1> QED BY <1>1, <1>2, PTL DEF Queue!Spec

(* Every variable keeps its type. *)
THEOREM QueueTypeOK ==
    ASSUME QueueAssumption
    PROVE  Queue!Spec => []Queue!TypeOK
BY QueueInvariant, PTL DEF QueueInv

(* The wait of do_work delivers: whatever the number of workers, one that  *)
(* leaves it finds a callback to pop, or the queue stopped.                *)
THEOREM QueueWaitDelivers ==
    ASSUME QueueAssumption
    PROVE  Queue!Spec => []Queue!WaitDelivers
BY QueueInvariant, PTL DEF QueueInv

-----------------------------------------------------------------------------
(* The steps that the abstract queue sees: the push of add_callback, the   *)
(* pop and the end of a callback in do_work, and the flag set by stop.     *)
LEMMA QueueStepRefines ==
    ASSUME QueueInv, [Queue!Next]_(Queue!vars)
    PROVE  [Queue!Fifo!Next]_(Queue!Fifo!fifoVars)
<1> USE DEF Queue!Fifo!fifoVars
<1>1. ASSUME NEW cb \in Callback, Queue!AddPush(cb) PROVE Queue!Fifo!Next
  BY <1>1 DEF Queue!AddPush, Queue!Fifo!Next, Queue!Fifo!Add
<1>2. ASSUME Queue!StopQuit PROVE Queue!Fifo!Next
  BY <1>2 DEF Queue!StopQuit, Queue!Fifo!Next, Queue!Fifo!Stop
<1>3. ASSUME NEW w \in Worker, Queue!WorkTake(w)
      PROVE  [Queue!Fifo!Next]_(Queue!Fifo!fifoVars)
  <2>1. running[w] = None
    BY <1>3 DEF Queue!WorkTake, QueueInv, RunningHeld
  <2> QED
    BY <1>3, <2>1 DEF Queue!WorkTake, Queue!Fifo!Next, Queue!Fifo!Start
<1>4. ASSUME NEW w \in Worker, Queue!WorkRun(w) PROVE Queue!Fifo!Next
  <2>1. running[w] # None
    BY <1>4 DEF Queue!WorkRun, QueueInv, RunningHeld
  <2> QED BY <1>4, <2>1 DEF Queue!WorkRun, Queue!Fifo!Next, Queue!Fifo!End
<1>5. ASSUME NEW cb \in Callback, Queue!AddCheck(cb) PROVE UNCHANGED Queue!Fifo!fifoVars
  BY <1>5 DEF Queue!AddCheck
<1>6. ASSUME \/ Queue!StopNotify \/ Queue!StopJoin \/ Queue!Terminated
             \/ UNCHANGED Queue!vars
      PROVE  UNCHANGED Queue!Fifo!fifoVars
  BY <1>6 DEF Queue!StopNotify, Queue!StopJoin, Queue!Terminated, Queue!vars
<1>7. ASSUME NEW w \in Worker,
             \/ Queue!WorkCheck(w) \/ Queue!WorkLock(w)
             \/ Queue!WorkTest(w) \/ Queue!WorkBlock(w)
             \/ Queue!SpuriousWakeup(w)
      PROVE  UNCHANGED Queue!Fifo!fifoVars
  BY <1>7 DEF Queue!WorkCheck, Queue!WorkLock, Queue!WorkTest,
     Queue!WorkBlock, Queue!SpuriousWakeup
<1> QED BY <1>1, <1>2, <1>3, <1>4, <1>5, <1>6, <1>7 DEF Queue!Next, Queue!Work

(* CallbackQueue is a first-in first-out queue: for any number of workers  *)
(* and callbacks, do_work starts the callbacks in the order in which       *)
(* add_callback stored them, each once and one at a time in a worker.      *)
THEOREM QueueIsFifo ==
    ASSUME QueueAssumption
    PROVE  Queue!Spec => Queue!Fifo!Spec
<1>1. Queue!Init => Queue!Fifo!Init
  BY DEF Queue!Init, Queue!Fifo!Init
<1>2. QueueInv /\ [Queue!Next]_(Queue!vars)
        => [Queue!Fifo!Next]_(Queue!Fifo!fifoVars)
  BY QueueStepRefines
<1> QED BY <1>1, <1>2, QueueInvariant, PTL DEF Queue!Spec, Queue!Fifo!Spec

-----------------------------------------------------------------------------
(* The publications of clients.  The properties speak of clients that are  *)
(* logged in or gone.  The inductive invariant speaks of every connection, *)
(* and adds that channels are recorded for logged-in clients with an entry *)
(* only.                                                                   *)
CONSTANTS Conn, Channel

VARIABLES con, clients, adv, known, pub, bknown, bpub, early, refused, dropped,
          hpc, hc, first

Publications == INSTANCE ClientPublications
(* The records of every connection. *)
RecordInv ==
    \A c \in Conn :
      /\ adv[c] = pub[c]
      /\ pub[c] \subseteq bpub[c]
      /\ c \notin early => pub[c] = bpub[c]

(* Who can have a record. *)
OwnerInv ==
    /\ \A c \in Conn : pub[c] # {} => c \in clients /\ c \in known
    /\ \A c \in Conn \ early : c \in known => c \in clients
    /\ \A c \in clients : con[c] # "done"

(* The connection that the handler thread serves. *)
HandlerInv ==
    /\ hpc # "idle" => hc \in known
    /\ hpc = "advertise" => hc \in clients \/ hc \in early

(* Why the bridge has an entry without publishers. *)
EntryInv == \A c \in bknown : bpub[c] = {} => c \in refused

PublicationInv ==
    /\ Publications!TypeOK /\ RecordInv /\ OwnerInv /\ HandlerInv /\ EntryInv
    /\ ~dropped

(* Nobody has advertised anything at the start. *)
LEMMA PublicationStart == Publications!Init => PublicationInv
<1> SUFFICES ASSUME Publications!Init PROVE PublicationInv
  OBVIOUS
<1> USE DEF Publications!Init
<1>1. Publications!TypeOK
  <2>1. con \in [Conn -> {"open", "closed", "done"}]
    OBVIOUS
  <2>2. /\ adv \in [Conn -> SUBSET Channel]
        /\ pub \in [Conn -> SUBSET Channel]
        /\ bpub \in [Conn -> SUBSET Channel]
    OBVIOUS
  <2> QED BY <2>1, <2>2 DEF Publications!TypeOK
<1>2. RecordInv
  BY DEF RecordInv
<1>3. OwnerInv /\ HandlerInv /\ EntryInv /\ ~dropped
  BY DEF OwnerInv, HandlerInv, EntryInv
<1> QED BY <1>1, <1>2, <1>3 DEF PublicationInv

(* What a client asks for, before its channels are looked at. *)
LEMMA PublicationRequest ==
    ASSUME PublicationInv, NEW c \in Conn,
           Publications!Request(c) \/ Publications!Disconnect(c)
    PROVE  PublicationInv'
<1> USE DEF PublicationInv, Publications!TypeOK, RecordInv, OwnerInv,
        HandlerInv, EntryInv, Publications!Receives, Publications!history,
        Publications!serverVars, Publications!bridgeVars, Publications!handlerVars
<1>1. CASE Publications!Login(c)
  BY <1>1 DEF Publications!Login
<1>2. CASE Publications!Advertise(c)
  BY <1>2 DEF Publications!Advertise
<1>3. CASE Publications!Unadvertise(c)
  BY <1>3 DEF Publications!Unadvertise
<1>4. ASSUME NEW ch \in Channel, Publications!ClientMessage(c, ch) PROVE PublicationInv'
  <2>1. ch \in bpub[c]
    BY <1>4 DEF Publications!ClientMessage, Publications!Accepts
  <2>2. dropped' = FALSE
    BY <1>4, <2>1 DEF Publications!ClientMessage, Publications!client_message
  <2>3. UNCHANGED <<Publications!serverVars, bknown, bpub, Publications!history,
                    Publications!handlerVars>>
    BY <1>4 DEF Publications!ClientMessage
  <2>4. Publications!TypeOK'
    BY <2>2, <2>3
  <2>5. RecordInv' /\ OwnerInv' /\ HandlerInv' /\ EntryInv'
    BY <2>3
  <2> QED BY <2>2, <2>4, <2>5
<1>5. CASE Publications!Disconnect(c)
  BY <1>5 DEF Publications!Disconnect
<1> QED BY <1>1, <1>2, <1>3, <1>4, <1>5 DEF Publications!Request

(* The channels of a request, one by one, and its end. *)
LEMMA PublicationHandler ==
    ASSUME PublicationInv, Publications!Handler
    PROVE  PublicationInv'
<1> USE DEF PublicationInv, Publications!TypeOK, RecordInv, OwnerInv,
        HandlerInv, EntryInv, Publications!EndRequest, Publications!history,
        Publications!serverVars, Publications!bridgeVars, Publications!handlerVars
<1>1. ASSUME NEW ch \in Channel, Publications!AdvertiseChannel(ch) PROVE PublicationInv'
  <2>1. CASE hc \in clients
    <3>1. /\ adv' = [adv EXCEPT ![hc] = @ \cup {ch}]
          /\ pub' = [pub EXCEPT ![hc] = @ \cup {ch}]
          /\ bpub' = [bpub EXCEPT ![hc] = @ \cup {ch}]
          /\ bknown' = bknown \cup {hc}
          /\ UNCHANGED <<con, clients, known, Publications!history, dropped,
                         Publications!handlerVars>>
          /\ hc \in Conn /\ hc \in known
      BY <1>1, <2>1
         DEF Publications!AdvertiseChannel, Publications!client_advertise
    <3>2. Publications!TypeOK'
      BY <3>1, SMT
    <3>3. RecordInv'
      BY <3>1
    <3>4. OwnerInv' /\ HandlerInv'
      BY <2>1, <3>1
    <3>5. EntryInv'
      <4>1. ASSUME NEW d \in Conn, bpub'[d] = {} PROVE d # hc /\ bpub[d] = {}
        BY <3>1, <4>1
      <4> QED BY <3>1, <4>1
    <3> QED BY <3>1, <3>2, <3>3, <3>4, <3>5
  <2>2. CASE hc \notin clients
    <3>1. /\ bpub' = [bpub EXCEPT ![hc] = @ \cup {ch}]
          /\ bknown' = bknown \cup {hc}
          /\ UNCHANGED <<con, clients, known, adv, pub, Publications!history, dropped>>
          /\ hc \in Conn /\ hc \in early
          /\ hpc' = "idle" /\ hc' = None /\ first' = FALSE
      BY <1>1, <2>2
         DEF Publications!AdvertiseChannel, Publications!client_advertise
    <3>2. Publications!TypeOK'
      <4>1. bpub' \in [Conn -> SUBSET Channel]
        BY <3>1
      <4>2. bknown' \subseteq Conn
        BY <3>1
      <4> QED BY <3>1, <4>1, <4>2
    <3>3. RecordInv'
      BY <3>1
    <3>4. OwnerInv' /\ HandlerInv'
      BY <3>1
    <3>5. EntryInv'
      <4>1. ASSUME NEW d \in Conn, bpub'[d] = {} PROVE d # hc /\ bpub[d] = {}
        BY <3>1, <4>1
      <4> QED BY <3>1, <4>1
    <3> QED BY <3>1, <3>2, <3>3, <3>4, <3>5
  <2> QED BY <2>1, <2>2
<1>2. ASSUME NEW ch \in Channel, Publications!UnadvertiseChannel(ch) PROVE PublicationInv'
  <2>1. hc \in clients /\ ch \in bpub[hc]
    BY <1>2 DEF Publications!UnadvertiseChannel
  <2>2. /\ adv' = [adv EXCEPT ![hc] = @ \ {ch}]
        /\ pub' = [pub EXCEPT ![hc] = @ \ {ch}]
        /\ bpub' = [bpub EXCEPT ![hc] = @ \ {ch}]
        /\ bknown' = IF bpub[hc] \cap {ch} # {} /\ bpub[hc] \subseteq {ch}
                       THEN bknown \ {hc} ELSE bknown
        /\ UNCHANGED <<con, clients, known, Publications!history, dropped,
                       Publications!handlerVars>>
        /\ hc \in Conn /\ hc \in known
    BY <1>2, <2>1
       DEF Publications!UnadvertiseChannel, Publications!client_unadvertise
  <2>3. Publications!TypeOK'
    BY <2>2
  <2>4. RecordInv'
    BY <2>2
  <2>5. OwnerInv' /\ HandlerInv'
    BY <2>1, <2>2
  <2>6. EntryInv'
    BY <2>1, <2>2
  <2> QED BY <2>2, <2>3, <2>4, <2>5, <2>6
<1>3. CASE Publications!AdvertiseThrows
  BY <1>3 DEF Publications!AdvertiseThrows, Publications!client_advertise_throws
<1>4. CASE Publications!RequestDone
  BY <1>4 DEF Publications!RequestDone
<1> QED BY <1>1, <1>2, <1>3, <1>4 DEF Publications!Handler

(* handle_connection_closed. *)
LEMMA PublicationClose ==
    ASSUME PublicationInv, NEW c \in Conn, Publications!Close(c)
    PROVE  PublicationInv'
<1> USE DEF PublicationInv, Publications!TypeOK, RecordInv, OwnerInv,
        HandlerInv, EntryInv, Publications!history, Publications!handlerVars
<1>1. CASE c \in clients
  <2>1. /\ con' = [con EXCEPT ![c] = "done"]
        /\ clients' = clients \ {c} /\ known' = known \ {c}
        /\ adv' = [adv EXCEPT ![c] = {}]
        /\ pub' = [pub EXCEPT ![c] = {}]
        /\ bpub' = [bpub EXCEPT ![c] = @ \ adv[c]]
        /\ bknown' = IF bpub[c] \cap adv[c] # {} /\ bpub[c] \subseteq adv[c]
                       THEN bknown \ {c} ELSE bknown
        /\ UNCHANGED <<Publications!history, dropped, Publications!handlerVars>>
        /\ hpc = "idle"
    BY <1>1 DEF Publications!Close, Publications!client_unadvertise
  <2>2. Publications!TypeOK'
    BY <2>1
  <2>3. RecordInv'
    BY <2>1
  <2>4. OwnerInv' /\ HandlerInv'
    BY <2>1
  <2>5. EntryInv'
    <3>1. ASSUME NEW d \in bknown', bpub'[d] = {} PROVE d \in refused
      <4>1. CASE d = c
        <5>1. bpub[c] \subseteq adv[c] /\ c \in bknown
          BY <2>1, <3>1, <4>1
        <5>2. bpub[c] = {}
          BY <2>1, <3>1, <4>1, <5>1
        <5> QED BY <4>1, <5>1, <5>2
      <4>2. CASE d # c
        BY <2>1, <3>1, <4>2
      <4> QED BY <4>1, <4>2
    <3> QED BY <2>1, <3>1
  <2> QED BY <2>1, <2>2, <2>3, <2>4, <2>5
<1>2. CASE c \notin clients
  BY <1>2 DEF Publications!Close
<1> QED BY <1>1, <1>2

(* The invariant holds in every state of the program. *)
THEOREM PublicationInvariant == Publications!Spec => []PublicationInv
<1>1. ASSUME PublicationInv, UNCHANGED Publications!vars PROVE PublicationInv'
  BY <1>1 DEF Publications!vars, PublicationInv, Publications!TypeOK,
     RecordInv, OwnerInv, HandlerInv, EntryInv
<1>2. PublicationInv /\ [Publications!Next]_(Publications!vars) => PublicationInv'
  BY <1>1, PublicationRequest, PublicationHandler, PublicationClose
     DEF Publications!Next, Publications!Exhausted
<1> QED BY <1>2, PublicationStart, PTL DEF Publications!Spec

(* Every variable keeps its type. *)
THEOREM PublicationTypeOK == Publications!Spec => []Publications!TypeOK
BY PublicationInvariant, PTL DEF PublicationInv

(* The server's two records and the bridge's agree for every client that   *)
(* is logged in, whatever requests failed in the middle.                   *)
THEOREM PublicationRecordsAgree == Publications!Spec => []Publications!RecordsAgree
<1>1. PublicationInv => Publications!RecordsAgree
  BY DEF PublicationInv, Publications!TypeOK, RecordInv,
         Publications!RecordsAgree
<1> QED BY <1>1, PublicationInvariant, PTL

(* A client that logged in before it advertised leaves no publisher behind *)
(* and nothing in the server when its close has been handled; what the     *)
(* bridge may keep is an entry without publishers, of a client whose       *)
(* advertisement it refused.                                               *)
THEOREM PublicationNothingLeft == Publications!Spec => []Publications!NothingLeftBehind
<1>1. PublicationInv => Publications!NothingLeftBehind
  BY DEF PublicationInv, Publications!TypeOK, RecordInv, OwnerInv,
         EntryInv, Publications!NothingLeftBehind
<1> QED BY <1>1, PublicationInvariant, PTL

(* No message is accepted by the server and then dropped by the bridge. *)
THEOREM PublicationAccepted == Publications!Spec => []Publications!AcceptedIsPublished
<1>1. PublicationInv => Publications!AcceptedIsPublished
  BY DEF PublicationInv, Publications!AcceptedIsPublished
<1> QED BY <1>1, PublicationInvariant, PTL
=============================================================================
