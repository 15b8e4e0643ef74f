--------------------------- MODULE LifecycleProofs ---------------------------
(***************************************************************************)
(* The end of the bridge and the way of its messages: for every set of     *)
(* connections, publishers and executor threads and any wait for the close *)
(* handshakes, the threads are joined, what was queued when Server::stop   *)
(* returned is all that runs too late, and few messages bear an old id.    *)
(*                                                                         *)
(* First what a send queue does to the messages in it, by induction over   *)
(* queues; the theorems on what reaches a client, in DeliveryProofs, rest  *)
(* on it.  Then the invariant of the end (EndInv) and that of what is sent *)
(* (SendInv).                                                              *)
(***************************************************************************)
EXTENDS Lifecycle, FiniteSetTheorems, TLAPS

(* A leaf is for Zenon unless it names SMT, for arithmetic and sequences.  *)
USE Zenon

-----------------------------------------------------------------------------
(* Induction over the numbers: a set with 0 and with the successor of each *)
(* of its numbers holds them all.                                          *)
LEMMA Upwards ==
    ASSUME NEW S, 0 \in S, \A n \in Nat : n \in S => n + 1 \in S
    PROVE  \A n \in Nat : n \in S
<1> DEFINE T == Nat \ S
           R == OpToRel(<, Nat)
<1> SUFFICES ASSUME T # {} PROVE FALSE
  OBVIOUS
<1>1. PICK x \in T : \A y \in T : ~ (<<y, x>> \in R)
  BY NatLessThanWellFounded, WFMin
<1>2. x # 0 /\ x \in Nat
  OBVIOUS
<1>3. x - 1 \in Nat /\ x = (x - 1) + 1 /\ x - 1 < x
  BY <1>2, SMT
<1>4. <<x - 1, x>> \in R
  BY <1>3, SMT DEF OpToRel
<1>5. x - 1 \in S
  BY <1>1, <1>3, <1>4
<1> QED BY <1>2, <1>3, <1>5

(* Induction over the sequences: the same with the empty one and Append. *)
LEMMA Lengthening ==
    ASSUME NEW E, NEW S, <<>> \in S,
           \A s \in Seq(E), x \in E : s \in S => Append(s, x) \in S
    PROVE  \A s \in Seq(E) : s \in S
<1> DEFINE N == {n \in Nat : \A s \in Seq(E) : Len(s) = n => s \in S}
<1>1. 0 \in N
  <2>1. \A s \in Seq(E) : Len(s) = 0 => s = <<>>
    BY SMT
  <2> QED BY <2>1
<1>2. ASSUME NEW n \in Nat, n \in N PROVE n + 1 \in N
  <2>1. n + 1 \in Nat
    BY SMT
  <2>2. ASSUME NEW s \in Seq(E), Len(s) = n + 1 PROVE s \in S
    <3> DEFINE t == SubSeq(s, 1, n)
    <3>1. /\ t \in Seq(E) /\ Len(t) = n /\ s[n + 1] \in E
          /\ s = Append(t, s[n + 1])
      BY <2>2, SMT
    <3>2. t \in S
      BY <1>2, <3>1
    <3> HIDE DEF t
    <3> QED BY <3>1, <3>2
  <2> QED BY <2>1, <2>2
<1> HIDE DEF N
<1>3. \A n \in Nat : n \in N
  BY <1>1, <1>2, Upwards
<1>4. \A s \in Seq(E) : Len(s) \in Nat
  BY SMT
<1> QED BY <1>3, <1>4 DEF N

(* The function that Reliable is read from. *)
Upto(f, q) ==
    f = [k \in 0 .. Len(q) |->
           IF k = 0 THEN <<>>
           ELSE IF q[k].reliable THEN Append(f[k - 1], q[k].msg)
           ELSE f[k - 1]]

(* Reliable is its last value. *)
LEMMA ReliableIs ==
    ASSUME NEW q PROVE Reliable(q) = (CHOOSE f : Upto(f, q))[Len(q)]
  BY DEF Reliable, Upto

(* There is no other such function. *)
LEMMA UptoSame ==
    ASSUME NEW q, Len(q) \in Nat, NEW f, NEW g, Upto(f, q), Upto(g, q)
    PROVE  f = g
<1> DEFINE S == {k \in Nat : k <= Len(q) => f[k] = g[k]}
<1>1. /\ DOMAIN f = 0 .. Len(q) /\ DOMAIN g = 0 .. Len(q)
      /\ f = [k \in 0 .. Len(q) |-> f[k]] /\ g = [k \in 0 .. Len(q) |-> g[k]]
  BY DEF Upto
<1>2. \A k \in 0 .. Len(q) :
        /\ f[k] = IF k = 0 THEN <<>>
                  ELSE IF q[k].reliable THEN Append(f[k - 1], q[k].msg)
                  ELSE f[k - 1]
        /\ g[k] = IF k = 0 THEN <<>>
                  ELSE IF q[k].reliable THEN Append(g[k - 1], q[k].msg)
                  ELSE g[k - 1]
  BY DEF Upto
<1>3. 0 \in S
  <2>1. 0 \in 0 .. Len(q) /\ 0 \in Nat
    BY SMT
  <2> QED BY <1>2, <2>1
<1>4. ASSUME NEW k \in Nat, k \in S PROVE k + 1 \in S
  <2>1. k + 1 \in Nat /\ k + 1 # 0 /\ (k + 1) - 1 = k
        /\ (k + 1 <= Len(q) => k + 1 \in 0 .. Len(q) /\ k <= Len(q))
    BY SMT
  <2>2. ASSUME k + 1 <= Len(q) PROVE f[k + 1] = g[k + 1]
    <3>1. f[k] = g[k]
      BY <1>4, <2>1, <2>2
    <3>2. f[(k + 1) - 1] = g[(k + 1) - 1]
      BY <2>1, <3>1
    <3> QED BY <1>2, <2>1, <2>2, <3>2
  <2> QED BY <2>1, <2>2
<1> HIDE DEF S
<1>5. \A k \in Nat : k \in S
  BY <1>3, <1>4, Upwards
<1>6. \A k \in 0 .. Len(q) : k \in Nat /\ k <= Len(q)
  BY SMT
<1>7. \A k \in 0 .. Len(q) : f[k] = g[k]
  BY <1>5, <1>6 DEF S
<1> QED BY <1>1, <1>7

(* What Reliable makes of one more entry. *)
Then(s, x) == IF x.reliable THEN Append(s, x.msg) ELSE s

(* The function of a longer queue goes on from that of the shorter one. *)
LEMMA UptoNext ==
    ASSUME NEW E, NEW q \in Seq(E), NEW x \in E, NEW f, Upto(f, q)
    PROVE  \E g : Upto(g, Append(q, x)) /\ g[Len(q) + 1] = Then(f[Len(q)], x)
<1> DEFINE n == Len(q)
           r == Append(q, x)
           g == [k \in 0 .. n + 1 |->
                   IF k <= n THEN f[k] ELSE Then(f[n], x)]
<1>1. /\ n \in Nat /\ Len(r) = n + 1 /\ r[n + 1] = x
      /\ \A k \in 1 .. n : r[k] = q[k]
  BY SMT
<1>2. \A k \in 0 .. n :
        f[k] = IF k = 0 THEN <<>>
               ELSE IF q[k].reliable THEN Append(f[k - 1], q[k].msg)
               ELSE f[k - 1]
  BY DEF Upto
<1> HIDE DEF n, r
<1>3. n + 1 \in 0 .. n + 1 /\ ~(n + 1 <= n) /\ n + 1 # 0 /\ (n + 1) - 1 = n
      /\ n \in 0 .. n + 1 /\ n <= n
  BY <1>1, SMT
<1>4. g[n + 1] = Then(f[n], x) /\ g[n] = f[n]
  BY <1>3
<1>5. ASSUME NEW k \in 0 .. n + 1
      PROVE  g[k] = IF k = 0 THEN <<>>
                    ELSE IF r[k].reliable THEN Append(g[k - 1], r[k].msg)
                    ELSE g[k - 1]
  <2>1. CASE k = n + 1
    BY <1>1, <1>3, <1>4, <2>1 DEF Then
  <2>2. CASE k # n + 1
    <3>1. /\ k \in 0 .. n /\ k <= n
          /\ k # 0 => k - 1 \in 0 .. n + 1 /\ k - 1 <= n /\ k \in 1 .. n
      BY <1>1, <2>2, SMT
    <3>2. g[k] = f[k] /\ (k # 0 => g[k - 1] = f[k - 1] /\ r[k] = q[k])
      BY <1>1, <3>1
    <3> HIDE DEF g
    <3> QED BY <1>2, <3>1, <3>2
  <2> QED BY <2>1, <2>2
<1>6. Upto(g, r)
  BY <1>1, <1>5 DEF Upto
<1> QED BY <1>4, <1>6 DEF n, r

(* So each queue has such a function. *)
LEMMA UptoExists ==
    ASSUME NEW E, NEW q \in Seq(E)
    PROVE  \E f : Upto(f, q)
<1> DEFINE S == {s \in Seq(E) : \E f : Upto(f, s)}
<1>1. <<>> \in S
  <2> DEFINE f == [k \in 0 .. 0 |-> <<>>]
  <2>1. <<>> \in Seq(E) /\ Len(<<>>) = 0 /\ \A k \in 0 .. 0 : k = 0
    BY SMT
  <2>2. Upto(f, <<>>)
    BY <2>1 DEF Upto
  <2> QED BY <2>1, <2>2
<1>2. ASSUME NEW s \in Seq(E), NEW x \in E, s \in S PROVE Append(s, x) \in S
  <2>1. Append(s, x) \in Seq(E)
    BY SMT
  <2> QED BY <1>2, <2>1, UptoNext
<1> HIDE DEF S
<1>3. q \in S
  BY <1>1, <1>2, Lengthening
<1> QED BY <1>3 DEF S

(* Reliable of a queue with one more entry. *)
LEMMA ReliableStep ==
    ASSUME NEW E, NEW q \in Seq(E), NEW x \in E
    PROVE  Reliable(Append(q, x)) = Then(Reliable(q), x)
<1> DEFINE f == CHOOSE h : Upto(h, q)
           g == CHOOSE h : Upto(h, Append(q, x))
<1>1. /\ Append(q, x) \in Seq(E) /\ Len(Append(q, x)) = Len(q) + 1
      /\ Len(q) + 1 \in Nat
  BY SMT
<1>2. Upto(f, q)
  BY UptoExists
<1> HIDE DEF f
<1>3. PICK h : Upto(h, Append(q, x)) /\ h[Len(q) + 1] = Then(f[Len(q)], x)
  BY <1>2, UptoNext
<1>4. Upto(g, Append(q, x))
  BY <1>3
<1> HIDE DEF g
<1>5. g = h
  BY <1>1, <1>3, <1>4, UptoSame
<1>6. Reliable(Append(q, x)) = g[Len(q) + 1] /\ Reliable(q) = f[Len(q)]
  BY <1>1, ReliableIs DEF f, g
<1> QED BY <1>3, <1>5, <1>6

(* Nothing is reliable in an empty queue. *)
LEMMA ReliableEmpty == Reliable(<<>>) = <<>>
<1> DEFINE f == CHOOSE h : Upto(h, <<>>)
<1>1. <<>> \in Seq({}) /\ Len(<<>>) = 0 /\ 0 \in 0 .. 0
  BY SMT
<1>2. Upto(f, <<>>)
  BY <1>1, UptoExists
<1> HIDE DEF f
<1>3. f[0] = <<>>
  BY <1>1, <1>2 DEF Upto
<1>4. Reliable(<<>>) = f[0]
  BY <1>1, ReliableIs DEF f
<1> QED BY <1>3, <1>4

(* The entries of a send queue: messages of publishers, and what the       *)
(* server itself tells the client, the close frame included.               *)
Sent == [pub : Pub, n : Nat, id : SubId \cup {None}, sub : Nat]
Note == [n : Nat \cup {None}]
Data == [msg : Sent, reliable : {FALSE}, old : BOOLEAN]
Told == [msg : Note, reliable : {TRUE}, old : BOOLEAN]
Item == Data \cup Told

(* An entry is reliable just when the server itself tells it. *)
LEMMA ItemFacts ==
    ASSUME NEW x \in Item
    PROVE  /\ x.reliable \in BOOLEAN
           /\ x.reliable => x.msg \in Note
           /\ ~x.reliable => x.msg \in Sent
<1>1. CASE x \in Data
  <2>1. x.reliable \in {FALSE} /\ x.msg \in Sent
    BY <1>1 DEF Data
  <2> QED BY <2>1
<1>2. CASE x \in Told
  <2>1. x.reliable \in {TRUE} /\ x.msg \in Note
    BY <1>2 DEF Told
  <2> QED BY <2>1
<1> QED BY <1>1, <1>2 DEF Item

(* Reliable leaves a sequence of what the server tells. *)
LEMMA ReliableType ==
    ASSUME NEW q \in Seq(Item)
    PROVE  Reliable(q) \in Seq(Note)
<1> DEFINE S == {s \in Seq(Item) : Reliable(s) \in Seq(Note)}
<1>1. <<>> \in S
  <2>1. <<>> \in Seq(Item) /\ <<>> \in Seq(Note)
    BY SMT
  <2> QED BY <2>1, ReliableEmpty
<1>2. ASSUME NEW s \in Seq(Item), NEW x \in Item, s \in S
      PROVE  Append(s, x) \in S
  <2>1. Append(s, x) \in Seq(Item)
    BY SMT
  <2>2. x.reliable => Append(Reliable(s), x.msg) \in Seq(Note)
    BY <1>2, ItemFacts, SMT
  <2> QED BY <1>2, <2>1, <2>2, ReliableStep DEF Then
<1> HIDE DEF S
<1>3. q \in S
  BY <1>1, <1>2, Lengthening
<1> QED BY <1>3 DEF S

(* Appending to the second part of a sequence. *)
LEMMA AppendConcat ==
    ASSUME NEW a \in Seq(Note), NEW b \in Seq(Note), NEW m \in Note
    PROVE  Append(a \o b, m) = a \o Append(b, m)
  BY SMTT(30)

(* A sequence cut in two, and its head moved to another one. *)
LEMMA SplitAt ==
    ASSUME NEW E, NEW b \in Seq(E), NEW q \in Seq(E), NEW i \in 1 .. Len(q)
    PROVE  /\ q = SubSeq(q, 1, i - 1) \o SubSeq(q, i, Len(q))
           /\ Append(b, q[i]) \o SubSeq(q, i + 1, Len(q))
              = b \o SubSeq(q, i, Len(q))
<1>1. q = SubSeq(q, 1, i - 1) \o SubSeq(q, i, Len(q))
  BY SMT
<1> DEFINE u == SubSeq(q, i + 1, Len(q))
           v == SubSeq(q, i, Len(q))
           x == q[i]
<1>2. /\ u \in Seq(E) /\ v \in Seq(E) /\ x \in E
      /\ Len(v) = Len(u) + 1 /\ v[1] = x
  BY SMT
<1>3. \A k \in 1 .. Len(u) : v[k + 1] = u[k]
  BY SMT
<1> HIDE DEF u, v, x
<1> DEFINE s == Append(b, x) \o u
           t == b \o v
<1>4. s \in Seq(E) /\ t \in Seq(E) /\ Len(s) = Len(t)
  BY <1>2, SMTT(30)
<1>5. ASSUME NEW k \in 1 .. Len(t) PROVE s[k] = t[k]
  <2>1. CASE k <= Len(b)
    BY <1>2, <2>1, SMT
  <2>2. CASE k = Len(b) + 1
    BY <1>2, <2>2, SMT
  <2>3. CASE Len(b) + 1 < k
    <3> DEFINE l == (k - Len(b)) - 1
    <3>1. l \in 1 .. Len(u) /\ k = (Len(b) + 1) + l
      BY <1>2, <2>3, SMTT(30)
    <3> HIDE DEF l
    <3>2. s[k] = u[l] /\ t[k] = v[l + 1]
      BY <1>2, <3>1, SMTT(30)
    <3> QED BY <1>3, <3>1, <3>2
  <2>4. k \in Nat /\ Len(b) \in Nat
    BY <1>2, SMT
  <2>5. k <= Len(b) \/ k = Len(b) + 1 \/ Len(b) + 1 < k
    <3> HIDE DEF t
    <3> QED BY <2>4, SMT
  <2> QED BY <2>1, <2>2, <2>3, <2>5
<1> HIDE DEF s, t
<1>6. s = t
  BY <1>4, <1>5, SMTT(30)
<1> QED BY <1>1, <1>6 DEF s, t, u, v, x

(* Reliable takes the parts of a queue one by one. *)
LEMMA ReliableConcat ==
    ASSUME NEW s \in Seq(Item), NEW q \in Seq(Item)
    PROVE  Reliable(s \o q) = Reliable(s) \o Reliable(q)
<1> DEFINE S == {t \in Seq(Item) :
                   Reliable(s \o t) = Reliable(s) \o Reliable(t)}
<1>0. Reliable(s) \in Seq(Note)
  BY ReliableType
<1>1. <<>> \in S
  <2>1. <<>> \in Seq(Item) /\ s \o <<>> = s
    BY SMT
  <2>2. Reliable(s) \o <<>> = Reliable(s)
    BY <1>0, SMT
  <2> QED BY <2>1, <2>2, ReliableEmpty
<1>2. ASSUME NEW t \in Seq(Item), NEW x \in Item, t \in S
      PROVE  Append(t, x) \in S
  <2>1. /\ Append(t, x) \in Seq(Item) /\ s \o t \in Seq(Item)
        /\ s \o Append(t, x) = Append(s \o t, x)
    BY SMT
  <2>2. /\ Reliable(s \o Append(t, x)) = Then(Reliable(s \o t), x)
        /\ Reliable(Append(t, x)) = Then(Reliable(t), x)
    BY <2>1, ReliableStep
  <2>3. ASSUME x.reliable
        PROVE  Append(Reliable(s) \o Reliable(t), x.msg)
               = Reliable(s) \o Append(Reliable(t), x.msg)
    <3>1. x.msg \in Note
      BY <2>3, ItemFacts
    <3>2. Reliable(t) \in Seq(Note)
      BY ReliableType
    <3> QED BY <1>0, <3>1, <3>2, AppendConcat
  <2> QED BY <1>2, <2>1, <2>2, <2>3 DEF Then
<1> HIDE DEF S
<1>3. q \in S
  BY <1>1, <1>2, Lengthening
<1> QED BY <1>3 DEF S

(* Where no entry is reliable it leaves nothing. *)
LEMMA ReliableNone ==
    ASSUME NEW q \in Seq(Item), \A i \in 1 .. Len(q) : ~q[i].reliable
    PROVE  Reliable(q) = <<>>
<1> DEFINE Unreliable(s) == \A i \in 1 .. Len(s) : ~s[i].reliable
           S == {s \in Seq(Item) : Unreliable(s) => Reliable(s) = <<>>}
<1>1. <<>> \in S
  <2>1. <<>> \in Seq(Item)
    BY SMT
  <2> QED BY <2>1, ReliableEmpty
<1>2. ASSUME NEW s \in Seq(Item), NEW x \in Item, s \in S
      PROVE  Append(s, x) \in S
  <2>1. Append(s, x) \in Seq(Item)
    BY SMT
  <2>2. Unreliable(Append(s, x)) => Unreliable(s) /\ ~x.reliable
    BY SMT
  <2> QED BY <1>2, <2>1, <2>2, ReliableStep DEF Then
<1> HIDE DEF S
<1>3. q \in S
  BY <1>1, <1>2, Lengthening
<1> QED BY <1>3 DEF S

(* Two queues that differ in the age of their entries only. *)
Alike(s, t) ==
    /\ Len(s) = Len(t)
    /\ \A i \in 1 .. Len(s) :
         s[i].reliable = t[i].reliable /\ s[i].msg = t[i].msg

(* Age makes no difference to Reliable. *)
LEMMA ReliableAlike ==
    ASSUME NEW p \in Seq(Item), NEW q \in Seq(Item), Alike(p, q)
    PROVE  Reliable(p) = Reliable(q)
<1> DEFINE S == {s \in Seq(Item) :
                   \A t \in Seq(Item) :
                     Alike(s, t) => Reliable(s) = Reliable(t)}
<1>1. <<>> \in S
  <2>1. /\ <<>> \in Seq(Item)
        /\ \A t \in Seq(Item) : Len(<<>>) = Len(t) => t = <<>>
    BY SMT
  <2> QED BY <2>1 DEF Alike
<1>2. ASSUME NEW s \in Seq(Item), NEW x \in Item, s \in S
      PROVE  Append(s, x) \in S
  <2>1. Append(s, x) \in Seq(Item)
    BY SMT
  <2>2. ASSUME NEW t \in Seq(Item), Alike(Append(s, x), t)
        PROVE  Reliable(Append(s, x)) = Reliable(t)
    <3> DEFINE u == SubSeq(t, 1, Len(s))
               y == t[Len(s) + 1]
    <3>1. u \in Seq(Item) /\ y \in Item /\ t = Append(u, y)
      BY <2>2, SMT DEF Alike
    <3>2. Alike(s, u) /\ x.reliable = y.reliable /\ x.msg = y.msg
      BY <2>2, SMT DEF Alike
    <3> HIDE DEF u, y
    <3>3. Reliable(s) = Reliable(u)
      BY <1>2, <3>1, <3>2
    <3> QED BY <3>1, <3>2, <3>3, ReliableStep DEF Then
  <2> QED BY <2>1, <2>2
<1> HIDE DEF S
<1>3. p \in S
  BY <1>1, <1>2, Lengthening
<1> QED BY <1>3 DEF S

(* A set of numbers has a least one. *)
LEMMA Least ==
    ASSUME NEW S, S \subseteq Nat, S # {}
    PROVE  \E k \in S : \A j \in S : k <= j
<1> DEFINE R == OpToRel(<, Nat)
<1>1. PICK k \in S : \A j \in S : ~ (<<j, k>> \in R)
  BY NatLessThanWellFounded, WFMin
<1>2. ASSUME NEW j \in S PROVE k <= j
  <2>1. ~(<<j, k>> \in R) /\ j \in Nat /\ k \in Nat
    BY <1>1
  <2>2. j < k => <<j, k>> \in R
    BY <2>1, SMT DEF OpToRel
  <2>3. ~(j < k)
    BY <2>1, <2>2
  <2> HIDE DEF R
  <2> QED BY <2>1, <2>3, SMT
<1> QED BY <1>2

(* write_pop takes an entry, and those it skips are not reliable. *)
LEMMA Popped ==
    ASSUME NEW q \in Seq(Item), q # <<>>
    PROVE  \E i \in 1 .. Len(q) :
             /\ write_pop(q).next = q[i]
             /\ write_pop(q).rest = SubSeq(q, i + 1, Len(q))
             /\ \A j \in 1 .. (i - 1) : ~q[j].reliable
<1> DEFINE kept == {k \in 1 .. Len(q) : Fresh(q[k])}
           i == IF kept = {} THEN Len(q)
                ELSE CHOOSE k \in kept : \A j \in kept : k <= j
<1>1. /\ write_pop(q).next = q[i]
      /\ write_pop(q).rest = SubSeq(q, i + 1, Len(q))
  BY DEF write_pop
<1>2. /\ kept \subseteq 1 .. Len(q) /\ kept \subseteq Nat
      /\ Len(q) \in 1 .. Len(q)
  <2>1. kept \subseteq 1 .. Len(q)
    OBVIOUS
  <2>2. 1 .. Len(q) \subseteq Nat /\ Len(q) \in 1 .. Len(q)
    BY SMT
  <2> QED BY <2>1, <2>2
<1>3. ASSUME NEW j \in 1 .. Len(q), j \notin kept
      PROVE  ~q[j].reliable
  BY <1>3 DEF Fresh
<1> HIDE DEF kept
<1>4. CASE kept = {}
  <2>1. i = Len(q) /\ 1 .. (Len(q) - 1) \subseteq 1 .. Len(q)
    BY <1>4, SMT
  <2>2. \A j \in 1 .. (i - 1) : ~q[j].reliable
    BY <1>3, <1>4, <2>1
  <2> QED BY <1>1, <1>2, <2>1, <2>2
<1>5. CASE kept # {}
  <2>1. i \in kept /\ \A j \in kept : i <= j
    BY <1>2, <1>5, Least
  <2> HIDE DEF i
  <2>2. \A j \in 1 .. (i - 1) : j \in 1 .. Len(q) /\ ~(i <= j)
    BY <1>2, <2>1, SMT
  <2>3. \A j \in 1 .. (i - 1) : ~q[j].reliable
    BY <1>3, <2>1, <2>2
  <2> QED BY <1>1, <1>2, <2>1, <2>3
<1> QED BY <1>4, <1>5

(* s is t with some entries left out, the others in their order. *)
Thin(s, t) ==
    \E f \in [1 .. Len(s) -> 1 .. Len(t)] :
        /\ \A i, j \in 1 .. Len(s) : i < j => f[i] < f[j]
        /\ \A i \in 1 .. Len(s) :
             s[i].reliable = t[f[i]].reliable /\ s[i].msg = t[f[i]].msg

(* Nothing left out. *)
LEMMA ThinAlike ==
    ASSUME NEW s \in Seq(Item), NEW t \in Seq(Item), Alike(s, t)
    PROVE  Thin(s, t)
<1> DEFINE f == [i \in 1 .. Len(s) |-> i]
<1>1. f \in [1 .. Len(s) -> 1 .. Len(t)]
  BY DEF Alike
<1>2. /\ \A i, j \in 1 .. Len(s) : i < j => f[i] < f[j]
      /\ \A i \in 1 .. Len(s) :
           s[i].reliable = t[f[i]].reliable /\ s[i].msg = t[f[i]].msg
  BY DEF Alike
<1> HIDE DEF f
<1> QED BY <1>1, <1>2 DEF Thin

(* Leaving out twice. *)
LEMMA ThinThin ==
    ASSUME NEW s \in Seq(Item), NEW t \in Seq(Item), NEW u \in Seq(Item),
           Thin(s, t), Thin(t, u)
    PROVE  Thin(s, u)
<1>1. PICK f \in [1 .. Len(s) -> 1 .. Len(t)] :
        /\ \A i, j \in 1 .. Len(s) : i < j => f[i] < f[j]
        /\ \A i \in 1 .. Len(s) :
             s[i].reliable = t[f[i]].reliable /\ s[i].msg = t[f[i]].msg
  BY DEF Thin
<1>2. PICK g \in [1 .. Len(t) -> 1 .. Len(u)] :
        /\ \A i, j \in 1 .. Len(t) : i < j => g[i] < g[j]
        /\ \A i \in 1 .. Len(t) :
             t[i].reliable = u[g[i]].reliable /\ t[i].msg = u[g[i]].msg
  BY DEF Thin
<1> DEFINE h == [i \in 1 .. Len(s) |-> g[f[i]]]
<1>3. h \in [1 .. Len(s) -> 1 .. Len(u)]
  BY <1>1, <1>2
<1>4. \A i, j \in 1 .. Len(s) : i < j => h[i] < h[j]
  BY <1>1, <1>2
<1>5. \A i \in 1 .. Len(s) :
             s[i].reliable = u[h[i]].reliable /\ s[i].msg = u[h[i]].msg
  BY <1>1, <1>2
<1> HIDE DEF h
<1> QED BY <1>3, <1>4, <1>5 DEF Thin

(* Leaving out from the second part. *)
LEMMA ThinAfter ==
    ASSUME NEW p \in Seq(Item), NEW s \in Seq(Item), NEW t \in Seq(Item),
           Thin(s, t)
    PROVE  Thin(p \o s, p \o t)
<1>1. PICK f \in [1 .. Len(s) -> 1 .. Len(t)] :
        /\ \A i, j \in 1 .. Len(s) : i < j => f[i] < f[j]
        /\ \A i \in 1 .. Len(s) :
             s[i].reliable = t[f[i]].reliable /\ s[i].msg = t[f[i]].msg
  BY DEF Thin
<1> DEFINE n == Len(p)
           h == [i \in 1 .. Len(p \o s) |-> IF i <= n THEN i ELSE n + f[i - n]]
<1>2. /\ n \in Nat /\ Len(s) \in Nat /\ Len(t) \in Nat
      /\ Len(p \o s) = n + Len(s) /\ Len(p \o t) = n + Len(t)
  BY SMTT(30)
<1>3. /\ \A i \in 1 .. Len(p \o s) : i > n => i - n \in 1 .. Len(s)
      /\ \A i \in 1 .. Len(p \o s) :
           (p \o s)[i] = IF i <= n THEN p[i] ELSE s[i - n]
      /\ \A i \in 1 .. Len(t) : (p \o t)[n + i] = t[i]
      /\ \A i \in 1 .. n : (p \o t)[i] = p[i]
  BY SMT
<1>4. \A i \in 1 .. Len(p \o s) :
        /\ i <= n => h[i] = i
        /\ ~(i <= n) => /\ h[i] = n + f[i - n] /\ i - n \in 1 .. Len(s)
                        /\ f[i - n] \in 1 .. Len(t)
  <2>1. \A i \in 1 .. Len(p \o s) : ~(i <= n) => i - n \in 1 .. Len(s)
    BY <1>2, SMT
  <2> QED BY <1>1, <2>1
<1>5. h \in [1 .. Len(p \o s) -> 1 .. Len(p \o t)]
  <2>1. \A i \in 1 .. Len(p \o s) : h[i] \in 1 .. Len(p \o t)
    BY <1>2, <1>4, SMT
  <2> QED BY <2>1
<1>6. ASSUME NEW i \in 1 .. Len(p \o s), NEW j \in 1 .. Len(p \o s), i < j
      PROVE  h[i] < h[j]
  <2> HIDE DEF h
  <2>1. CASE j <= n
    BY <1>2, <1>4, <1>6, <2>1, SMTT(30)
  <2>2. CASE i <= n /\ ~(j <= n)
    BY <1>2, <1>4, <1>6, <2>2, SMTT(30)
  <2>3. CASE ~(i <= n) /\ ~(j <= n)
    <3>1. i - n < j - n
      BY <1>2, <1>6, SMT
    <3>2. f[i - n] < f[j - n]
      BY <1>1, <1>4, <2>3, <3>1
    <3> QED BY <1>2, <1>4, <2>3, <3>2, SMTT(30)
  <2>4. i \in Nat /\ j \in Nat
    BY <1>2, SMT
  <2>5. j <= n \/ (i <= n /\ ~(j <= n)) \/ (~(i <= n) /\ ~(j <= n))
    OBVIOUS
  <2> QED BY <2>1, <2>2, <2>3, <2>5
<1>7. ASSUME NEW i \in 1 .. Len(p \o s)
      PROVE  /\ (p \o s)[i].reliable = (p \o t)[h[i]].reliable
             /\ (p \o s)[i].msg = (p \o t)[h[i]].msg
  <2> HIDE DEF h
  <2>1. CASE i <= n
    <3>1. i \in 1 .. n
      BY <1>2, <2>1, SMT
    <3> QED BY <1>3, <1>4, <2>1, <3>1
  <2>2. CASE ~(i <= n)
    <3>1. (p \o s)[i] = s[i - n]
      BY <1>3, <2>2
    <3>2. (p \o t)[h[i]] = t[f[i - n]]
      BY <1>3, <1>4, <2>2
    <3> QED BY <1>1, <1>4, <2>2, <3>1, <3>2
  <2> QED BY <2>1, <2>2
<1> HIDE DEF h
<1> QED BY <1>5, <1>6, <1>7 DEF Thin

(* Leaving out the second part. *)
LEMMA ThinPrefix ==
    ASSUME NEW p \in Seq(Item), NEW t \in Seq(Item)
    PROVE  Thin(p, p \o t)
<1> DEFINE h == [i \in 1 .. Len(p) |-> i]
<1>1. /\ Len(p) \in Nat /\ 1 .. Len(p) \subseteq 1 .. Len(p \o t)
      /\ \A i \in 1 .. Len(p) : (p \o t)[i] = p[i]
  BY SMT
<1>2. h \in [1 .. Len(p) -> 1 .. Len(p \o t)]
  BY <1>1
<1>3. /\ \A i, j \in 1 .. Len(p) : i < j => h[i] < h[j]
      /\ \A i \in 1 .. Len(p) : /\ p[i].reliable = (p \o t)[h[i]].reliable
                               /\ p[i].msg = (p \o t)[h[i]].msg
  BY <1>1
<1> HIDE DEF h
<1> QED BY <1>2, <1>3 DEF Thin

(* Leaving out the first entries. *)
LEMMA ThinSuffix ==
    ASSUME NEW q \in Seq(Item), NEW i \in 1 .. Len(q)
    PROVE  Thin(SubSeq(q, i, Len(q)), q)
<1> DEFINE s == SubSeq(q, i, Len(q))
           h == [k \in 1 .. Len(s) |-> (i - 1) + k]
<1>1. /\ Len(q) \in Nat /\ Len(s) = (Len(q) - i) + 1
      /\ \A k \in 1 .. Len(s) : s[k] = q[(i - 1) + k]
  BY SMT
<1> HIDE DEF s
<1>2. h \in [1 .. Len(s) -> 1 .. Len(q)]
  BY <1>1, SMT
<1>3. \A k, l \in 1 .. Len(s) : k < l => h[k] < h[l]
  BY <1>1, SMT
<1>4. \A k \in 1 .. Len(s) : /\ s[k].reliable = q[h[k]].reliable
                            /\ s[k].msg = q[h[k]].msg
  BY <1>1
<1> HIDE DEF h
<1>5. Thin(s, q)
  BY <1>2, <1>3, <1>4 DEF Thin
<1> QED BY <1>5 DEF s

(* One message popped into the frame. *)
Pop(f) ==
    IF f.rest = <<>> THEN f
    ELSE [batch |-> Append(f.batch, write_pop(f.rest).next),
          rest |-> write_pop(f.rest).rest]

(* The function that Frame is read from. *)
Pops(f, q, n) ==
    f = [k \in 0 .. n |->
           IF k = 0 THEN [batch |-> <<>>, rest |-> q] ELSE Pop(f[k - 1])]

(* Frame is its last value. *)
LEMMA FrameIs ==
    ASSUME NEW q, NEW n PROVE Frame(q, n) = (CHOOSE f : Pops(f, q, n))[n]
  BY DEF Frame, Pops, Pop

(* There is such a function. *)
LEMMA PopsExist ==
    ASSUME NEW q, NEW n \in Nat
    PROVE  \E f : Pops(f, q, n)
<1> DEFINE S == {k \in Nat : \E f : Pops(f, q, k)}
<1>1. 0 \in S
  <2> DEFINE f == [k \in 0 .. 0 |-> [batch |-> <<>>, rest |-> q]]
  <2>1. 0 \in Nat /\ \A k \in 0 .. 0 : k = 0
    BY SMT
  <2>2. Pops(f, q, 0)
    BY <2>1 DEF Pops
  <2> QED BY <2>1, <2>2
<1>2. ASSUME NEW k \in Nat, k \in S PROVE k + 1 \in S
  <2>1. PICK f : Pops(f, q, k)
    BY <1>2
  <2> DEFINE g == [i \in 0 .. (k + 1) |-> IF i <= k THEN f[i] ELSE Pop(f[k])]
  <2>2. /\ k + 1 \in Nat
        /\ \A i \in 0 .. (k + 1) :
             \/ i = 0 /\ i <= k /\ i \in 0 .. k
             \/ /\ i # 0 /\ i <= k /\ i - 1 <= k /\ i \in 0 .. k
                /\ i - 1 \in 0 .. (k + 1)
             \/ /\ i # 0 /\ ~(i <= k) /\ i - 1 = k /\ i - 1 <= k
                /\ i - 1 \in 0 .. (k + 1)
    BY SMT
  <2>3. ASSUME NEW i \in 0 .. (k + 1)
        PROVE  g[i] = IF i = 0 THEN [batch |-> <<>>, rest |-> q]
                      ELSE Pop(g[i - 1])
    <3>1. i \in 0 .. k => f[i] = IF i = 0 THEN [batch |-> <<>>, rest |-> q]
                                ELSE Pop(f[i - 1])
      BY <2>1 DEF Pops
    <3>2. g[i] = IF i <= k THEN f[i] ELSE Pop(f[k])
      OBVIOUS
    <3>3. i - 1 \in 0 .. (k + 1) /\ i - 1 <= k => g[i - 1] = f[i - 1]
      OBVIOUS
    <3> HIDE DEF g
    <3> QED BY <2>2, <3>1, <3>2, <3>3
  <2>4. g = [i \in 0 .. (k + 1) |-> g[i]]
    OBVIOUS
  <2> HIDE DEF g
  <2>5. Pops(g, q, k + 1)
    BY <2>3, <2>4 DEF Pops
  <2> QED BY <2>2, <2>5
<1> HIDE DEF S
<1>3. n \in S
  BY <1>1, <1>2, Upwards
<1> QED BY <1>3 DEF S

(* A frame and the queue left, which together have all that is reliable    *)
(* and none of the rest out of order.                                      *)
Frames == [batch : Seq(Item), rest : Seq(Item)]
Whole(f, q) ==
    /\ f \in Frames
    /\ Reliable(f.batch \o f.rest) = Reliable(q)
    /\ Thin(f.batch \o f.rest, q)

(* Popping one message keeps that. *)
LEMMA PopWhole ==
    ASSUME NEW q \in Seq(Item), NEW f, Whole(f, q)
    PROVE  Whole(Pop(f), q)
<1> DEFINE b == f.batch
           r == f.rest
<1>1. b \in Seq(Item) /\ r \in Seq(Item)
  BY DEF Whole, Frames
<1>2. CASE r = <<>>
  BY <1>2 DEF Pop
<1>3. CASE r # <<>>
  <2> DEFINE x == write_pop(r).next
             u == write_pop(r).rest
             p == [batch |-> Append(b, x), rest |-> u]
  <2>1. PICK i \in 1 .. Len(r) :
          /\ x = r[i] /\ u = SubSeq(r, i + 1, Len(r))
          /\ \A j \in 1 .. (i - 1) : ~r[j].reliable
    BY <1>1, <1>3, Popped
  <2>2. Pop(f) = p /\ p.batch = Append(b, x) /\ p.rest = u
    BY <1>3 DEF Pop
  <2> HIDE DEF b, r, x, u, p
  <2> DEFINE v == SubSeq(r, i, Len(r))
             w == SubSeq(r, 1, i - 1)
  <2>3. /\ x \in Item /\ u \in Seq(Item)
        /\ v \in Seq(Item) /\ w \in Seq(Item)
        /\ Append(b, x) \in Seq(Item)
    BY <1>1, <2>1, SMT
  <2>4. r = w \o v /\ Append(b, r[i]) \o SubSeq(r, i + 1, Len(r)) = b \o v
    BY ZenonT(40), <1>1, SplitAt
  <2>5. Append(b, x) \o u = b \o v
    BY <2>1, <2>4
  <2>6. Reliable(w) = <<>>
    <3>1. \A j \in 1 .. Len(w) : j \in 1 .. (i - 1) /\ w[j] = r[j]
      BY <1>1, SMT
    <3> QED BY <2>1, <2>3, <3>1, ReliableNone
  <2>7. Thin(v, r)
    BY <1>1, ThinSuffix
  <2> HIDE DEF v, w
  <2>8. Reliable(v) = Reliable(r)
    <3>1. Reliable(r) = Reliable(w) \o Reliable(v)
      BY <2>3, <2>4, ReliableConcat
    <3>2. Reliable(v) \in Seq(Note)
      BY <2>3, ReliableType
    <3>3. <<>> \o Reliable(v) = Reliable(v)
      BY <3>2, SMT
    <3> QED BY <2>6, <3>1, <3>3
  <2>9. Reliable(b \o v) = Reliable(b \o r)
    <3>1. Reliable(b \o v) = Reliable(b) \o Reliable(v)
      BY <1>1, <2>3, ReliableConcat
    <3>2. Reliable(b \o r) = Reliable(b) \o Reliable(r)
      BY <1>1, ReliableConcat
    <3> QED BY <2>8, <3>1, <3>2
  <2>10. Thin(b \o v, b \o r)
    BY <1>1, <2>3, <2>7, ThinAfter
  <2>11. b \o v \in Seq(Item) /\ b \o r \in Seq(Item)
    BY <1>1, <2>3, SMT
  <2>12. Thin(b \o v, q) /\ Reliable(b \o v) = Reliable(q)
    BY <2>9, <2>10, <2>11, ThinThin DEF Whole, b, r
  <2>13. p \in Frames
    BY <2>3 DEF p, Frames
  <2> QED BY <2>2, <2>5, <2>12, <2>13 DEF Whole
<1> QED BY <1>2, <1>3

(* write_frame drops messages from a queue, but none that is reliable, and *)
(* moves none.                                                             *)
LEMMA FrameWhole ==
    ASSUME NEW q \in Seq(Item), NEW n \in Nat
    PROVE  Whole(Frame(q, n), q)
<1> DEFINE f == CHOOSE g : Pops(g, q, n)
           S == {k \in Nat : k <= n => Whole(f[k], q)}
<1>1. Pops(f, q, n)
  BY PopsExist
<1>2. \A k \in 0 .. n : f[k] = IF k = 0 THEN [batch |-> <<>>, rest |-> q]
                             ELSE Pop(f[k - 1])
  BY <1>1 DEF Pops
<1>3. Frame(q, n) = f[n]
  BY FrameIs
<1> HIDE DEF f
<1>4. 0 \in S
  <2> DEFINE p == [batch |-> <<>>, rest |-> q]
  <2>1. f[0] = p
    BY <1>2, SMT
  <2>2. <<>> \in Seq(Item) /\ <<>> \o q = q /\ 0 \in Nat
    BY SMT
  <2>3. Alike(q, q)
    BY DEF Alike
  <2>4. Thin(q, q)
    BY <2>3, ThinAlike
  <2>5. p \in Frames /\ p.batch = <<>> /\ p.rest = q
    BY <2>2 DEF Frames
  <2> HIDE DEF p
  <2> QED BY <2>1, <2>2, <2>4, <2>5 DEF Whole
<1>5. ASSUME NEW k \in Nat, k \in S PROVE k + 1 \in S
  <2>1. k + 1 \in Nat
    BY SMT
  <2>2. ASSUME k + 1 <= n PROVE Whole(f[k + 1], q)
    <3>1. k <= n /\ k + 1 \in 0 .. n /\ k + 1 # 0 /\ (k + 1) - 1 = k
      BY <2>2, SMT
    <3>2. f[k + 1] = Pop(f[(k + 1) - 1])
      BY <1>2, <3>1
    <3>3. Whole(f[k], q)
      BY <1>5, <3>1
    <3> QED BY <3>1, <3>2, <3>3, PopWhole
  <2> QED BY <2>1, <2>2
<1>6. n <= n
  BY SMT
<1> HIDE DEF S
<1>7. n \in S
  BY <1>4, <1>5, Upwards
<1> QED BY <1>3, <1>6, <1>7 DEF S

-----------------------------------------------------------------------------
ConState == {"none", "open", "closing", "terminated", "closed"}

(* Where the main thread is: the bridge comes up, is up, is stopped, or    *)
(* its members are destroyed; or the constructor has thrown.               *)
Early == {"construct", "listen", "spin"}
Up == {"spin", "joinPoll", "stopHttp", "joinHttp", "stop"}
Stopping == {"snapshot", "close", "wait", "terminate", "halt", "join"}
Ending == {"destroy", "joinFetch", "destroyTables", "quit", "joinHandler", "destroyed"}
Ended == {"clear"} \cup Ending
Failing == {"throw", "throwJoin"}

PlaceInv ==
    /\ main \in Early \cup Up \cup Stopping \cup Ended \cup Failing
    /\ hrun \in [{"handler"} -> Request \cup {None}]

(* Which threads run, or were joined. *)
ThreadInv ==
    /\ main \in {"listen", "throw", "spin", "joinPoll", "stopHttp"} => httpOn
    /\ main \in {"stop"} \cup Stopping \cup Ended => http = "joined"
    /\ main \in {"stopHttp", "joinHttp", "stop"} \cup Stopping \cup Ended =>
         io = "none" \/ poll = "joined"
    /\ io = "none" => poll = "none"
    /\ main # "spin" => \A e \in Exec : exec[e] = None
    /\ main \in {"joinHandler", "destroyed"} => hquit
    /\ main = "destroyed" => hrun["handler"] = None

(* The io_service returns only after the acceptor was closed; it is never  *)
(* run when the constructor throws.                                        *)
NetworkInv ==
    /\ io = "none" => ~listening
    /\ main \in {"construct", "listen"} \cup Failing => io = "none"
    /\ main \in Up => listening
    /\ main \in Stopping \cup Ended => ~listening
    /\ main \in Stopping => io # "none"
    /\ io \in {"halted", "returned"} => main \in Stopping \cup Ended
    /\ io = "halted" => main = "join"
    /\ main \in Ended => io \in {"none", "returned"}

(* The clients that stop closes are closed once the network thread has     *)
(* nothing to wait for, or were terminated.                                *)
ClosingInv ==
    /\ io = "none" => closing = {}
    /\ main = "snapshot" /\ io = "returned" => \A c \in Conn : ~Alive(c)
    /\ main \in {"halt", "join"} \cup Ended => \A c \in closing : ~Alive(c)
    /\ io = "returned" /\ main # "snapshot" => \A c \in closing : ~Alive(c)

(* After Server::stop nobody queues callbacks. *)
LeftInv ==
    /\ io = "none" => hq = <<>> /\ hrun["handler"] = None
    /\ main \in Ending =>
         Range(hq) \cup ({hrun["handler"]} \ {None}) \subseteq leftover
    /\ main \notin Ending \ {"destroy"} => gone = {} /\ misuse = {}
    /\ misuse \subseteq leftover

EndInv ==
    /\ TypeOK /\ PlaceInv /\ ThreadInv
    /\ NetworkInv /\ ClosingInv /\ LeftInv

-----------------------------------------------------------------------------
(* What an executor thread is sending, and what it will send under an id   *)
(* that the client has given up.                                           *)
Sending ==
    [conn : Conn, msg : Message, id : SubId \cup {None}, sub : Nat]

SendingInv ==
    /\ exec \in [Exec -> Sending \cup {None}]
    /\ late \in [Conn -> Nat] /\ made \in [Conn -> Nat]

Pending(c) ==
    {e \in Exec : /\ exec[e] # None /\ exec[e].conn = c
                  /\ exec[e].id \notin {None, subid[c]}}

LateInv ==
    \A c \in Conn : late[c] + Cardinality(Pending(c)) <= Cardinality(Exec)

(* A history belongs to a ROS subscription, and that to a client with an   *)
(* id for it, unless the handler thread is between its two steps.          *)
HistoryInv ==
    /\ used \in [messages : Nat, notices : Nat, requests : Nat]
    /\ latched \in [Pub -> Message \cup {None}]
    /\ inbox \in [Conn -> Seq(Message)]
    /\ DOMAIN rossub = Conn
    /\ \A c \in Conn : inbox[c] # <<>> => rossub[c] # None

Midway(c) == stage = "second" /\ hrun["handler"].conn = c

Asks(r) == r.op \in {"subscribe", "unsubscribe"} => r.id # None

TwoStepInv ==
    /\ \A i \in 1..Len(hq) : Asks(hq[i])
    /\ hrun["handler"] # None => Asks(hrun["handler"])
    /\ hrun["handler"] = None => stage = "first"
    /\ main \in Early =>
         /\ \A c \in Conn : rossub[c] # None /\ ~Midway(c) =>
              c \in clients /\ subid[c] # None
         /\ Runs("subscribe", "second") => hrun["handler"].conn \in clients
         /\ Runs("unsubscribe", "second") =>
              rossub[hrun["handler"].conn] = None
         /\ Runs("login", "second") => FALSE

SendInv == SendingInv /\ LateInv /\ HistoryInv /\ TwoStepInv

-----------------------------------------------------------------------------


(* The websocket server's thread: it runs the io_service, opens            *)
(* connections only while the acceptor is open, and queues callbacks.      *)
NetStep ==
    /\ io = "running"
    /\ UNCHANGED lifeVars
    /\ UNCHANGED <<tableVars, rosVars, hrun, hquit, stage>>
    /\ UNCHANGED <<made, late, overtaken>>
    /\ con' \in [Conn -> ConState]
    /\ \A c \in Conn : con'[c] \in {"open", "closing"} => Alive(c) \/ listening
    /\ hq' = hq \/ \E r \in Request : Asks(r) /\ hq' = Append(hq, r)
    /\ used' = used \/ \E w \in {"notices", "requests"} :
                          used' = [used EXCEPT ![w] = @ + 1]

(* The steps of the network thread, and time, are such steps. *)
LEMMA NetSteps ==
    ASSUME TypeOK, Client \/ Network \/ Time
    PROVE  NetStep
<1> USE DEF netVars, tableVars, rosVars, queueVars, histVars
<1>0. con \in [Conn -> ConState]
  BY DEF TypeOK, ConState
<1>1. io = "running" /\ UNCHANGED lifeVars
  BY DEF Client, Network, Time
<1>2. ASSUME NEW c \in Conn, listening, Open(c) PROVE NetStep
  <2>1. con' = [con EXCEPT ![c] = "open"]
    BY <1>2 DEF Open
  <2>2. con' \in [Conn -> ConState]
    BY <1>0, <2>1 DEF ConState
  <2>3. UNCHANGED <<tableVars, rosVars, hq, hrun, hquit, stage, used, made,
                    late, overtaken>>
    BY <1>2 DEF Open
  <2> QED BY <1>1, <1>2, <2>2, <2>3 DEF NetStep
<1>3. ASSUME NEW c \in Conn, Down(c) PROVE NetStep
  <2>1. con' = [con EXCEPT ![c] = "closed"]
    BY <1>3 DEF Down
  <2>2. /\ con' \in [Conn -> ConState]
        /\ \A d \in Conn : con'[d] \in {"closed", con[d]}
    BY <1>0, <2>1 DEF ConState
  <2>3. \E r \in Request : Asks(r) /\ hq' = Append(hq, r)
    <3> DEFINE r == [op |-> "close", conn |-> c, id |-> None]
    <3>1. r \in Request /\ Asks(r)
      BY SMT DEF Request, Asks
    <3>2. hq' = Append(hq, r)
      BY <1>3 DEF Down, Handlers!Add
    <3> QED BY <3>1, <3>2
  <2>4. UNCHANGED <<tableVars, rosVars, hrun, hquit, stage, used, made,
                    late, overtaken>>
    BY <1>3 DEF Down, Handlers!Add
  <2> QED BY <1>1, <2>2, <2>3, <2>4 DEF NetStep, Alive
<1>4. ASSUME NEW c \in Conn, Written(c) \/ WriteFrame(c) \/ Ages(c)
      PROVE  NetStep
  <2>1. UNCHANGED <<con, tableVars, rosVars, hq, hrun, hquit, stage, used,
                    made, late, overtaken>>
    BY <1>4 DEF Written, WriteFrame, Ages
  <2> QED BY <1>0, <1>1, <2>1 DEF NetStep, Alive
<1>5. ASSUME NEW c \in Conn, Notice(c) PROVE NetStep
  <2>1. UNCHANGED <<con, tableVars, rosVars, hq, hrun, hquit, stage, made,
                    late, overtaken>>
    BY <1>5 DEF Notice
  <2>2. used' = [used EXCEPT !["notices"] = @ + 1]
    BY <1>5 DEF Notice, Spend
  <2> QED BY <1>0, <1>1, <2>1, <2>2 DEF NetStep, Alive
<1>6. ASSUME NEW r \in Request, Receive(r) PROVE NetStep
  <2>1. UNCHANGED <<con, tableVars, rosVars, hrun, hquit, stage, made,
                    late, overtaken>>
    BY <1>6 DEF Receive, Handlers!Add
  <2>2. Asks(r) /\ hq' = Append(hq, r)
    BY <1>6 DEF Receive, Handlers!Add, Asks
  <2>3. used' = [used EXCEPT !["requests"] = @ + 1]
    BY <1>6 DEF Receive, Spend
  <2> QED BY <1>0, <1>1, <2>1, <2>2, <2>3 DEF NetStep, Alive
<1> QED BY <1>2, <1>3, <1>4, <1>5, <1>6 DEF Client, Network, Time, Leave

(* The handler thread: it starts the callback at the head of its queue, or *)
(* does a step of the one that runs.                                       *)
HandlerStep ==
    /\ UNCHANGED <<netVars, pubs, latched, exec, bound, used>>
    /\ UNCHANGED <<main, rosOk, poll, httpVars, io, stopVars, leftover>>
    /\ UNCHANGED hquit
    /\ hquit => hrun["handler"] # None
    /\ \/ /\ hrun["handler"] = None /\ hq # <<>>
          /\ hrun' = [hrun EXCEPT !["handler"] = Head(hq)]
          /\ hq' = Tail(hq)
          /\ UNCHANGED <<tableVars, stage, late, inbox, misuse>>
       \/ /\ hrun["handler"] # None /\ hq' = hq
          /\ hrun' \in {hrun, [hrun EXCEPT !["handler"] = None]}
          /\ clients' \subseteq clients \cup {hrun["handler"].conn}
          /\ \/ UNCHANGED <<subid, late>>
             \/ \E id \in {None, hrun["handler"].id} :
                  SetId(hrun["handler"].conn, id)
          /\ stage' \in {"first", "second"}
          /\ misuse' \in {misuse, misuse \cup {hrun["handler"]}}
          /\ gone = {} => misuse' = misuse

(* Each step of the handler thread is one of these. *)
LEMMA HandlerSteps ==
    ASSUME Handler
    PROVE  HandlerStep
<1> USE DEF netVars, tableVars, rosVars, queueVars, histVars
<1>1. /\ UNCHANGED <<main, rosOk, poll, httpVars, io, stopVars, leftover>>
      /\ hquit => hrun["handler"] # None
      /\ misuse' \in {misuse, misuse \cup {hrun["handler"]}}
      /\ gone = {} => misuse' = misuse
  BY DEF Handler
<1>2. CASE HandlerStart
  <2>1. /\ hrun["handler"] = None /\ hq # <<>>
        /\ hrun' = [hrun EXCEPT !["handler"] = Head(hq)]
        /\ hq' = Tail(hq)
        /\ UNCHANGED <<netVars, tableVars, rosVars, hquit, stage, bound, used,
                       histVars>>
    BY <1>2 DEF HandlerStart, Handlers!Start
  <2>2. misuse' = misuse
    BY <2>1 DEF Handler
  <2> QED BY <1>1, <2>1, <2>2 DEF HandlerStep
<1>3. CASE Login
  BY <1>1, <1>3 DEF HandlerStep, Login, Runs, Done, Handlers!End
<1>4. CASE SubscribeCall \/ UnsubscribeCall
  BY <1>1, <1>4 DEF HandlerStep, SubscribeCall, UnsubscribeCall, Runs, Done,
     Goes, Handlers!End, DropSubscription
<1>5. CASE SubscribeStore \/ UnsubscribeErase
  BY <1>1, <1>5 DEF HandlerStep, SubscribeStore, UnsubscribeErase, SetId, Runs,
     Done, Handlers!End
<1>6. CASE Close
  BY <1>1, <1>6 DEF HandlerStep, Close, SetId, Runs, Done, Goes, Handlers!End
<1>7. CASE CloseUnsubscribe
  BY <1>1, <1>7 DEF HandlerStep, CloseUnsubscribe, DropSubscription, Runs,
     Done, Handlers!End
<1> QED BY <1>2, <1>3, <1>4, <1>5, <1>6, <1>7 DEF Handler, Handle

(* The executor and ROS: after spin has returned nobody sends. *)
RosStep ==
    /\ UNCHANGED lifeVars
    /\ UNCHANGED <<con, tableVars, queueVars>>
    /\ pubs' \subseteq Pub
    /\ main = "spin" \/ \E e \in Exec : exec[e] # None

(* The executor and the publishers, as far as the end is concerned. *)
LEMMA RosSteps ==
    ASSUME TypeOK, Executor \/ Ros
    PROVE  RosStep
<1> USE DEF netVars, tableVars, rosVars, queueVars, histVars
<1>1. pubs \subseteq Pub /\ UNCHANGED lifeVars
  BY DEF TypeOK, Executor, Ros
<1>2. ASSUME NEW e \in Exec, NEW c \in Conn, main = "spin", Take(e, c)
      PROVE  RosStep
  BY <1>1, <1>2 DEF RosStep, Take
<1>3. ASSUME NEW e \in Exec, Lookup(e) \/ Send(e) PROVE RosStep
  BY <1>1, <1>3 DEF RosStep, Lookup, Send
<1>4. ASSUME NEW p \in Pub, main = "spin", PublisherJoins(p) \/ Publish(p)
      PROVE  RosStep
  BY <1>1, <1>4 DEF RosStep, PublisherJoins, Publish, Spend
<1> QED BY <1>2, <1>3, <1>4 DEF Executor, Ros

(* The steps of the main thread, the HTTP thread and the poll thread that  *)
(* have nothing to do with clients and their messages.                     *)
Aside ==
    \/ StartHttp \/ StopHttp \/ JoinHttp \/ SpinReturns \/ JoinPoll
    \/ StopListening \/ StopWait \/ StopHalt \/ StopJoin
    \/ StartServer \/ StartServerThrows \/ Signal
    \/ HttpFails \/ HttpLoop \/ PollExits \/ NetworkReturns \/ SpuriousWakeup

(* The steps aside leave the delivery of messages alone. *)
LEMMA AsideSteps ==
    ASSUME Aside
    PROVE  UNCHANGED <<deliveryVars, closing, gone, leftover, misuse>>
<1> USE DEF stopVars, endVars
<1>1. CASE \/ StartHttp \/ StopHttp \/ JoinHttp \/ SpinReturns \/ JoinPoll
           \/ StopListening \/ StopWait \/ StopHalt \/ StopJoin
  BY <1>1 DEF StartHttp, StopHttp, JoinHttp, SpinReturns, JoinPoll,
     StopListening, StopWait, StopHalt, StopJoin
<1>2. CASE \/ StartServer \/ StartServerThrows \/ Signal
           \/ HttpFails \/ HttpLoop \/ PollExits \/ NetworkReturns
           \/ SpuriousWakeup
  BY <1>2 DEF StartServer, StartServerThrows, Signal, HttpFails, HttpLoop,
     PollExits, NetworkReturns, SpuriousWakeup
<1> QED BY <1>1, <1>2 DEF Aside

(* Every step is one of these. *)
LEMMA Steps ==
    ASSUME TypeOK, [Next]_vars
    PROVE  \/ NetStep \/ RosStep \/ Handler \/ Aside
           \/ StopSnapshot \/ StopClose \/ StopTerminate
           \/ StopClear \/ Destroy
           \/ UNCHANGED vars
<1>1. CASE Client \/ Network \/ Time
  BY <1>1, NetSteps
<1>2. CASE Executor \/ Ros
  BY <1>2, RosSteps
<1> QED BY <1>1, <1>2 DEF Next, MainThread, Aside, Terminated

(* Every step keeps the types. *)
LEMMA TypeStep ==
    ASSUME TypeOK, PlaceInv, [Next]_vars
    PROVE  TypeOK' /\ hrun' \in [{"handler"} -> Request \cup {None}]
<1> DEFINE HrunType == hrun \in [{"handler"} -> Request \cup {None}]
<1>0. HrunType
  BY DEF PlaceInv
<1> USE DEF TypeOK, netVars, tableVars, rosVars, queueVars, histVars
<1> USE DEF httpVars, stopVars, endVars, lifeVars, deliveryVars
<1>1. CASE NetStep
  <2>1. con' \in [Conn -> ConState]
    BY <1>1 DEF NetStep
  <2>2. hq' \in Seq(Request)
    <3>1. hq' = hq \/ \E r \in Request : hq' = Append(hq, r)
      BY <1>1 DEF NetStep
    <3> QED BY <3>1, SMT
  <2>3. UNCHANGED <<lifeVars, tableVars, rosVars, hrun, stage>>
    BY <1>1 DEF NetStep
  <2> QED BY <1>0, <2>1, <2>2, <2>3 DEF ConState
<1>2. CASE RosStep
  <2>1. /\ UNCHANGED <<lifeVars, con, tableVars, queueVars>>
        /\ pubs' \subseteq Pub
    BY <1>2 DEF RosStep
  <2> QED BY <1>0, <2>1
<1>3. CASE Handler
  <2>1. HandlerStep
    BY <1>3, HandlerSteps
  <2>2. UNCHANGED <<con, pubs, closing, poll, http, io, waited>>
    BY <2>1 DEF HandlerStep
  <2>3. CASE hrun["handler"] = None
    <3>1. /\ hrun' = [hrun EXCEPT !["handler"] = Head(hq)]
          /\ hq # <<>> /\ hq' = Tail(hq)
          /\ UNCHANGED <<clients, subid, stage, misuse>>
      BY <2>1, <2>3 DEF HandlerStep
    <3>2. Head(hq) \in Request /\ hq' \in Seq(Request)
      BY <3>1, SMT
    <3>3. hrun' \in [{"handler"} -> Request \cup {None}]
      BY <1>0, <3>1, <3>2
    <3>4. hrun'["handler"] \in Request \cup {None}
      BY <3>3
    <3> QED BY <2>2, <3>1, <3>2, <3>3, <3>4
  <2>4. CASE hrun["handler"] # None
    <3> DEFINE r == hrun["handler"]
    <3>1. r \in Request
      BY <2>4
    <3>2. r.conn \in Conn /\ r.id \in SubId \cup {None}
      BY <3>1, SMT DEF Request
    <3>3. /\ hq' = hq /\ hrun' \in {hrun, [hrun EXCEPT !["handler"] = None]}
          /\ clients' \subseteq clients \cup {r.conn}
          /\ \E id \in {None, r.id} :
               subid' \in {subid, [subid EXCEPT ![r.conn] = id]}
          /\ stage' \in {"first", "second"}
          /\ misuse' \in {misuse, misuse \cup {r}}
      BY <2>1, <2>4 DEF HandlerStep, SetId
    <3>4. hrun' \in [{"handler"} -> Request \cup {None}]
      BY <1>0, <3>3
    <3>5. hrun'["handler"] \in Request \cup {None}
      BY <3>4
    <3>6. subid' \in [Conn -> SubId \cup {None}]
      BY <3>2, <3>3
    <3>7. clients' \subseteq Conn /\ misuse' \subseteq Request
      BY <3>1, <3>2, <3>3
    <3> QED BY ZenonT(40), <2>2, <3>3, <3>4, <3>5, <3>6, <3>7
  <2> QED BY <2>3, <2>4
<1>4. CASE Aside
  <2>1. UNCHANGED <<deliveryVars, closing, misuse>>
    BY <1>4, AsideSteps
  <2>2. waited' \in 0..MaxWaits
    <3>1. \/ waited' = waited
          \/ waited < MaxWaits /\ waited' = waited + 1
      BY <1>4 DEF Aside, StartHttp, StopHttp, JoinHttp, SpinReturns, JoinPoll,
         StopListening, StopWait, StopHalt, StopJoin, StartServer,
         StartServerThrows, Signal, HttpFails, HttpLoop, PollExits,
         NetworkReturns, SpuriousWakeup
    <3> QED BY <3>1, WaitBound, SMTT(30)
  <2>3. poll' \in {"none", "running", "exited", "joined"}
    BY <1>4 DEF Aside, StartHttp, StopHttp, JoinHttp, SpinReturns, JoinPoll,
       StopListening, StopWait, StopHalt, StopJoin, StartServer,
       StartServerThrows, Signal, HttpFails, HttpLoop, PollExits,
       NetworkReturns, SpuriousWakeup
  <2>4. http' \in {"none", "setup", "select", "serve", "exited", "joined"}
    BY <1>4 DEF Aside, StartHttp, StopHttp, JoinHttp, SpinReturns, JoinPoll,
       StopListening, StopWait, StopHalt, StopJoin, StartServer,
       StartServerThrows, Signal, HttpFails, HttpLoop, PollExits,
       NetworkReturns, SpuriousWakeup
  <2>5. io' \in {"none", "running", "halted", "returned"}
    BY <1>4 DEF Aside, StartHttp, StopHttp, JoinHttp, SpinReturns, JoinPoll,
       StopListening, StopWait, StopHalt, StopJoin, StartServer,
       StartServerThrows, Signal, HttpFails, HttpLoop, PollExits,
       NetworkReturns, SpuriousWakeup
  <2> QED BY <1>0, <2>1, <2>2, <2>3, <2>4, <2>5
<1>5. CASE StopSnapshot
  <2>1. closing' \subseteq Conn
    BY <1>5 DEF StopSnapshot
  <2> QED BY <1>0, <1>5, <2>1 DEF StopSnapshot
<1>6. CASE StopClose \/ StopTerminate
  <2>1. con' \in [Conn -> ConState]
    BY <1>6 DEF StopClose, StopTerminate, ConState
  <2>2. UNCHANGED <<tableVars, pubs, queueVars, poll, http, io, waited,
                    closing, misuse>>
    BY <1>6 DEF StopClose, StopTerminate
  <2> QED BY ZenonT(40), <1>0, <2>1, <2>2 DEF ConState
<1>7. CASE StopClear
  <2>1. clients' \subseteq Conn /\ subid' \in [Conn -> SubId \cup {None}]
    BY <1>7 DEF StopClear
  <2> QED BY <1>0, <1>7, <2>1 DEF StopClear
<1>8. CASE Destroy
  BY <1>0, <1>8 DEF Destroy
<1>9. CASE UNCHANGED vars
  BY <1>0, <1>9 DEF vars
<1> HIDE DEF TypeOK
<1> QED BY <1>1, <1>2, <1>3, <1>4, <1>5, <1>6, <1>7, <1>8, <1>9, Steps

(* The main thread goes where it should, and joins the other threads on    *)
(* its way.                                                                *)
LEMMA ThreadStep ==
    ASSUME TypeOK, PlaceInv, ThreadInv, NetworkInv, [Next]_vars
    PROVE  PlaceInv' /\ ThreadInv'
<1>0. hrun' \in [{"handler"} -> Request \cup {None}]
  BY TypeStep
<1> USE DEF netVars, tableVars, rosVars, queueVars, histVars
<1> USE DEF httpVars, stopVars, endVars, lifeVars, deliveryVars
<1>1. CASE NetStep
  <2>1. UNCHANGED <<lifeVars, exec, hrun, hquit>>
    BY <1>1 DEF NetStep
  <2> QED BY <2>1 DEF PlaceInv, ThreadInv
<1>2. CASE RosStep
  <2>1. UNCHANGED <<lifeVars, hrun, hquit>>
    BY <1>2 DEF RosStep
  <2>2. main = "spin"
    BY <1>2 DEF RosStep, ThreadInv
  <2> QED BY <2>1, <2>2 DEF PlaceInv, ThreadInv, Stopping, Ended, Ending
<1>3. CASE Handler
  <2>1. HandlerStep
    BY <1>3, HandlerSteps
  <2>2. /\ UNCHANGED <<main, httpOn, http, poll, io, exec, hquit>>
        /\ hquit => hrun["handler"] # None
    BY <2>1 DEF HandlerStep
  <2>3. main # "destroyed"
    BY <2>2 DEF ThreadInv
  <2> QED BY <1>0, <2>2, <2>3 DEF PlaceInv, ThreadInv
<1>4. CASE Aside
  <2>0. UNCHANGED <<exec, hrun, hquit>>
    BY <1>4, AsideSteps
  <2> USE DEF Main, Early, Up, Stopping, Ended, Ending, Failing
  <2>1. CASE StartHttp
    <3>1. /\ main = "construct" /\ main' = "listen" /\ httpOn' = TRUE
          /\ UNCHANGED <<poll, io>>
      BY <2>1 DEF StartHttp
    <3> QED BY <2>0, <3>1 DEF PlaceInv, ThreadInv
  <2>2. CASE StartServer \/ StartServerThrows
    <3>1. /\ main = "listen" /\ main' \in {"spin", "throw"}
          /\ UNCHANGED <<httpOn, http>>
          /\ UNCHANGED <<poll, io>> \/ io' = "running"
      BY <2>2 DEF StartServer, StartServerThrows
    <3> QED BY <2>0, <3>1 DEF PlaceInv, ThreadInv
  <2>3. CASE StopHttp
    <3>1. /\ \/ /\ main = "stopHttp"
                /\ main' = IF httpOn THEN "joinHttp" ELSE "stop"
             \/ /\ main = "throw"
                /\ main' = IF httpOn THEN "throwJoin" ELSE "destroy"
          /\ UNCHANGED <<http, poll, io>>
      BY <2>3 DEF StopHttp
    <3>2. httpOn
      BY <3>1 DEF ThreadInv
    <3> QED BY <2>0, <3>1, <3>2 DEF PlaceInv, ThreadInv
  <2>4. CASE JoinHttp
    <3>1. /\ \/ main = "joinHttp" /\ main' = "stop"
             \/ main = "throwJoin" /\ main' = "destroy"
          /\ http' = "joined" /\ UNCHANGED <<poll, io>>
      BY <2>4 DEF JoinHttp
    <3>2. main = "throwJoin" => io = "none"
      BY DEF NetworkInv
    <3> QED BY <2>0, <3>1, <3>2 DEF PlaceInv, ThreadInv
  <2>5. CASE SpinReturns
    <3>1. /\ main = "spin" /\ main' = "joinPoll"
          /\ UNCHANGED <<httpOn, http, poll, io>>
          /\ \A e \in Exec : exec[e] = None
      BY <2>5 DEF SpinReturns
    <3> QED BY <2>0, <3>1 DEF PlaceInv, ThreadInv
  <2>6. CASE JoinPoll
    <3>1. /\ main = "joinPoll" /\ main' = "stopHttp"
          /\ poll = "exited" /\ poll' = "joined" /\ UNCHANGED <<httpOn, http, io>>
      BY <2>6 DEF JoinPoll
    <3> QED BY <2>0, <3>1 DEF PlaceInv, ThreadInv
  <2>7. CASE StopListening \/ StopWait \/ StopHalt \/ StopJoin
    <3>1. /\ main \in {"stop", "wait", "halt", "join"}
          /\ main' \in {"snapshot", "wait", "terminate", "join", "clear"}
          /\ UNCHANGED <<http, poll>> /\ (io' = io \/ (io # "none" /\ io' # "none"))
      BY <2>7 DEF StopListening, StopWait, StopHalt, StopJoin
    <3> QED BY <2>0, <3>1 DEF PlaceInv, ThreadInv
  <2>8. CASE Signal \/ SpuriousWakeup \/ NetworkReturns
    <3>1. /\ UNCHANGED <<main, httpOn, http, poll>>
          /\ io' = io \/ (io # "none" /\ io' # "none")
      BY <2>8 DEF Signal, SpuriousWakeup, NetworkReturns
    <3> QED BY <2>0, <3>1 DEF PlaceInv, ThreadInv
  <2>9. CASE HttpFails \/ HttpLoop
    <3>1. /\ http \in {"setup", "select", "serve"}
          /\ UNCHANGED <<main, httpOn, poll, io>>
      BY <2>9 DEF HttpFails, HttpLoop
    <3> QED BY <2>0, <3>1 DEF PlaceInv, ThreadInv
  <2>10. CASE PollExits
    <3>1. poll = "running" /\ UNCHANGED <<main, httpOn, http, io>>
      BY <2>10 DEF PollExits
    <3> QED BY <2>0, <3>1 DEF PlaceInv, ThreadInv
  <2> QED BY <1>4, <2>1, <2>2, <2>3, <2>4, <2>5, <2>6, <2>7, <2>8, <2>9, <2>10
      DEF Aside
<1>5. CASE StopSnapshot \/ StopClose \/ StopTerminate \/ StopClear
  <2>1. /\ main \in {"snapshot", "close", "terminate", "clear"}
        /\ main' \in {"join", "close", "wait", "halt", "destroy"}
        /\ UNCHANGED <<http, poll, io, exec, hrun>>
    BY <1>5 DEF StopSnapshot, StopClose, StopTerminate, StopClear, Main
  <2> QED BY <2>1
      DEF PlaceInv, ThreadInv, Early, Up, Stopping, Ended, Ending, Failing
<1>6. CASE Destroy
  <2>1. /\ \/ main = "destroy" /\ main' = "joinFetch"
           \/ main = "joinFetch" /\ main' = "destroyTables"
           \/ main = "destroyTables" /\ main' = "quit"
           \/ main = "quit" /\ main' = "joinHandler" /\ hquit' = TRUE
           \/ /\ main = "joinHandler" /\ main' = "destroyed"
              /\ hrun["handler"] = None /\ hquit' = hquit
        /\ UNCHANGED <<http, poll, io, exec, hrun>>
    BY <1>6 DEF Destroy, Main
  <2> QED BY <2>1
      DEF PlaceInv, ThreadInv, Early, Up, Stopping, Ended, Ending, Failing
<1>7. CASE UNCHANGED vars
  BY <1>7 DEF vars, PlaceInv, ThreadInv
<1> QED BY <1>1, <1>2, <1>3, <1>4, <1>5, <1>6, <1>7, Steps

(* The network thread runs until the acceptor and all connections are      *)
(* closed, or until it is halted.                                          *)
LEMMA NetworkStep ==
    ASSUME TypeOK, PlaceInv, NetworkInv, [Next]_vars
    PROVE  NetworkInv'
<1> USE DEF netVars, tableVars, rosVars, queueVars, histVars
<1> USE DEF httpVars, stopVars, endVars, lifeVars, deliveryVars
<1>1. CASE NetStep \/ RosStep \/ UNCHANGED vars
  <2>1. UNCHANGED <<main, io, listening>>
    BY <1>1 DEF NetStep, RosStep, vars
  <2> QED BY <2>1 DEF NetworkInv
<1>2. CASE Handler
  <2>1. UNCHANGED <<main, io, listening>>
    BY <1>2, HandlerSteps DEF HandlerStep
  <2> QED BY <2>1 DEF NetworkInv
<1> USE DEF Main, Early, Up, Stopping, Ended, Ending, Failing
<1>3. CASE StartHttp \/ StartServerThrows \/ StopHttp \/ JoinHttp
  <2>1. /\ \/ /\ main \in {"construct", "listen", "throw", "throwJoin"}
              /\ main' \in {"listen", "throw", "throwJoin", "destroy"}
           \/ /\ main \in {"stopHttp", "joinHttp"}
              /\ main' \in {"joinHttp", "stop"}
        /\ UNCHANGED <<io, listening>>
    BY <1>3 DEF StartHttp, StartServerThrows, StopHttp, JoinHttp
  <2> QED BY <2>1 DEF NetworkInv
<1>4. CASE StartServer
  <2>1. main' = "spin" /\ io' = "running" /\ listening' = TRUE
    BY <1>4 DEF StartServer
  <2> QED BY <2>1 DEF NetworkInv
<1>5. CASE SpinReturns \/ JoinPoll
  <2>1. /\ main \in {"spin", "joinPoll"} /\ main' \in {"joinPoll", "stopHttp"}
        /\ UNCHANGED <<io, listening>>
    BY <1>5 DEF SpinReturns, JoinPoll
  <2> QED BY <2>1 DEF NetworkInv
<1>6. CASE StopListening
  <2>1. /\ main = "stop" /\ main' = "snapshot" /\ listening' = FALSE
        /\ io' = io
    BY <1>6 DEF StopListening
  <2> QED BY <2>1 DEF NetworkInv
<1>7. CASE StopSnapshot \/ StopClose \/ StopWait \/ StopTerminate
  <2>1. /\ main \in {"snapshot", "close", "wait", "terminate"}
        /\ main' \in {"close", "wait", "terminate", "halt", "join"}
        /\ UNCHANGED <<io, listening>>
    BY <1>7 DEF StopSnapshot, StopClose, StopWait, StopTerminate
  <2> QED BY <2>1 DEF NetworkInv
<1>8. CASE StopHalt
  <2>1. /\ main = "halt" /\ main' = "join" /\ listening' = listening
        /\ io' = io \/ (io = "running" /\ io' = "halted")
    BY <1>8 DEF StopHalt
  <2> QED BY <2>1 DEF NetworkInv
<1>9. CASE StopJoin
  <2>1. /\ main = "join" /\ main' = "clear" /\ io = "returned"
        /\ UNCHANGED <<io, listening>>
    BY <1>9 DEF StopJoin
  <2> QED BY <2>1 DEF NetworkInv
<1>10. CASE StopClear \/ Destroy
  <2>1. /\ main \in Ended /\ main' \in Ending /\ UNCHANGED <<io, listening>>
    BY <1>10 DEF StopClear, Destroy
  <2> QED BY <2>1 DEF NetworkInv
<1>11. CASE NetworkReturns
  <2>1. /\ io = "halted" \/ (io = "running" /\ ~listening)
        /\ io' = "returned" /\ UNCHANGED <<main, listening>>
    BY <1>11 DEF NetworkReturns
  <2>2. main \in Stopping \cup Ended
    BY <2>1 DEF NetworkInv, PlaceInv
  <2> QED BY <2>1, <2>2 DEF NetworkInv
<1>12. CASE Signal \/ HttpFails \/ HttpLoop \/ PollExits \/ SpuriousWakeup
  <2>1. UNCHANGED <<main, io, listening>>
    BY <1>12 DEF Signal, HttpFails, HttpLoop, PollExits, SpuriousWakeup
  <2> QED BY <2>1 DEF NetworkInv
<1> QED BY <1>1, <1>2, <1>3, <1>4, <1>5, <1>6, <1>7, <1>8, <1>9, <1>10, <1>11,
           <1>12, Steps DEF Aside

(* What Server::stop closes is closed. *)
LEMMA ClosingStep ==
    ASSUME TypeOK, PlaceInv, NetworkInv, ClosingInv, [Next]_vars
    PROVE  ClosingInv'
<1>0. NetworkInv'
  BY NetworkStep
<1> USE DEF netVars, tableVars, rosVars, queueVars, histVars
<1> USE DEF httpVars, stopVars, endVars, lifeVars, deliveryVars
<1>1. CASE NetStep
  <2>1. io = "running" /\ UNCHANGED <<main, io, closing>>
    BY <1>1 DEF NetStep
  <2>2. \A c \in Conn : Alive(c)' => Alive(c) \/ listening
    BY <1>1 DEF NetStep, Alive
  <2>3. main \in {"halt", "join"} \cup Ended => ~listening
    BY DEF NetworkInv, Stopping
  <2> QED BY <2>1, <2>2, <2>3 DEF ClosingInv, TypeOK
<1>2. CASE RosStep \/ Handler \/ UNCHANGED vars
  <2>1. UNCHANGED <<con, main, io, closing>>
    BY <1>2, HandlerSteps DEF RosStep, HandlerStep, vars
  <2> QED BY <2>1 DEF ClosingInv, Alive
<1> USE DEF Main
<1>3. CASE Aside
  <2>0. UNCHANGED <<con, closing>> /\ \A c \in Conn : Alive(c)' = Alive(c)
    BY <1>3, AsideSteps DEF Alive
  <2>1. CASE NetworkReturns
    <3>1. /\ io = "halted" \/ \A c \in Conn : con[c] \in {"none", "closed"}
          /\ io' = "returned" /\ main' = main
      BY <2>1 DEF NetworkReturns
    <3>2. CASE io = "halted"
      <4>1. main = "join"
        BY <3>2 DEF NetworkInv
      <4> QED BY <2>0, <3>1, <3>2, <4>1 DEF ClosingInv, TypeOK
    <3>3. CASE \A c \in Conn : con[c] \in {"none", "closed"}
      <4>1. \A c \in Conn : ~Alive(c)
        BY <3>3 DEF Alive
      <4> QED BY <2>0, <3>1, <4>1 DEF ClosingInv, TypeOK
    <3> QED BY <3>1, <3>2, <3>3
  <2>2. CASE StopWait
    <3>1. /\ main = "wait" /\ io' = io
          /\ main' = "join" => io = "returned"
          /\ main' \in {"join", "wait", "terminate"}
      BY <2>2 DEF StopWait
    <3> QED BY <2>0, <3>1 DEF ClosingInv, TypeOK, Ended, Ending
  <2>3. CASE StopHalt \/ StopJoin
    <3>1. /\ main \in {"halt", "join"} /\ main' \in {"join", "clear"}
          /\ io' = io \/ io' = "halted"
      BY <2>3 DEF StopHalt, StopJoin
    <3> QED BY <2>0, <3>1 DEF ClosingInv, TypeOK, Ended
  <2>4. CASE StopListening
    <3>1. main = "stop" /\ main' = "snapshot" /\ io' = io
      BY <2>4 DEF StopListening
    <3>2. io # "returned"
      BY <3>1 DEF NetworkInv, Stopping, Ended, Ending
    <3> QED BY <2>0, <3>1, <3>2 DEF ClosingInv, Ended, Ending
  <2>5. CASE HttpFails \/ HttpLoop \/ PollExits \/ Signal \/ SpuriousWakeup
    <3>1. UNCHANGED <<main, io>>
      BY <2>5 DEF HttpFails, HttpLoop, PollExits, Signal, SpuriousWakeup
    <3> QED BY <2>0, <3>1 DEF ClosingInv, TypeOK
  <2>6. CASE \/ StartHttp \/ StartServer \/ StartServerThrows \/ SpinReturns
             \/ JoinPoll \/ StopHttp \/ JoinHttp
    <3>1. /\ \/ main' \in {"listen", "spin", "joinPoll", "stopHttp", "joinHttp",
                           "stop"} \cup Failing
             \/ main \in Failing /\ main' = "destroy"
          /\ io' = io \/ io' = "running"
      BY <2>6 DEF StartHttp, StartServer, StartServerThrows, SpinReturns,
         JoinPoll, StopHttp, JoinHttp, Failing
    <3>2. CASE main \in Failing /\ main' = "destroy"
      <4>1. io = "none" /\ io' \in {"none", "running"} /\ closing' = {}
        BY <2>0, <3>1, <3>2 DEF NetworkInv, ClosingInv
      <4> QED BY <3>2, <4>1 DEF ClosingInv
    <3>3. CASE main' \notin {"destroy"}
      <4>1. main' \notin Stopping \cup Ended
        BY <3>1, <3>3 DEF Stopping, Ended, Ending, Failing
      <4>2. io' # "returned" /\ (io' = "none" => closing' = {})
        BY <1>0, <2>0, <3>1, <4>1 DEF ClosingInv, NetworkInv
      <4> QED BY <4>1, <4>2 DEF ClosingInv, Stopping
    <3> QED BY <3>1, <3>2, <3>3 DEF Failing
  <2> QED BY <1>3, <2>1, <2>2, <2>3, <2>4, <2>5, <2>6 DEF Aside
<1>4. CASE StopSnapshot
  <2>1. /\ main = "snapshot" /\ UNCHANGED <<io, con>>
        /\ main' = IF closing' = {} THEN "join" ELSE "close"
        /\ closing' \subseteq clients
    BY <1>4 DEF StopSnapshot
  <2>2. io # "none"
    BY <2>1 DEF NetworkInv, Stopping
  <2> QED BY <2>1, <2>2 DEF ClosingInv, TypeOK, Alive, Ended, Ending
<1>5. CASE StopClose
  <2>1. /\ main = "close" /\ main' = "wait" /\ UNCHANGED <<io, closing>>
        /\ \A c \in closing : con[c] # "open" => con'[c] = con[c]
    BY <1>5 DEF StopClose, TypeOK
  <2> QED BY <2>1 DEF ClosingInv, Alive, Ended, Ending
<1>6. CASE StopTerminate
  <2>1. /\ main' = "halt" /\ UNCHANGED <<io, closing>>
        /\ \A c \in closing : ~Alive(c)'
    BY <1>6 DEF StopTerminate, TypeOK, Alive
  <2> QED BY <2>1 DEF ClosingInv
<1>7. CASE StopClear \/ Destroy
  <2>1. /\ main \in Ended /\ main' \in Ended /\ UNCHANGED <<io, con, closing>>
    BY <1>7 DEF StopClear, Destroy, Ended, Ending
  <2> QED BY <2>1 DEF ClosingInv, Alive, Ended, Ending
<1> QED BY <1>1, <1>2, <1>3, <1>4, <1>5, <1>6, <1>7, Steps

(* Nobody queues a callback once the network thread has been joined. *)
LEMMA LeftStep ==
    ASSUME TypeOK, PlaceInv, NetworkInv, LeftInv, [Next]_vars
    PROVE  LeftInv'
<1> DEFINE Left == Range(hq) \cup ({hrun["handler"]} \ {None})
<1> USE DEF netVars, tableVars, rosVars, queueVars, histVars
<1> USE DEF httpVars, stopVars, endVars, lifeVars, deliveryVars
<1>1. CASE NetStep
  <2>1. io = "running" /\ UNCHANGED <<main, io, gone, misuse, leftover>>
    BY <1>1 DEF NetStep
  <2>2. main \notin Ending
    BY <2>1 DEF NetworkInv, Ended
  <2> QED BY <2>1, <2>2 DEF LeftInv
<1>2. CASE RosStep \/ UNCHANGED vars
  <2>1. UNCHANGED <<hq, hrun, main, io, gone, misuse, leftover>>
    BY <1>2 DEF RosStep, vars
  <2> QED BY <2>1 DEF LeftInv
<1>3. CASE Handler
  <2>1. HandlerStep
    BY <1>3, HandlerSteps
  <2>2. UNCHANGED <<main, io, gone, leftover>> /\ io # "none"
    BY <2>1 DEF HandlerStep, LeftInv
  <2>3. CASE hrun["handler"] = None
    <3>1. /\ hq # <<>> /\ hq' = Tail(hq) /\ misuse' = misuse
          /\ hrun' = [hrun EXCEPT !["handler"] = Head(hq)]
      BY <2>1, <2>3 DEF HandlerStep
    <3>2. hrun'["handler"] = Head(hq)
      BY <3>1 DEF PlaceInv
    <3>3. /\ Head(hq) \in Range(hq)
          /\ \A x \in Range(Tail(hq)) : x \in Range(hq)
      BY <3>1, SMT DEF TypeOK, Range
    <3> QED BY <2>2, <3>1, <3>2, <3>3 DEF LeftInv
  <2>4. CASE hrun["handler"] # None
    <3>1. /\ hq' = hq /\ hrun' \in {hrun, [hrun EXCEPT !["handler"] = None]}
          /\ misuse' \in {misuse, misuse \cup {hrun["handler"]}}
          /\ gone = {} => misuse' = misuse
      BY <2>1, <2>4 DEF HandlerStep
    <3>2. hrun'["handler"] \in {hrun["handler"], None}
      BY <3>1 DEF PlaceInv
    <3>3. main \notin Ending \ {"destroy"} => misuse' = misuse
      BY <3>1 DEF LeftInv
    <3>4. main \in Ending => hrun["handler"] \in leftover
      BY <2>4 DEF LeftInv
    <3> QED BY <2>2, <3>1, <3>2, <3>3, <3>4 DEF LeftInv
  <2> QED BY <2>3, <2>4
<1> USE DEF Main
<1>4. CASE Aside \/ StopSnapshot \/ StopClose \/ StopTerminate
  <2>1. UNCHANGED <<hq, hrun, gone, misuse, leftover>>
    BY <1>4, AsideSteps DEF StopSnapshot, StopClose, StopTerminate
  <2>2. \/ main' = main
        \/ main' \in {"listen", "spin", "throw", "joinPoll", "stopHttp",
                     "joinHttp", "stop", "throwJoin", "snapshot",
                     "close", "wait", "terminate", "halt", "join", "clear"}
           /\ main \notin Ending \ {"destroy"}
        \/ main \in Failing /\ main' = "destroy"
    <3>1. CASE StopSnapshot \/ StopClose \/ StopTerminate
      BY <3>1 DEF StopSnapshot, StopClose, StopTerminate, Ending
    <3>2. CASE \/ StartHttp \/ StopHttp \/ JoinHttp \/ SpinReturns \/ JoinPoll
               \/ StartServer \/ StartServerThrows
      BY <3>2 DEF StartHttp, StopHttp, JoinHttp, SpinReturns, JoinPoll,
         StartServer, StartServerThrows, Ending, Failing
    <3>3. CASE StopListening \/ StopWait \/ StopHalt \/ StopJoin
      BY <3>3 DEF StopListening, StopWait, StopHalt, StopJoin, Ending
    <3>4. CASE \/ Signal \/ HttpFails \/ HttpLoop \/ PollExits \/ NetworkReturns
               \/ SpuriousWakeup
      BY <3>4 DEF Signal, HttpFails, HttpLoop, PollExits, NetworkReturns,
         SpuriousWakeup
    <3> QED BY <1>4, <3>1, <3>2, <3>3, <3>4 DEF Aside
  <2>3. io' = "none" => io = "none"
    <3>1. CASE StopSnapshot \/ StopClose \/ StopTerminate
      BY <3>1 DEF StopSnapshot, StopClose, StopTerminate
    <3>2. CASE Aside
      BY <3>2 DEF Aside, StartHttp, StopHttp, JoinHttp, SpinReturns, JoinPoll,
         StopListening, StopWait, StopHalt, StopJoin, StartServer,
         StartServerThrows, Signal, HttpFails, HttpLoop, PollExits,
         NetworkReturns, SpuriousWakeup
    <3> QED BY <1>4, <3>1, <3>2
  <2>4. CASE \/ main' = main
             \/ main' \notin Ending /\ main \notin Ending \ {"destroy"}
    BY <2>1, <2>3, <2>4 DEF LeftInv
  <2>5. CASE main \in Failing /\ main' = "destroy"
    <3>1. hq = <<>> /\ hrun["handler"] = None /\ main \notin Ending
      BY <2>5 DEF NetworkInv, LeftInv, Failing, Ending
    <3>2. Range(hq) = {}
      BY <3>1, SMT DEF Range
    <3> QED BY <2>1, <2>5, <3>1, <3>2 DEF LeftInv
  <2> QED BY <2>2, <2>4, <2>5 DEF Ending
<1>5. CASE StopClear
  <2>1. /\ main = "clear" /\ main' = "destroy" /\ leftover' = Left
        /\ UNCHANGED <<hq, hrun, io, gone, misuse>>
    BY <1>5 DEF StopClear
  <2> QED BY <2>1 DEF LeftInv, Ending
<1>6. CASE Destroy
  <2>1. /\ main \in Ending /\ main' \in Ending \ {"destroy"}
        /\ UNCHANGED <<hq, hrun, io, misuse, leftover>>
    BY <1>6 DEF Destroy, Ending
  <2> QED BY <2>1 DEF LeftInv
<1> QED BY <1>1, <1>2, <1>3, <1>4, <1>5, <1>6, Steps

-----------------------------------------------------------------------------
(* The invariant of the end holds when the program starts. *)
LEMMA EndInit == Init => EndInv
<1> SUFFICES ASSUME Init PROVE EndInv
  OBVIOUS
<1> USE DEF Init, DeliveryInit, Handlers!Init
<1>1. /\ hq = <<>> /\ hrun = [w \in {"handler"} |-> None]
      /\ main \in {"construct", "spin"}
  OBVIOUS
<1>2. TypeOK
  <2>1. hq \in Seq(Request) /\ waited \in 0..MaxWaits
    BY WaitBound, SMT
  <2>2. pubs \subseteq Pub
    BY DeliveryConstants
  <2> QED BY <1>1, <2>1, <2>2 DEF TypeOK
<1>3. PlaceInv /\ ThreadInv
  BY <1>1 DEF PlaceInv, ThreadInv, Early, Stopping, Ended, Ending
<1>4. NetworkInv
  BY DEF NetworkInv, Up, Stopping, Ended, Ending, Failing
<1>5. ClosingInv /\ LeftInv
  BY <1>1 DEF ClosingInv, LeftInv, Ended, Ending
<1> QED BY <1>2, <1>3, <1>4, <1>5 DEF EndInv

(* Every step keeps the invariant of the end. *)
LEMMA EndStep == EndInv /\ [Next]_vars => EndInv'
<1> SUFFICES ASSUME EndInv, [Next]_vars PROVE EndInv'
  OBVIOUS
<1>1. TypeOK /\ PlaceInv /\ ThreadInv /\ NetworkInv /\ ClosingInv /\ LeftInv
  BY DEF EndInv
<1>2. TypeOK'
  BY <1>1, TypeStep
<1>3. PlaceInv' /\ ThreadInv'
  BY <1>1, ThreadStep
<1>4. NetworkInv' /\ ClosingInv' /\ LeftInv'
  BY <1>1, NetworkStep, ClosingStep, LeftStep
<1> QED BY <1>2, <1>3, <1>4 DEF EndInv

(* The main thread, the threads it joins, and what they leave behind. *)
THEOREM EndInvariance == Spec => []EndInv
  BY EndInit, EndStep, PTL DEF Spec

(* However many connections there are, and however long the close          *)
(* handshakes are waited for: nothing is destroyed under a thread that     *)
(* still uses it, and Server::stop leaves no client it saw open.           *)
THEOREM ThreadsJoined == Spec => []NothingOutlives
<1>1. EndInv => NothingOutlives
  <2> SUFFICES ASSUME EndInv PROVE NothingOutlives
    OBVIOUS
  <2>1. main = "destroyed" =>
          /\ http = "joined" /\ poll = (IF io = "none" THEN "none" ELSE "joined")
          /\ hrun["handler"] = None
    BY DEF EndInv, ThreadInv, Ended, Ending
  <2>2. main \in Ended => \A c \in closing : ~Alive(c)
    BY DEF EndInv, ClosingInv
  <2> QED BY <2>1, <2>2 DEF EndInv, NothingOutlives, Ended, Ending
<1> QED BY <1>1, EndInvariance, PTL

(* Callbacks that outlive the members they use were all left over when     *)
(* Server::stop returned.                                                  *)
THEOREM OnlyLeftovers == Spec => []MisuseOnlyOfLeftovers
<1>1. EndInv => MisuseOnlyOfLeftovers
  BY DEF EndInv, LeftInv, MisuseOnlyOfLeftovers
<1> QED BY <1>1, EndInvariance, PTL
-----------------------------------------------------------------------------
(* The steps that leave the ROS subscriptions and the executor alone. *)
Quiet ==
    /\ UNCHANGED <<tableVars, rosVars, hrun, stage>>
    /\ UNCHANGED <<made, late, overtaken>>
    /\ hq' = hq \/ \E r \in Request : Asks(r) /\ hq' = Append(hq, r)
    /\ used' = used \/ \E w \in {"notices", "requests"} :
                          used' = [used EXCEPT ![w] = @ + 1]
    /\ main' \in Early => main \in Early

(* Those steps. *)
LEMMA QuietSteps ==
    ASSUME \/ NetStep \/ Aside \/ StopSnapshot \/ StopClose \/ StopTerminate
           \/ Destroy \/ UNCHANGED vars
    PROVE  Quiet
<1> USE DEF netVars, tableVars, rosVars, queueVars, histVars
<1> USE DEF httpVars, stopVars, endVars, lifeVars, deliveryVars
<1>1. CASE NetStep
  BY <1>1 DEF NetStep, Quiet
<1> USE DEF Main
<1>2. CASE Aside
  <2>0. UNCHANGED deliveryVars
    BY <1>2, AsideSteps
  <2>1. main' \in Early => main \in Early
    <3>1. CASE StartHttp \/ StartServer
      BY <3>1 DEF StartHttp, StartServer, Early
    <3>2. CASE \/ StartServerThrows \/ StopHttp \/ JoinHttp
               \/ SpinReturns \/ JoinPoll
      BY <3>2 DEF StartServerThrows, StopHttp, JoinHttp, SpinReturns, JoinPoll,
         Early
    <3>3. CASE StopListening \/ StopWait \/ StopHalt \/ StopJoin
      BY <3>3 DEF StopListening, StopWait, StopHalt, StopJoin, Early
    <3>4. CASE \/ Signal \/ HttpFails \/ HttpLoop \/ PollExits \/ NetworkReturns
               \/ SpuriousWakeup
      BY <3>4 DEF Signal, HttpFails, HttpLoop, PollExits, NetworkReturns,
         SpuriousWakeup
    <3> QED BY <1>2, <3>1, <3>2, <3>3, <3>4 DEF Aside
  <2> QED BY <2>0, <2>1 DEF Quiet
<1>3. CASE StopSnapshot \/ StopClose \/ StopTerminate \/ Destroy
  <2>1. UNCHANGED <<tableVars, rosVars, hq, hrun, stage, used, made, late,
                    overtaken>>
    BY <1>3 DEF StopSnapshot, StopClose, StopTerminate, Destroy
  <2>2. main' \notin Early
    BY <1>3 DEF StopSnapshot, StopClose, StopTerminate, Destroy, Early
  <2> QED BY <2>1, <2>2 DEF Quiet
<1>4. CASE UNCHANGED vars
  BY <1>4 DEF vars, Quiet
<1> QED BY <1>1, <1>2, <1>3, <1>4

(* The other steps, one by one. *)
LEMMA Moves ==
    ASSUME TypeOK, [Next]_vars
    PROVE  \/ Quiet
           \/ \E e \in Exec, c \in Conn :
                main = "spin" /\ Take(e, c) /\ UNCHANGED lifeVars
           \/ \E e \in Exec : Lookup(e) /\ UNCHANGED lifeVars
           \/ \E e \in Exec : Send(e) /\ UNCHANGED lifeVars
           \/ \E p \in Pub :
                (PublisherJoins(p) \/ Publish(p)) /\ UNCHANGED lifeVars
           \/ Handler
           \/ StopClear
<1>1. CASE Client \/ Network \/ Time
  BY <1>1, NetSteps, QuietSteps
<1>2. CASE Aside \/ StopSnapshot \/ StopClose \/ StopTerminate \/ Destroy
  BY <1>2, QuietSteps
<1>3. CASE Terminated \/ UNCHANGED vars
  BY <1>3, QuietSteps DEF Terminated
<1>4. CASE Executor \/ Ros
  BY <1>4 DEF Executor, Ros
<1> QED BY <1>1, <1>2, <1>3, <1>4 DEF Next, MainThread, Aside

(* What the handler thread does to the running callback. *)
LEMMA HandlerMoves ==
    ASSUME TypeOK, PlaceInv, Handler
    PROVE  /\ UNCHANGED <<main, exec, latched, used, pubs>>
           /\ \/ UNCHANGED <<subid, late>>
              \/ \E c \in Conn, id \in SubId \cup {None} : SetId(c, id)
<1> USE DEF netVars, tableVars, rosVars, queueVars, histVars
<1>1. HandlerStep
  BY HandlerSteps
<1>2. CASE hrun["handler"] = None
  BY <1>1, <1>2 DEF HandlerStep
<1>3. CASE hrun["handler"] # None
  <2>1. hrun["handler"] \in Request
    BY <1>3 DEF TypeOK
  <2>2. /\ hrun["handler"].conn \in Conn
        /\ hrun["handler"].id \in SubId \cup {None}
    BY <2>1, SMT DEF Request
  <2> QED BY <1>1, <1>3, <2>2 DEF HandlerStep
<1> QED BY <1>2, <1>3

(* What it does to the history of a ROS subscription, and that it leaves   *)
(* the connections alone.                                                  *)
LEMMA HandlerHistories ==
    ASSUME TypeOK, Handler
    PROVE  /\ UNCHANGED <<netVars, pushed, overtaken>>
           /\ \/ UNCHANGED <<inbox, made>>
              \/ \E c \in Conn :
                   /\ inbox' = [inbox EXCEPT ![c] = <<>>]
                   /\ made' = made
              \/ \E c \in Conn :
                   /\ \E s \in {<<>>, Latched(select_qos(pubs))} :
                        inbox' = [inbox EXCEPT ![c] = s]
                   /\ made' = [made EXCEPT ![c] = @ + 1]
<1> DEFINE c == hrun["handler"].conn
<1> USE DEF netVars, tableVars, rosVars, queueVars, histVars
<1>1. ASSUME hrun["handler"] # None PROVE c \in Conn
  <2>1. hrun["handler"] \in Request
    BY <1>1 DEF TypeOK
  <2> QED BY <2>1, SMT DEF Request
<1>2. CASE \/ HandlerStart \/ Login \/ SubscribeStore \/ UnsubscribeErase
           \/ Close
  BY <1>2 DEF HandlerStart, Login, SubscribeStore, UnsubscribeErase, Close
<1>3. CASE SubscribeCall
  BY <1>1, <1>3 DEF SubscribeCall, Runs
<1>4. CASE UnsubscribeCall \/ CloseUnsubscribe
  BY <1>1, <1>4 DEF UnsubscribeCall, CloseUnsubscribe, DropSubscription, Runs
<1> QED BY <1>2, <1>3, <1>4 DEF Handler, Handle

(* What a thread has once it has taken a message. *)
LEMMA AfterTake ==
    ASSUME HistoryInv, SendingInv, NEW e \in Exec, NEW c \in Conn, Take(e, c)
    PROVE  \E x \in Sending :
             /\ x.conn = c /\ x.msg = Head(inbox[c]) /\ x.sub = made[c]
             /\ x.id = None
             /\ exec' = [exec EXCEPT ![e] = x] /\ UNCHANGED <<late, made, subid>>
<1> DEFINE x == [conn |-> c, msg |-> Head(inbox[c]), id |-> None, sub |-> made[c]]
<1> USE DEF netVars, tableVars, rosVars, queueVars, histVars
<1>1. exec' = [exec EXCEPT ![e] = x] /\ UNCHANGED <<late, made, subid>>
  BY DEF Take
<1>2. inbox[c] # <<>> /\ inbox[c] \in Seq(Message) /\ made[c] \in Nat
  BY DEF Take, HistoryInv, SendingInv
<1>3. Head(inbox[c]) \in Message
  BY <1>2, SMT
<1>4. x \in Sending
  BY <1>2, <1>3, SMT DEF Sending
<1>5. x.conn = c /\ x.msg = Head(inbox[c]) /\ x.sub = made[c] /\ x.id = None
  BY SMT
<1> HIDE DEF x
<1> QED BY <1>1, <1>4, <1>5

(* What a thread has once it has looked up the id: the message with the id *)
(* of the client, or nothing if there is none.                             *)
LEMMA AfterLookup ==
    ASSUME TypeOK, SendingInv, NEW e \in Exec, Lookup(e)
    PROVE  LET x == exec[e]
           IN  /\ x \in Sending /\ x # None /\ x.id = None /\ x.conn \in Conn
               /\ UNCHANGED <<late, made, subid>>
               /\ \/ /\ ~(x.conn \in clients /\ subid[x.conn] # None)
                     /\ exec' = [exec EXCEPT ![e] = None]
                  \/ \E y \in Sending :
                       /\ y.conn = x.conn /\ y.msg = x.msg /\ y.sub = x.sub
                       /\ y.id = subid[x.conn] /\ y.id # None /\ y # None
                       /\ exec' = [exec EXCEPT ![e] = y]
<1> DEFINE x == exec[e]
           y == [x EXCEPT !.id = subid[x.conn]]
<1> USE DEF netVars, tableVars, rosVars, queueVars, histVars
<1>1. /\ x # None /\ x.id = None /\ UNCHANGED <<late, made, subid>>
      /\ exec' = [exec EXCEPT ![e] =
            IF x.conn \in clients /\ subid[x.conn] # None THEN y ELSE None]
  BY DEF Lookup
<1>2. x \in Sending
  BY <1>1 DEF SendingInv
<1>3. x.conn \in Conn
  BY <1>2, SMT DEF Sending
<1>4. subid[x.conn] \in SubId \cup {None}
  BY <1>3 DEF TypeOK
<1> HIDE DEF x
<1>5. /\ y \in Sending
      /\ y.conn = x.conn /\ y.msg = x.msg /\ y.sub = x.sub /\ y.id = subid[x.conn]
  BY <1>2, <1>4, SMT DEF Sending
<1>6. y # None
  BY <1>5, DeliveryConstants DEF Sending
<1> HIDE DEF y
<1>7. CASE x.conn \in clients /\ subid[x.conn] # None
  <2>1. exec' = [exec EXCEPT ![e] = y]
    BY <1>1, <1>7
  <2> QED BY <1>1, <1>2, <1>3, <1>5, <1>6, <1>7, <2>1 DEF x
<1>8. CASE ~(x.conn \in clients /\ subid[x.conn] # None)
  <2>1. exec' = [exec EXCEPT ![e] = None]
    BY <1>1, <1>8
  <2> QED BY <1>1, <1>2, <1>3, <1>8, <2>1 DEF x
<1> QED BY <1>7, <1>8

(* A thread that looks up its client goes on with its message, or drops it. *)
LEMMA LookedUp ==
    ASSUME TypeOK, SendingInv, NEW e \in Exec, Lookup(e)
    PROVE  /\ exec[e] # None /\ UNCHANGED <<late, made>>
           /\ \E y \in Sending \cup {None} :
                /\ y # None => /\ y.conn = exec[e].conn /\ y.msg = exec[e].msg
                               /\ y.sub = exec[e].sub
                /\ exec' = [exec EXCEPT ![e] = y]
<1>1. exec[e] # None /\ UNCHANGED <<late, made>>
  BY AfterLookup
<1>2. CASE exec' = [exec EXCEPT ![e] = None]
  BY <1>1, <1>2
<1>3. CASE exec' # [exec EXCEPT ![e] = None]
  <2>1. PICK y \in Sending :
          /\ y.conn = exec[e].conn /\ y.msg = exec[e].msg /\ y.sub = exec[e].sub
          /\ exec' = [exec EXCEPT ![e] = y]
    BY <1>3, AfterLookup
  <2> QED BY <1>1, <2>1
<1> QED BY <1>2, <1>3

(* What a thread is sending keeps its type. *)
LEMMA SendingStep ==
    ASSUME TypeOK, PlaceInv, SendingInv, HistoryInv, [Next]_vars
    PROVE  SendingInv'
<1> USE DEF netVars, tableVars, rosVars, queueVars, histVars
<1>1. CASE Quiet \/ StopClear
  <2>1. UNCHANGED <<exec, late, made>>
    BY <1>1 DEF Quiet, StopClear
  <2> QED BY <2>1 DEF SendingInv
<1>2. ASSUME NEW e \in Exec, NEW c \in Conn, Take(e, c)
      PROVE  SendingInv'
  <2>1. /\ UNCHANGED <<made, late>>
        /\ \E x \in Sending : exec' = [exec EXCEPT ![e] = x]
    BY <1>2, AfterTake
  <2> QED BY <2>1 DEF SendingInv
<1>6. ASSUME NEW e \in Exec, Lookup(e)
      PROVE  SendingInv'
  <2>1. /\ UNCHANGED <<made, late>>
        /\ \E x \in Sending \cup {None} : exec' = [exec EXCEPT ![e] = x]
    BY <1>6, LookedUp
  <2> QED BY <2>1 DEF SendingInv
<1>3. ASSUME NEW e \in Exec, Send(e)
      PROVE  SendingInv'
  <2> DEFINE d == exec[e].conn
  <2>1. /\ exec' = [exec EXCEPT ![e] = None]
        /\ late' \in {late, [late EXCEPT ![d] = @ + 1]} /\ made' = made
    BY <1>3 DEF Send
  <2>2. exec' \in [Exec -> Sending \cup {None}]
    BY <2>1 DEF SendingInv
  <2> HIDE DEF d
  <2>3. late' \in [Conn -> Nat]
    BY <2>1, SMT DEF SendingInv
  <2> QED BY <2>1, <2>2, <2>3 DEF SendingInv
<1>4. ASSUME NEW p \in Pub, PublisherJoins(p) \/ Publish(p)
      PROVE  SendingInv'
  <2>1. UNCHANGED <<exec, late, made>>
    BY <1>4 DEF PublisherJoins, Publish
  <2> QED BY <2>1 DEF SendingInv
<1>5. CASE Handler
  <2>1. /\ exec' = exec
        /\ late' = late \/ \E c \in Conn : late' = [late EXCEPT ![c] = 0]
    BY <1>5, HandlerMoves DEF SetId
  <2>2. made' = made \/ \E c \in Conn : made' = [made EXCEPT ![c] = @ + 1]
    BY <1>5, HandlerHistories
  <2>3. late' \in [Conn -> Nat]
    BY <2>1, SMT DEF SendingInv
  <2>4. made' \in [Conn -> Nat]
    BY <2>2, SMT DEF SendingInv
  <2> QED BY <2>1, <2>3, <2>4 DEF SendingInv
<1> QED BY <1>1, <1>2, <1>3, <1>4, <1>5, <1>6, Moves

(* A message under an id that was given up is one some thread of the       *)
(* executor was sending when it was.                                       *)
LEMMA LateStep ==
    ASSUME EndInv, SendingInv, SendingInv', HistoryInv, LateInv, [Next]_vars
    PROVE  LateInv'
<1>0. TypeOK /\ PlaceInv /\ ThreadInv
  BY DEF EndInv
<1>f. \A S \in SUBSET Exec : IsFiniteSet(S) /\ Cardinality(S) \in Nat
                           /\ Cardinality(S) <= Cardinality(Exec)
  BY DeliveryConstants, FS_Subset, FS_CardinalityType
<1>p. \A c \in Conn : Pending(c) \in SUBSET Exec /\ Pending(c)' \in SUBSET Exec
  BY DEF Pending
<1>s. ASSUME UNCHANGED <<exec, late, subid>> PROVE LateInv'
  BY <1>s DEF LateInv, Pending
<1> USE DEF netVars, tableVars, rosVars, queueVars, histVars
<1>1. CASE Quiet
  BY <1>1, <1>s DEF Quiet
<1>2. ASSUME NEW e \in Exec, NEW c \in Conn, Take(e, c)
      PROVE  LateInv'
  <2>1. PICK x \in Sending : /\ x.id = None /\ exec' = [exec EXCEPT ![e] = x]
                             /\ UNCHANGED <<late, subid>>
    BY <1>2, AfterTake
  <2>2. /\ exec[e] = None /\ exec'[e] = x
        /\ \A f \in Exec \ {e} : exec'[f] = exec[f]
    BY <1>2, <2>1 DEF Take, SendingInv
  <2>3. \A d \in Conn : Pending(d)' = Pending(d)
    BY <2>1, <2>2 DEF Pending
  <2> QED BY <2>1, <2>3 DEF LateInv
<1>7. ASSUME NEW e \in Exec, Lookup(e)
      PROVE  LateInv'
  <2>1. /\ exec[e].id = None /\ UNCHANGED <<late, subid>>
        /\ \E y \in Sending \cup {None} :
             /\ exec' = [exec EXCEPT ![e] = y]
             /\ y # None => y.conn = exec[e].conn /\ y.id = subid[exec[e].conn]
    BY <1>0, <1>7, AfterLookup
  <2>2. PICK y \in Sending \cup {None} :
             /\ exec' = [exec EXCEPT ![e] = y]
             /\ y # None => y.conn = exec[e].conn /\ y.id = subid[exec[e].conn]
    BY <2>1
  <2>3. exec'[e] = y /\ \A f \in Exec \ {e} : exec'[f] = exec[f]
    BY <2>2 DEF SendingInv
  <2>4. ASSUME NEW d \in Conn PROVE Pending(d)' = Pending(d)
    <3>1. subid'[d] = subid[d] /\ e \notin Pending(d)
      BY <2>1 DEF Pending
    <3>2. e \notin Pending(d)'
      <4>1. CASE y = None
        BY <2>3, <4>1 DEF Pending
      <4>2. CASE y # None
        <5>1. y.conn = d => y.id = subid'[d]
          BY <2>2, <3>1, <4>2
        <5> QED BY <2>3, <5>1 DEF Pending
      <4> QED BY <4>1, <4>2
    <3>3. \A f \in Exec \ {e} : f \in Pending(d)' <=> f \in Pending(d)
      BY <2>3, <3>1 DEF Pending
    <3>4. Pending(d) \in SUBSET Exec /\ Pending(d)' \in SUBSET Exec
      BY DEF Pending
    <3> QED BY <3>1, <3>2, <3>3, <3>4, SMT
  <2> QED BY <2>1, <2>4 DEF LateInv
<1>3. ASSUME NEW e \in Exec, Send(e)
      PROVE  LateInv'
  <2> DEFINE x == exec[e]
  <2>1. /\ x # None /\ x.id # None
        /\ exec' = [exec EXCEPT ![e] = None] /\ subid' = subid
        /\ late' = IF con[x.conn] = "open" /\ x.id # subid[x.conn]
                     THEN [late EXCEPT ![x.conn] = @ + 1] ELSE late
    BY <1>3 DEF Send
  <2>2. exec'[e] = None /\ \A f \in Exec \ {e} : exec'[f] = exec[f]
    BY <2>1 DEF SendingInv
  <2>3. x \in Sending
    BY <2>1 DEF SendingInv
  <2>4. x.conn \in Conn
    BY <2>3, SMT DEF Sending
  <2> SUFFICES ASSUME NEW d \in Conn
               PROVE  late'[d] + Cardinality(Pending(d)') <= Cardinality(Exec)
    BY DEF LateInv
  <2>5. Pending(d)' = Pending(d) \ {e}
    BY <2>1, <2>2 DEF Pending
  <2>6. Cardinality(Pending(d)') = IF e \in Pending(d)
                                     THEN Cardinality(Pending(d)) - 1
                                     ELSE Cardinality(Pending(d))
    BY <1>f, <1>p, <2>5, FS_RemoveElement
  <2>7. \/ late'[d] = late[d]
        \/ e \in Pending(d) /\ late'[d] = late[d] + 1
    <3>1. CASE late' = late
      BY <3>1
    <3>2. CASE x.id # subid[x.conn] /\ late' = [late EXCEPT ![x.conn] = @ + 1]
      <4>1. CASE d = x.conn
        <5>1. e \in Pending(d)
          BY <2>1, <3>2, <4>1 DEF Pending
        <5> HIDE DEF x
        <5>2. late'[d] = late[d] + 1
          BY <3>2, <4>1 DEF SendingInv
        <5> QED BY <5>1, <5>2
      <4>2. CASE d # x.conn
        <5> HIDE DEF x
        <5> QED BY <3>2, <4>2 DEF SendingInv
      <4> QED BY <4>1, <4>2
    <3> QED BY <2>1, <3>1, <3>2
  <2>8. /\ late[d] \in Nat /\ Cardinality(Pending(d)) \in Nat
        /\ Cardinality(Exec) \in Nat
        /\ late[d] + Cardinality(Pending(d)) <= Cardinality(Exec)
    BY <1>f, <1>p DEF SendingInv, LateInv
  <2> QED BY <2>6, <2>7, <2>8, SMTT(30)
<1>4. ASSUME NEW p \in Pub, PublisherJoins(p) \/ Publish(p)
      PROVE  LateInv'
  BY <1>4, <1>s DEF PublisherJoins, Publish
<1>5. CASE Handler
  <2>1. /\ exec' = exec
        /\ \/ UNCHANGED <<subid, late>>
           \/ \E c \in Conn, id \in SubId \cup {None} : SetId(c, id)
    BY <1>0, <1>5, HandlerMoves
  <2>2. ASSUME NEW c \in Conn, NEW id \in SubId \cup {None}, SetId(c, id)
        PROVE  LateInv'
    <3>1. late'[c] = 0 /\ \A d \in Conn \ {c} : late'[d] = late[d]
      BY <2>2 DEF SetId, SendingInv
    <3>2. \A d \in Conn \ {c} : subid'[d] = subid[d]
      BY <1>0, <2>2 DEF SetId, TypeOK
    <3>3. \A d \in Conn \ {c} : Pending(d)' = Pending(d)
      BY <2>1, <3>2 DEF Pending
    <3>4. late'[c] + Cardinality(Pending(c)') <= Cardinality(Exec)
      <4>1. /\ Cardinality(Pending(c)') \in Nat
            /\ Cardinality(Pending(c)') <= Cardinality(Exec)
        BY <1>f, <1>p
      <4>2. 0 + Cardinality(Pending(c)') <= Cardinality(Exec)
        BY <4>1, <1>f, SMT
      <4> QED BY <3>1, <4>2
    <3> QED BY <3>1, <3>3, <3>4 DEF LateInv
  <2> QED BY <2>1, <2>2, <1>s
<1>6. CASE StopClear
  <2>1. main = "clear" /\ UNCHANGED <<exec, late>>
    BY <1>6 DEF StopClear, Main
  <2>2. \A e \in Exec : exec[e] = None
    BY <1>0, <2>1 DEF ThreadInv
  <2>3. \A c \in Conn : Pending(c)' = Pending(c)
    BY <2>1, <2>2 DEF Pending
  <2> QED BY <2>1, <2>3 DEF LateInv
<1> QED BY <1>0, <1>1, <1>2, <1>3, <1>4, <1>5, <1>6, <1>7, Moves

(* What DDS hands to a new subscription: latched messages, each once. *)
LEMMA LatchedMessages ==
    ASSUME HistoryInv, pubs \subseteq Pub, NEW q
    PROVE  /\ Latched(q) \in Seq(Message)
           /\ \A i \in 1 .. Len(Latched(q)) :
                \E p \in Pub : latched[p] # None /\ Latched(q)[i] = latched[p]
           /\ \A i, j \in 1 .. Len(Latched(q)) :
                Latched(q)[i] = Latched(q)[j] => i = j
<1> DEFINE D == {x \in pubs : latched[x] # None /\ Compatible(x, q)}
           kept == {latched[p] : p \in D}
           f == [p \in D |-> latched[p]]
           n == Cardinality(kept)
<1>1. IsFiniteSet(D)
  BY DeliveryConstants, FS_Subset
<1>2. /\ kept \subseteq Message
      /\ \A m \in kept : \E p \in Pub : latched[p] # None /\ m = latched[p]
  BY DEF HistoryInv
<1>3. f \in Surjection(D, kept)
  BY DEF Surjection
<1> HIDE DEF f, D
<1>4. IsFiniteSet(kept)
  BY <1>1, <1>3, FS_Surjection
<1> HIDE DEF kept
<1>5. n \in Nat /\ Bijection(1 .. n, kept) # {}
  BY <1>4, FS_CardinalityType DEF ExistsBijection
<1>6. Latched(q) = CHOOSE s \in Bijection(1 .. n, kept) : TRUE
  BY DEF Latched, kept, D
<1> DEFINE s == Latched(q)
<1>7. /\ s \in [1 .. n -> kept]
      /\ \A i, j \in 1 .. n : s[i] = s[j] => i = j
  BY <1>5, <1>6 DEF Bijection, Injection, IsInjective
<1> HIDE DEF n, s
<1>8. s \in Seq(Message) /\ Len(s) = n
  BY <1>2, <1>5, <1>7, SMTT(30)
<1> QED BY <1>2, <1>7, <1>8 DEF s

(* The history of a subscription: messages, and none without one. *)
LEMMA HistoryStep ==
    ASSUME TypeOK, PlaceInv, HistoryInv, [Next]_vars
    PROVE  HistoryInv'
<1> DEFINE Shape(i, r) == /\ i \in [Conn -> Seq(Message)]
                          /\ DOMAIN r = Conn
                          /\ \A c \in Conn : i[c] # <<>> => r[c] # None
           UsedType == [messages : Nat, notices : Nat, requests : Nat]
<1>0. Shape(inbox, rossub)
  BY DEF HistoryInv
<1>s. ASSUME Shape(inbox', rossub'), UNCHANGED <<used, latched>>
      PROVE  HistoryInv'
  BY <1>s DEF HistoryInv
<1> USE DEF netVars, tableVars, rosVars, queueVars, histVars
<1>1. CASE Quiet
  <2>1. /\ UNCHANGED <<latched, inbox, rossub>>
        /\ used' = used \/ \E w \in {"notices", "requests"} :
                              used' = [used EXCEPT ![w] = @ + 1]
    BY <1>1 DEF Quiet
  <2>2. used \in UsedType
    BY DEF HistoryInv
  <2>3. used' \in UsedType
    BY <2>1, <2>2, SMTT(30)
  <2> QED BY <2>1, <2>3 DEF HistoryInv
<1>2. ASSUME NEW e \in Exec, NEW c \in Conn, Take(e, c)
      PROVE  HistoryInv'
  <2>1. /\ inbox[c] # <<>> /\ inbox' = [inbox EXCEPT ![c] = Tail(@)]
        /\ UNCHANGED <<used, latched, rossub>>
    BY <1>2 DEF Take
  <2>2. Tail(inbox[c]) \in Seq(Message)
    BY <1>0, <2>1, SMTT(30)
  <2>3. inbox' \in [Conn -> Seq(Message)]
    BY <1>0, <2>1, <2>2
  <2>4. \A d \in Conn : inbox'[d] # <<>> => rossub[d] # None
    BY <1>0, <2>1
  <2> QED BY <1>0, <1>s, <2>1, <2>3, <2>4
<1>3. ASSUME NEW e \in Exec, Lookup(e) \/ Send(e)
      PROVE  HistoryInv'
  BY <1>0, <1>3, <1>s DEF Lookup, Send
<1>4. ASSUME NEW p \in Pub, PublisherJoins(p)
      PROVE  HistoryInv'
  BY <1>0, <1>4, <1>s DEF PublisherJoins
<1>5. ASSUME NEW p \in Pub, Publish(p)
      PROVE  HistoryInv'
  <2> DEFINE m == [pub |-> p, n |-> used.messages]
             Kept(c) == KeepLast(Append(inbox[c], m), rossub[c].depth)
  <2>1. /\ used' = [used EXCEPT !["messages"] = @ + 1] /\ rossub' = rossub
        /\ latched' \in {latched, [latched EXCEPT ![p] = m]}
        /\ inbox' = [c \in Conn |->
              IF rossub[c] # None /\ Compatible(p, rossub[c])
                THEN Kept(c) ELSE inbox[c]]
    BY <1>5 DEF Publish, Spend
  <2>2. m \in Message
    BY SMTT(30) DEF HistoryInv, Message
  <2>3. used' \in UsedType
    BY <2>1, SMTT(30) DEF HistoryInv
  <2> HIDE DEF m
  <2>4. latched' \in [Pub -> Message \cup {None}]
    BY <2>1, <2>2 DEF HistoryInv
  <2>5. \A c \in Conn : Kept(c) \in Seq(Message)
    BY <1>0, <2>2, SMTT(30) DEF KeepLast
  <2> HIDE DEF Kept
  <2>6. /\ inbox' \in [Conn -> Seq(Message)]
        /\ \A c \in Conn : inbox'[c] = inbox[c] \/ rossub[c] # None
    BY <1>0, <2>1, <2>5
  <2> QED BY <1>0, <2>1, <2>3, <2>4, <2>6 DEF HistoryInv
<1>6. CASE Handler
  <2>0. UNCHANGED <<used, latched>>
    BY <1>6, HandlerMoves
  <2>1. ASSUME NEW c \in Conn, DropSubscription(c)
        PROVE  Shape(inbox', rossub')
    BY <1>0, <2>1, SMTT(30) DEF DropSubscription
  <2>2. ASSUME NEW r \in Request, r = hrun["handler"]
        PROVE  r.conn \in Conn
    BY SMT DEF Request
  <2>3. CASE \/ HandlerStart \/ Login \/ SubscribeStore \/ UnsubscribeErase
             \/ Close
    BY <1>0, <1>s, <2>0, <2>3 DEF HandlerStart, Login, SubscribeStore,
       UnsubscribeErase, Close
  <2>4. CASE SubscribeCall
    <3> DEFINE c == hrun["handler"].conn
               q == select_qos(pubs)
    <3>1. c \in Conn
      BY <2>2, <2>4 DEF SubscribeCall, Runs, TypeOK
    <3>2. CASE UNCHANGED <<rossub, inbox>>
      BY <1>0, <1>s, <2>0, <3>2
    <3>3. CASE /\ rossub' = [rossub EXCEPT ![c] = q]
               /\ inbox' = [inbox EXCEPT
                     ![c] = IF q.transient THEN Latched(q) ELSE <<>>]
      <4>1. q # None
        BY DeliveryConstants DEF TypeOK
      <4> HIDE DEF q, c
      <4>2. Latched(q) \in Seq(Message) /\ <<>> \in Seq(Message)
        <5>1. Latched(q) \in Seq(Message)
          BY LatchedMessages DEF TypeOK
        <5>2. <<>> \in Seq(Message)
          BY SMT
        <5> QED BY <5>1, <5>2
      <4>3. inbox' \in [Conn -> Seq(Message)]
        BY <1>0, <3>1, <3>3, <4>2
      <4>4. /\ DOMAIN rossub' = Conn
            /\ \A d \in Conn : inbox'[d] # <<>> => rossub'[d] # None
        BY <1>0, <3>1, <3>3, <4>1
      <4> QED BY <1>s, <2>0, <4>3, <4>4
    <3> QED BY <2>4, <3>2, <3>3 DEF SubscribeCall
  <2>5. CASE UnsubscribeCall \/ CloseUnsubscribe
    <3> DEFINE c == hrun["handler"].conn
    <3>1. c \in Conn
      BY <2>2, <2>5 DEF UnsubscribeCall, CloseUnsubscribe, Runs, TypeOK
    <3>2. UNCHANGED <<rossub, inbox>> \/ DropSubscription(c)
      BY <2>5 DEF UnsubscribeCall, CloseUnsubscribe
    <3> HIDE DEF c
    <3>3. Shape(inbox', rossub')
      BY <1>0, <2>1, <3>1, <3>2
    <3> QED BY <1>s, <2>0, <3>3
  <2> QED BY <1>6, <2>3, <2>4, <2>5 DEF Handler, Handle
<1>7. CASE StopClear
  BY <1>0, <1>7, <1>s DEF StopClear
<1> QED BY <1>1, <1>2, <1>3, <1>4, <1>5, <1>6, <1>7, Moves

(* The handler thread does its two steps one after the other. *)
LEMMA TwoStepStep ==
    ASSUME TypeOK, PlaceInv, HistoryInv, TwoStepInv, [Next]_vars
    PROVE  TwoStepInv'
<1> DEFINE r == hrun["handler"]
           Known(c) == c \in clients /\ subid[c] # None
<1> USE DEF netVars, tableVars, rosVars, queueVars, histVars
<1>0. /\ hq \in Seq(Request) /\ \A i \in 1..Len(hq) : Asks(hq[i])
      /\ hrun \in [{"handler"} -> Request \cup {None}]
      /\ subid \in [Conn -> SubId \cup {None}]
  BY DEF TypeOK, PlaceInv, TwoStepInv
<1>1. CASE Quiet
  <2>1. /\ UNCHANGED <<tableVars, hrun, stage>>
        /\ main' \in Early => main \in Early
    BY <1>1 DEF Quiet
  <2>2. \A i \in 1..Len(hq') : Asks(hq'[i])
    <3>1. hq' = hq \/ \E x \in Request : Asks(x) /\ hq' = Append(hq, x)
      BY <1>1 DEF Quiet
    <3> QED BY <1>0, <3>1, SMTT(30)
  <2> QED BY <2>1, <2>2 DEF TwoStepInv, Midway, Runs
<1>2. CASE \/ \E e \in Exec, c \in Conn : Take(e, c) /\ UNCHANGED lifeVars
           \/ \E e \in Exec : (Lookup(e) \/ Send(e)) /\ UNCHANGED lifeVars
           \/ \E p \in Pub :
                (PublisherJoins(p) \/ Publish(p)) /\ UNCHANGED lifeVars
  <2>1. UNCHANGED <<main, tableVars, hq, hrun, stage>>
    BY <1>2 DEF Take, Lookup, Send, PublisherJoins, Publish, lifeVars
  <2> QED BY <2>1 DEF TwoStepInv, Midway, Runs
<1>3. CASE StopClear
  <2>1. main' = "destroy" /\ UNCHANGED queueVars
    BY <1>3 DEF StopClear, Main
  <2> QED BY <2>1 DEF TwoStepInv, Early
<1>4. CASE Handler
  <2>0. main' = main
    BY <1>4, HandlerMoves
  <2>1. CASE HandlerStart
    <3>1. /\ hq # <<>> /\ r = None /\ hq' = Tail(hq)
          /\ hrun' = [hrun EXCEPT !["handler"] = Head(hq)]
          /\ UNCHANGED <<tableVars, stage>>
      BY <2>1 DEF HandlerStart, Handlers!Start
    <3>2. Asks(Head(hq)) /\ \A i \in 1..Len(hq') : Asks(hq'[i])
      BY <1>0, <3>1, SMTT(30)
    <3>3. hrun'["handler"] = Head(hq)
      BY <1>0, <3>1
    <3>4. stage = "first"
      BY <3>1 DEF TwoStepInv
    <3> QED BY <2>0, <3>1, <3>2, <3>3, <3>4 DEF TwoStepInv, Midway, Runs
  <2>2. ASSUME r # None, hrun' = [hrun EXCEPT !["handler"] = None],
               stage' = "first", hq' = hq,
               ASSUME main \in Early, NEW c \in Conn, rossub'[c] # None
               PROVE  Known(c)'
        PROVE  TwoStepInv'
    <3>1. hrun'["handler"] = None
      BY <1>0, <2>2
    <3> QED BY <1>0, <2>0, <2>2, <3>1 DEF TwoStepInv, Midway, Runs
  <2>3. ASSUME NEW c \in Conn, main \in Early, rossub[c] # None, ~Midway(c)
        PROVE  Known(c)
    BY <2>3 DEF TwoStepInv
  <2>4. ASSUME r # None
        PROVE  r \in Request /\ r.conn \in Conn /\ Asks(r)
    <3>1. r \in Request /\ Asks(r)
      BY <1>0, <2>4 DEF TwoStepInv
    <3>2. r.conn \in Conn
      BY <3>1, SMT DEF Request
    <3> QED BY <3>1, <3>2
  <2>5. CASE Login
    <3>1. /\ r # None /\ stage = "first" /\ stage' = "first"
          /\ hrun' = [hrun EXCEPT !["handler"] = None] /\ hq' = hq
          /\ UNCHANGED <<subid, rossub>> /\ clients \subseteq clients'
      BY <2>5 DEF Login, Runs, Done, Handlers!End
    <3>2. ASSUME main \in Early, NEW c \in Conn, rossub'[c] # None
          PROVE  Known(c)'
      BY <2>3, <3>1, <3>2 DEF Midway
    <3> QED BY <2>2, <3>1, <3>2
  <2>6. CASE SubscribeCall
    <3>0. r # None /\ r.op = "subscribe" /\ stage = "first"
      BY <2>6 DEF SubscribeCall, Runs
    <3>1. CASE Done /\ UNCHANGED <<clients, subid, rossub>>
      <4>1. /\ stage' = "first" /\ hq' = hq
            /\ hrun' = [hrun EXCEPT !["handler"] = None]
        BY <3>1 DEF Done, Handlers!End
      <4>2. ASSUME main \in Early, NEW c \in Conn, rossub'[c] # None
            PROVE  Known(c)'
        BY <2>3, <3>0, <3>1, <4>2 DEF Midway
      <4> QED BY <2>2, <3>0, <4>1, <4>2
    <3>2. CASE ~(Done /\ UNCHANGED <<clients, subid, rossub>>)
      <4>1. /\ r.conn \in clients
            /\ rossub' = [rossub EXCEPT ![r.conn] = select_qos(pubs)]
            /\ UNCHANGED <<hq, hrun, clients, subid>> /\ stage' = "second"
        BY <2>6, <3>2 DEF SubscribeCall, Goes
      <4>2. \A d \in Conn \ {r.conn} : rossub'[d] = rossub[d]
        BY <4>1 DEF HistoryInv
      <4>3. \A d \in Conn : ~Midway(d)' => d # r.conn
        BY <4>1 DEF Midway
      <4>4. ASSUME main \in Early, NEW d \in Conn, rossub'[d] # None,
                   ~Midway(d)'
            PROVE  Known(d)'
        BY <2>3, <3>0, <4>1, <4>2, <4>3, <4>4 DEF Midway
      <4> QED BY <1>0, <2>0, <2>4, <3>0, <4>1, <4>4 DEF TwoStepInv, Runs
    <3> QED BY <3>1, <3>2
  <2>7. CASE SubscribeStore
    <3>1. /\ r # None /\ r.op = "subscribe" /\ stage = "second"
          /\ stage' = "first" /\ hq' = hq
          /\ hrun' = [hrun EXCEPT !["handler"] = None]
          /\ UNCHANGED <<clients, rossub>>
          /\ subid' = [subid EXCEPT ![r.conn] = r.id]
      BY <2>7 DEF SubscribeStore, Runs, Done, Handlers!End, SetId
    <3>2. r.id # None
      BY <2>4, <3>1 DEF Asks
    <3>3. /\ subid'[r.conn] = r.id
          /\ \A d \in Conn \ {r.conn} : subid'[d] = subid[d]
      BY <1>0, <2>4, <3>1
    <3>4. ASSUME main \in Early, NEW c \in Conn, rossub'[c] # None
          PROVE  Known(c)'
      <4>1. CASE c = r.conn
        BY <3>1, <3>2, <3>3, <3>4, <4>1 DEF TwoStepInv, Runs
      <4>2. CASE c # r.conn
        BY ZenonT(40), <2>3, <3>1, <3>3, <3>4, <4>2 DEF Midway
      <4> QED BY <4>1, <4>2
    <3> QED BY <2>2, <3>1, <3>4
  <2>8. CASE UnsubscribeCall
    <3>0. r # None /\ r.op = "unsubscribe" /\ stage = "first"
      BY <2>8 DEF UnsubscribeCall, Runs
    <3>1. CASE Done /\ UNCHANGED <<clients, subid, rossub>>
      <4>1. /\ stage' = "first" /\ hq' = hq
            /\ hrun' = [hrun EXCEPT !["handler"] = None]
        BY <3>1 DEF Done, Handlers!End
      <4>2. ASSUME main \in Early, NEW c \in Conn, rossub'[c] # None
            PROVE  Known(c)'
        BY <2>3, <3>0, <3>1, <4>2 DEF Midway
      <4> QED BY <2>2, <3>0, <4>1, <4>2
    <3>2. CASE ~(Done /\ UNCHANGED <<clients, subid, rossub>>)
      <4>1. /\ rossub' = [rossub EXCEPT ![r.conn] = None]
            /\ UNCHANGED <<hq, hrun, clients, subid>> /\ stage' = "second"
        BY <2>8, <3>2 DEF UnsubscribeCall, Goes, DropSubscription
      <4>2. /\ rossub'[r.conn] = None
            /\ \A d \in Conn \ {r.conn} : rossub'[d] = rossub[d]
        BY <2>4, <3>0, <4>1 DEF HistoryInv
      <4>3. ASSUME main \in Early, NEW d \in Conn, rossub'[d] # None
            PROVE  Known(d)'
        BY <2>3, <3>0, <4>1, <4>2, <4>3 DEF Midway
      <4> QED BY <1>0, <2>0, <2>4, <3>0, <4>1, <4>2, <4>3 DEF TwoStepInv, Runs
    <3> QED BY <3>1, <3>2
  <2>9. CASE UnsubscribeErase
    <3>1. /\ r # None /\ r.op = "unsubscribe" /\ stage = "second"
          /\ stage' = "first" /\ hq' = hq
          /\ hrun' = [hrun EXCEPT !["handler"] = None]
          /\ UNCHANGED <<clients, rossub>>
          /\ subid' = [subid EXCEPT ![r.conn] = None]
      BY <2>9 DEF UnsubscribeErase, Runs, Done, Handlers!End, SetId
    <3>2. \A d \in Conn \ {r.conn} : subid'[d] = subid[d]
      BY <1>0, <3>1
    <3>3. ASSUME main \in Early, NEW c \in Conn, rossub'[c] # None
          PROVE  Known(c)'
      <4>1. c # r.conn
        BY <3>1, <3>3 DEF TwoStepInv, Runs
      <4> QED BY <2>3, <3>1, <3>2, <3>3, <4>1 DEF Midway
    <3> QED BY <2>2, <3>1, <3>3
  <2>10. CASE Close
    <3>1. /\ r # None /\ r.op = "close" /\ stage = "first"
          /\ clients' = clients \ {r.conn} /\ UNCHANGED <<rossub, hq>>
          /\ subid' = [subid EXCEPT ![r.conn] = None]
          /\ IF subid[r.conn] = None THEN Done ELSE Goes("second")
      BY <2>10 DEF Close, Runs, Done, Goes, Handlers!End, SetId
    <3>2. \A d \in Conn \ {r.conn} : subid'[d] = subid[d]
      BY <1>0, <3>1
    <3>3. ASSUME main \in Early, NEW c \in Conn, rossub'[c] # None, c # r.conn
          PROVE  Known(c)'
      BY <2>3, <3>1, <3>2, <3>3 DEF Midway
    <3>4. CASE subid[r.conn] = None
      <4>1. stage' = "first" /\ hrun' = [hrun EXCEPT !["handler"] = None]
        BY <3>1, <3>4 DEF Done, Handlers!End
      <4>2. ASSUME main \in Early, rossub[r.conn] # None PROVE FALSE
        BY <2>3, <2>4, <3>1, <3>4, <4>2 DEF Midway
      <4>3. ASSUME main \in Early, NEW c \in Conn, rossub'[c] # None
            PROVE  Known(c)'
        BY <3>1, <3>3, <4>2, <4>3
      <4> QED BY <2>2, <3>1, <4>1, <4>3
    <3>5. CASE subid[r.conn] # None
      <4>1. stage' = "second" /\ hrun' = hrun
        BY <3>1, <3>5 DEF Goes
      <4>2. ASSUME main \in Early, NEW c \in Conn, rossub'[c] # None,
                   ~Midway(c)'
            PROVE  Known(c)'
        BY <3>3, <4>1, <4>2 DEF Midway
      <4> QED BY <1>0, <2>0, <2>4, <3>1, <4>1, <4>2 DEF TwoStepInv, Runs
    <3> QED BY <3>4, <3>5
  <2>11. CASE CloseUnsubscribe
    <3>1. /\ r # None /\ stage = "second" /\ stage' = "first" /\ hq' = hq
          /\ hrun' = [hrun EXCEPT !["handler"] = None]
          /\ UNCHANGED <<clients, subid>>
          /\ rossub' = [rossub EXCEPT ![r.conn] = None]
      BY <2>11 DEF CloseUnsubscribe, Runs, Done, Handlers!End, DropSubscription
    <3>2. /\ rossub'[r.conn] = None
          /\ \A d \in Conn \ {r.conn} : rossub'[d] = rossub[d]
      BY <2>4, <3>1 DEF HistoryInv
    <3>3. ASSUME main \in Early, NEW c \in Conn, rossub'[c] # None
          PROVE  Known(c)'
      BY <2>3, <3>1, <3>2, <3>3 DEF Midway
    <3> QED BY <2>2, <3>1, <3>3
  <2> QED BY ZenonT(40), <1>4, <2>1, <2>5, <2>6, <2>7, <2>8, <2>9, <2>10, <2>11
      DEF Handler, Handle
<1> QED BY <1>1, <1>2, <1>3, <1>4, Moves

-----------------------------------------------------------------------------
(* The invariant of what is sent holds when the program starts. *)
LEMMA SendInit == Init => SendInv
<1> SUFFICES ASSUME Init PROVE SendInv
  OBVIOUS
<1> USE DEF Init, DeliveryInit, Handlers!Init
<1>1. SendingInv
  <2>1. late \in [Conn -> Nat] /\ made \in [Conn -> Nat]
    BY SMT
  <2> QED BY <2>1 DEF SendingInv
<1>2. LateInv
  <2> SUFFICES ASSUME NEW c \in Conn
               PROVE  late[c] + Cardinality(Pending(c)) <= Cardinality(Exec)
    BY DEF LateInv
  <2>1. Pending(c) = {} /\ late[c] = 0
    BY DEF Pending
  <2>2. Cardinality({}) = 0 /\ Cardinality(Exec) \in Nat
    BY DeliveryConstants, FS_EmptySet, FS_CardinalityType
  <2>3. 0 + 0 <= Cardinality(Exec)
    BY <2>2, SMT
  <2> QED BY <2>1, <2>2, <2>3
<1>3. HistoryInv
  <2>1. used \in [messages : Nat, notices : Nat, requests : Nat]
    BY SMTT(30)
  <2>2. inbox \in [Conn -> Seq(Message)]
    BY SMT
  <2> QED BY <2>1, <2>2 DEF HistoryInv
<1>4. TwoStepInv
  <2>1. hrun["handler"] = None /\ \A c \in Conn : rossub[c] = None
    OBVIOUS
  <2>2. \A i \in 1..Len(hq) : Asks(hq[i])
    BY SMT
  <2> QED BY <2>1, <2>2 DEF TwoStepInv, Runs
<1> QED BY <1>1, <1>2, <1>3, <1>4 DEF SendInv

(* Every step keeps the invariant of what is sent. *)
LEMMA SendStep == EndInv /\ SendInv /\ [Next]_vars => SendInv'
<1> SUFFICES ASSUME EndInv, SendInv, [Next]_vars PROVE SendInv'
  OBVIOUS
<1>1. /\ TypeOK /\ PlaceInv
      /\ SendingInv /\ LateInv /\ HistoryInv /\ TwoStepInv
  BY DEF EndInv, SendInv
<1>2. SendingInv'
  BY <1>1, SendingStep
<1>3. LateInv' /\ HistoryInv' /\ TwoStepInv'
  BY <1>1, <1>2, LateStep, HistoryStep, TwoStepStep
<1> QED BY <1>2, <1>3 DEF SendInv

(* The executor, the histories and the two tables of subscriptions. *)
THEOREM SendInvariance == Spec => []SendInv
  BY EndInvariance, SendInit, SendStep, PTL DEF Spec

(* For any number of executor threads: since a client gave up an id it     *)
(* gets at most as many messages under it as there are threads.            *)
THEOREM FewLateMessages == Spec => []LateMessagesBounded
<1>1. SendInv => LateMessagesBounded
  <2> SUFFICES ASSUME SendInv, NEW c \in Conn
               PROVE  late[c] <= Cardinality(Exec)
    BY DEF LateMessagesBounded
  <2>1. Pending(c) \in SUBSET Exec
    BY DEF Pending
  <2>2. IsFiniteSet(Pending(c))
    BY <2>1, DeliveryConstants, FS_Subset
  <2>3. Cardinality(Pending(c)) \in Nat /\ Cardinality(Exec) \in Nat
    BY <2>2, DeliveryConstants, FS_CardinalityType
  <2>4. late[c] \in Nat
        /\ late[c] + Cardinality(Pending(c)) <= Cardinality(Exec)
    BY DEF SendInv, SendingInv, LateInv
  <2> QED BY <2>3, <2>4, SMT
<1> QED BY <1>1, SendInvariance, PTL

(* A message for which send_message finds no id is one of a client without *)
(* a ROS subscription, or was looked up while the handler thread was       *)
(* between the ROS subscription and the id.                                *)
THEOREM OnlyMidway == Spec => DroppedOnlyMidway
<1> DEFINE Drops(e) == exec[e] # None /\ exec[e].id = None /\ exec'[e] = None
           DropStep ==
             \A e \in Exec :
               exec[e] # None /\ exec[e].id = None /\ exec'[e] = None =>
                 LET c == exec[e].conn
                 IN  rossub[c] = None \/ (stage = "second" /\ hrun["handler"].conn = c)
<1>1. EndInv /\ SendInv /\ [Next]_vars => [DropStep]_deliveryVars
  <2> SUFFICES ASSUME EndInv, SendInv, [Next]_vars, NEW e \in Exec, Drops(e),
                      rossub[exec[e].conn] # None
               PROVE  Midway(exec[e].conn)
    BY DEF Midway
  <2>1. /\ TypeOK /\ PlaceInv /\ ThreadInv
        /\ SendingInv /\ HistoryInv /\ TwoStepInv
    BY DEF EndInv, SendInv
  <2>2. main \in Early
    BY <2>1 DEF ThreadInv, Early
  <2>3. exec'[e] # exec[e] /\ exec' # exec
    OBVIOUS
  <2> USE DEF netVars, tableVars, rosVars, queueVars, histVars
  <2>4. ~Quiet /\ ~StopClear /\ ~Handler
    BY <2>1, <2>3, HandlerMoves DEF Quiet, StopClear
  <2>5. ASSUME NEW p \in Pub, PublisherJoins(p) \/ Publish(p) PROVE FALSE
    BY <2>3, <2>5 DEF PublisherJoins, Publish
  <2>6. ASSUME NEW f \in Exec, NEW d \in Conn, Take(f, d) PROVE FALSE
    <3>1. exec[f] = None /\ \E x : exec' = [exec EXCEPT ![f] = x]
      BY <2>6 DEF Take
    <3> QED BY <2>1, <2>3, <3>1 DEF SendingInv
  <2>7. ASSUME NEW f \in Exec, Send(f) PROVE FALSE
    <3>1. exec[f].id # None /\ exec' = [exec EXCEPT ![f] = None]
      BY <2>7 DEF Send
    <3> QED BY <2>1, <2>3, <3>1 DEF SendingInv
  <2>8. ASSUME NEW f \in Exec, Lookup(f) PROVE Midway(exec[e].conn)
    <3>1. \/ /\ ~(exec[f].conn \in clients /\ subid[exec[f].conn] # None)
             /\ exec' = [exec EXCEPT ![f] = None]
          \/ \E y \in Sending : y # None /\ exec' = [exec EXCEPT ![f] = y]
      BY <2>1, <2>8, AfterLookup
    <3>2. f = e
      BY <2>1, <2>3, <3>1 DEF SendingInv
    <3>3. ~(exec[e].conn \in clients /\ subid[exec[e].conn] # None)
      BY <2>1, <3>1, <3>2 DEF SendingInv
    <3>4. exec[e].conn \in Conn
      BY <2>1, <2>8, <3>2, AfterLookup
    <3> QED BY <2>1, <2>2, <3>3, <3>4 DEF TwoStepInv
  <2> QED BY <2>1, <2>4, <2>5, <2>6, <2>7, <2>8, Moves
<1> QED BY <1>1, EndInvariance, SendInvariance, PTL
    DEF Spec, DroppedOnlyMidway
=============================================================================
