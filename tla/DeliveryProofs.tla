--------------------------- MODULE DeliveryProofs ---------------------------
(***************************************************************************)
(* What reaches a client: for every set of connections, publishers and     *)
(* executor threads, what is sent as reliable arrives once and in order,   *)
(* and the messages of a publisher arrive in the order of publication.     *)
(*                                                                         *)
(* First the invariant of the way to the client (WayInv), then that of the *)
(* order on it (OrderInv); both rest on those of LifecycleProofs.          *)
(***************************************************************************)
EXTENDS LifecycleProofs

(* A leaf is for Zenon unless it names SMT, for arithmetic and sequences.  *)
USE Zenon

-----------------------------------------------------------------------------

(* The way to the client is made of such entries. *)
WayType ==
    /\ got \in [Conn -> Seq(Item)] /\ writing \in [Conn -> Seq(Item)]
    /\ sendq \in [Conn -> Seq(Item)] /\ pushed \in [Conn -> Seq(Note)]

(* The close frame is in s. *)
HasClose(s) == \E i \in 1 .. Len(s) : s[i].msg.n = None

(* A connection in state k that has read g of its way w, when p was pushed *)
(* as reliable: as long as it is not closed the way has all of p, the      *)
(* close frame comes last, and a client that has read it has read all of   *)
(* p.                                                                      *)
Sound(k, g, w, p) ==
    /\ k # "closed" => Reliable(w) = p
    /\ k \in {"none", "open"} => ~HasClose(w)
    /\ \A i \in 1 .. Len(w) : w[i].msg.n = None => i = Len(w)
    /\ HasClose(g) => Reliable(g) = p

(* The same of the connection c, and a closed one has nothing queued. *)
Own(c) ==
    /\ Sound(con[c], got[c], Way(c), pushed[c])
    /\ con[c] = "closed" => writing[c] = <<>> /\ sendq[c] = <<>>

WayInv == \A c \in Conn : Own(c)

(* A step leaves entries of the way out, or queues what the server tells. *)
Moved(c) ==
    \/ Thin(Way(c)', Way(c))
    \/ \E x \in Told : Way(c)' = Append(Way(c), x)

-----------------------------------------------------------------------------
(* Leaving entries out puts nothing behind the close frame. *)
LEMMA ThinEnd ==
    ASSUME NEW s \in Seq(Item), NEW t \in Seq(Item), Thin(s, t)
    PROVE  /\ HasClose(s) => HasClose(t)
           /\ (\A i \in 1 .. Len(t) : t[i].msg.n = None => i = Len(t))
              => \A i \in 1 .. Len(s) : s[i].msg.n = None => i = Len(s)
<1>1. PICK f \in [1 .. Len(s) -> 1 .. Len(t)] :
        /\ \A i, j \in 1 .. Len(s) : i < j => f[i] < f[j]
        /\ \A i \in 1 .. Len(s) :
             s[i].reliable = t[f[i]].reliable /\ s[i].msg = t[f[i]].msg
  BY DEF Thin
<1>2. HasClose(s) => HasClose(t)
  BY <1>1 DEF HasClose
<1>3. ASSUME \A i \in 1 .. Len(t) : t[i].msg.n = None => i = Len(t),
             NEW i \in 1 .. Len(s), s[i].msg.n = None
      PROVE  i = Len(s)
  <2>1. f[i] = Len(t)
    BY <1>1, <1>3
  <2>2. ASSUME i < Len(s) PROVE FALSE
    <3>1. Len(s) \in 1 .. Len(s) /\ Len(t) \in Nat
      BY <2>2, SMT
    <3>2. f[i] < f[Len(s)] /\ f[Len(s)] \in 1 .. Len(t)
      BY <1>1, <2>2, <3>1
    <3> QED BY <2>1, <3>1, <3>2, SMTT(30)
  <2>3. i = Len(s) \/ i < Len(s)
    BY SMT
  <2> QED BY <2>2, <2>3
<1> QED BY <1>2, <1>3

(* Leaving out what is not reliable, or closing the connection. *)
LEMMA SoundThin ==
    ASSUME NEW k, NEW g, NEW w \in Seq(Item), NEW p, Sound(k, g, w, p),
           NEW l, NEW h, NEW v \in Seq(Item), Thin(v, w),
           l \in {"none", "open"} => k \in {"none", "open"},
           l # "closed" => k # "closed" /\ Reliable(v) = Reliable(w),
           HasClose(h) => Reliable(h) = p
    PROVE  Sound(l, h, v, p)
<1>1. /\ HasClose(v) => HasClose(w)
      /\ \A i \in 1 .. Len(v) : v[i].msg.n = None => i = Len(v)
  BY ThinEnd DEF Sound
<1> QED BY <1>1 DEF Sound

(* One more entry for an open connection. *)
LEMMA SoundAppend ==
    ASSUME NEW g, NEW w \in Seq(Item), NEW p, Sound("open", g, w, p),
           HasClose(g) => HasClose(w),
           NEW l \in {"open", "closing"},
           NEW x \in Item, l = "open" => x.msg.n # None
    PROVE  Sound(l, g, Append(w, x), Then(p, x))
<1> DEFINE v == Append(w, x)
<1>1. /\ \A i \in 1 .. Len(w) : w[i].msg.n # None
      /\ Reliable(w) = p /\ ~HasClose(g)
  BY DEF Sound, HasClose
<1>2. Reliable(v) = Then(p, x)
  BY <1>1, ReliableStep
<1>3. /\ Len(v) = Len(w) + 1 /\ v[Len(v)] = x /\ Len(w) \in Nat
      /\ \A i \in 1 .. Len(v) : i # Len(v) => i \in 1 .. Len(w) /\ v[i] = w[i]
  BY SMT
<1> HIDE DEF v
<1>4. \A i \in 1 .. Len(v) : v[i].msg.n = None => i = Len(v) /\ l # "open"
  BY <1>1, <1>3
<1>5. l = "open" => ~HasClose(v)
  BY <1>4 DEF HasClose
<1>6. Sound(l, g, v, Then(p, x))
  BY <1>1, <1>2, <1>4, <1>5 DEF Sound
<1> QED BY <1>6 DEF v

(* The types, for one connection. *)
LEMMA WayTyped ==
    ASSUME WayType, NEW c \in Conn
    PROVE  /\ got[c] \in Seq(Item) /\ writing[c] \in Seq(Item)
           /\ sendq[c] \in Seq(Item) /\ pushed[c] \in Seq(Note)
           /\ Way(c) \in Seq(Item)
<1>1. /\ got[c] \in Seq(Item) /\ writing[c] \in Seq(Item)
      /\ sendq[c] \in Seq(Item) /\ pushed[c] \in Seq(Note)
  BY DEF WayType
<1>2. Way(c) \in Seq(Item)
  BY <1>1, SMT DEF Way
<1> QED BY <1>1, <1>2

(* A close frame that was read is on the way. *)
LEMMA CloseOnWay ==
    ASSUME WayType, NEW c \in Conn
    PROVE  HasClose(got[c]) => HasClose(Way(c))
<1> DEFINE g == got[c]
           u == writing[c]
           q == sendq[c]
<1>1. /\ g \in Seq(Item) /\ u \in Seq(Item) /\ q \in Seq(Item)
      /\ Way(c) = g \o u \o q
  BY WayTyped DEF Way
<1> HIDE DEF g, u, q
<1>2. \A i \in 1 .. Len(g) :
        i \in 1 .. Len(g \o u \o q) /\ (g \o u \o q)[i] = g[i]
  BY <1>1, SMTT(30)
<1>3. HasClose(g) => HasClose(g \o u \o q)
  BY <1>2 DEF HasClose
<1> QED BY <1>1, <1>3 DEF g

(* Once the close frame is read all the rest is. *)
LEMMA CloseRead ==
    ASSUME NEW g \in Seq(Item), NEW u \in Seq(Item), NEW q \in Seq(Item),
           NEW k, k # "closed", NEW p, Sound(k, g, g \o u \o q, p)
    PROVE  HasClose(g \o u) => Reliable(g \o u) = p
<1> DEFINE v == g \o u
<1> SUFFICES ASSUME HasClose(v) PROVE Reliable(v) = p
  OBVIOUS
<1>1. PICK i \in 1 .. Len(v) : v[i].msg.n = None
  BY DEF HasClose
<1>2. v \in Seq(Item)
  BY SMT
<1> HIDE DEF v
<1>3. i \in 1 .. Len(v \o q) /\ (v \o q)[i] = v[i]
  BY <1>2, SMT
<1>4. i = Len(v \o q) /\ Reliable(v \o q) = p
  BY <1>1, <1>3 DEF Sound, v
<1>5. v \o q = v
  <2>1. q = <<>>
    BY <1>2, <1>4, SMT
  <2> QED BY <1>2, <2>1, SMT
<1> QED BY <1>4, <1>5

(* A step that takes the way of c on. *)
LEMMA OwnStep ==
    ASSUME WayType, WayType', WayInv, NEW c \in Conn,
           con'[c] # "closed" => con[c] # "closed",
           con'[c] \in {"none", "open"} => con[c] \in {"none", "open"},
           pushed'[c] = pushed[c],
           Thin(Way(c)', Way(c)),
           con'[c] # "closed" => Reliable(Way(c)') = Reliable(Way(c)),
           con'[c] = "closed" => writing'[c] = <<>> /\ sendq'[c] = <<>>,
           HasClose(got'[c]) => Reliable(got'[c]) = pushed[c]
    PROVE  Own(c)' /\ Moved(c)
<1>1. Way(c) \in Seq(Item) /\ Way(c)' \in Seq(Item)
  <2>1. Way(c) \in Seq(Item)
    BY WayTyped
  <2> DEFINE g == got'[c]
             u == writing'[c]
             q == sendq'[c]
  <2>2. g \in Seq(Item) /\ u \in Seq(Item) /\ q \in Seq(Item)
    BY DEF WayType
  <2>3. Way(c)' = g \o u \o q
    BY DEF Way
  <2> HIDE DEF g, u, q
  <2>4. g \o u \o q \in Seq(Item)
    BY <2>2, SMTT(30)
  <2> QED BY <2>1, <2>3, <2>4
<1>2. Sound(con[c], got[c], Way(c), pushed[c])
  BY DEF WayInv, Own
<1>3. Sound(con'[c], got'[c], Way(c)', pushed[c])
  <2> DEFINE k == con[c]
             l == con'[c]
             g == got[c]
             h == got'[c]
             w == Way(c)
             v == Way(c)'
             p == pushed[c]
  <2>1. /\ Sound(k, g, w, p) /\ w \in Seq(Item) /\ v \in Seq(Item)
        /\ Thin(v, w)
        /\ l \in {"none", "open"} => k \in {"none", "open"}
        /\ l # "closed" => k # "closed" /\ Reliable(v) = Reliable(w)
        /\ HasClose(h) => Reliable(h) = p
    BY <1>1, <1>2
  <2> HIDE DEF k, l, g, h, w, v, p
  <2>2. Sound(l, h, v, p)
    BY <2>1, SoundThin
  <2> QED BY <2>2 DEF l, h, v, p
<1> QED BY <1>3 DEF Own, Moved

(* The connections other than c stay as they are. *)
Elsewhere(c) ==
    \A d \in Conn \ {c} :
        /\ con'[d] = con[d] /\ got'[d] = got[d] /\ writing'[d] = writing[d]
        /\ sendq'[d] = sendq[d] /\ pushed'[d] = pushed[d]

(* A connection that stays as it is. *)
LEMMA OwnSame ==
    ASSUME WayType, WayInv, NEW c \in Conn,
           con'[c] # "closed" => con[c] # "closed",
           con'[c] = "closed" => con[c] = "closed",
           con'[c] \in {"none", "open"} => con[c] \in {"none", "open"},
           got'[c] = got[c], writing'[c] = writing[c], sendq'[c] = sendq[c],
           pushed'[c] = pushed[c]
    PROVE  Own(c)' /\ Moved(c)
<1>1. Way(c)' = Way(c) /\ Own(c)
  BY DEF Way, WayInv
<1>2. Way(c) \in Seq(Item) /\ Alike(Way(c), Way(c))
  BY WayTyped DEF Alike
<1>3. Thin(Way(c), Way(c))
  BY <1>2, ThinAlike
<1> QED BY <1>1, <1>3 DEF Own, Sound, Moved

(* So it is enough to look at the connection that moves. *)
LEMMA OneWay ==
    ASSUME WayType, WayInv, NEW c \in Conn, Elsewhere(c), Own(c)', Moved(c)
    PROVE  WayInv' /\ \A d \in Conn : Moved(d)
<1>1. ASSUME NEW d \in Conn \ {c} PROVE Own(d)' /\ Moved(d)
  BY OwnSame DEF Elsewhere
<1> QED BY <1>1 DEF WayInv

(* A message is queued for an open connection. *)
LEMMA OwnAppend ==
    ASSUME WayType, WayInv, NEW c \in Conn, con[c] = "open",
           NEW x \in Item, con'[c] \in {"open", "closing"},
           con'[c] = "open" => x.msg.n # None,
           got'[c] = got[c], writing'[c] = writing[c],
           sendq'[c] = Append(sendq[c], x), pushed'[c] = Then(pushed[c], x)
    PROVE  Own(c)' /\ Way(c)' = Append(Way(c), x)
<1> DEFINE g == got[c]
           u == writing[c]
           q == sendq[c]
<1>1. /\ g \in Seq(Item) /\ u \in Seq(Item) /\ q \in Seq(Item)
      /\ Way(c) \in Seq(Item) /\ Way(c) = g \o u \o q
      /\ Way(c)' = g \o u \o Append(q, x)
  BY WayTyped DEF Way
<1> HIDE DEF g, u, q
<1>2. g \o u \o Append(q, x) = Append(g \o u \o q, x)
  <2> DEFINE v == g \o u
  <2>1. v \in Seq(Item)
    BY <1>1, SMTT(30)
  <2> HIDE DEF v
  <2>2. v \o Append(q, x) = Append(v \o q, x)
    BY <1>1, <2>1, SMTT(30)
  <2> QED BY <2>2 DEF v
<1>3. Way(c)' = Append(Way(c), x)
  BY <1>1, <1>2
<1>4. Sound("open", got[c], Way(c), pushed[c])
  BY DEF WayInv, Own
<1>5. Sound(con'[c], got[c], Append(Way(c), x), Then(pushed[c], x))
  BY ZenonT(40), <1>1, <1>4, CloseOnWay, SoundAppend
<1> QED BY <1>3, <1>5 DEF Own

(* The parts of a way may be joined in any order. *)
LEMMA Regroup ==
    ASSUME NEW g \in Seq(Item), NEW u \in Seq(Item), NEW q \in Seq(Item)
    PROVE  g \o u \o q = g \o (u \o q)
  BY SMTT(30)

(* Sequences of entries are joined. *)
LEMMA Joined ==
    ASSUME NEW g \in Seq(Item), NEW u \in Seq(Item)
    PROVE  /\ g \o u \in Seq(Item) /\ <<>> \in Seq(Item)
           /\ g \o <<>> = g
  BY SMT

(* A step keeps the invariant and moves every way on. *)
WaysMove == WayType' /\ WayInv' /\ \A d \in Conn : Moved(d)

(* A connection that goes down loses what is queued. *)
LEMMA DownStep ==
    ASSUME TypeOK, WayType, WayInv, NEW c \in Conn, Down(c)
    PROVE  WaysMove
<1> USE DEF netVars, tableVars, rosVars, queueVars, histVars
<1>1. /\ con' = [con EXCEPT ![c] = "closed"] /\ UNCHANGED <<got, pushed>>
      /\ sendq' = [sendq EXCEPT ![c] = <<>>]
      /\ writing' = [writing EXCEPT ![c] = <<>>]
  BY DEF Down
<1>2. con'[c] = "closed" /\ \A d \in Conn \ {c} : con'[d] = con[d]
  BY <1>1 DEF TypeOK
<1>3. /\ got[c] \in Seq(Item) /\ writing[c] \in Seq(Item)
      /\ sendq[c] \in Seq(Item) /\ pushed[c] \in Seq(Note)
      /\ <<>> \in Seq(Item)
  BY WayTyped, Joined
<1>4. /\ WayType' /\ got'[c] = got[c] /\ writing'[c] = <<>>
      /\ sendq'[c] = <<>> /\ pushed'[c] = pushed[c] /\ Elsewhere(c)
  <2>1. WayType'
    BY <1>1, <1>3 DEF WayType
  <2>2. /\ got'[c] = got[c] /\ writing'[c] = <<>>
        /\ sendq'[c] = <<>> /\ pushed'[c] = pushed[c]
    BY <1>1 DEF WayType
  <2>3. Elsewhere(c)
    BY <1>1, <1>2 DEF Elsewhere, WayType
  <2> QED BY <2>1, <2>2, <2>3
<1>5. Way(c)' = got[c]
  BY <1>3, <1>4, Joined DEF Way
<1>6. Thin(Way(c)', Way(c))
  <2>1. Way(c) = got[c] \o (writing[c] \o sendq[c])
    BY ZenonT(40), <1>3, Regroup DEF Way
  <2>2. writing[c] \o sendq[c] \in Seq(Item)
    BY <1>3, Joined
  <2> QED BY <1>3, <1>5, <2>1, <2>2, ThinPrefix
<1>7. HasClose(got[c]) => Reliable(got[c]) = pushed[c]
  BY DEF WayInv, Own, Sound
<1>8. Own(c)' /\ Moved(c)
  BY <1>2, <1>4, <1>6, <1>7, OwnStep
<1> QED BY <1>4, <1>8, OneWay DEF WaysMove

(* handle_write_frame: the client has read a frame. *)
LEMMA WrittenStep ==
    ASSUME TypeOK, WayType, WayInv, NEW c \in Conn, Written(c)
    PROVE  WaysMove
<1> USE DEF netVars, tableVars, rosVars, queueVars, histVars
<1> DEFINE g == got[c]
           u == writing[c]
           q == sendq[c]
<1>1. /\ u # <<>> /\ UNCHANGED <<con, sendq, pushed>>
      /\ got' = [got EXCEPT ![c] = g \o u]
      /\ writing' = [writing EXCEPT ![c] = <<>>]
  BY DEF Written
<1>2. /\ g \in Seq(Item) /\ u \in Seq(Item) /\ q \in Seq(Item)
      /\ pushed[c] \in Seq(Note)
      /\ g \o u \in Seq(Item) /\ <<>> \in Seq(Item)
  BY WayTyped, Joined
<1>3. /\ WayType' /\ got'[c] = g \o u /\ writing'[c] = <<>>
      /\ sendq'[c] = q /\ pushed'[c] = pushed[c] /\ Elsewhere(c)
  <2>1. WayType'
    BY <1>1, <1>2 DEF WayType
  <2>2. /\ got'[c] = g \o u /\ writing'[c] = <<>>
        /\ sendq'[c] = q /\ pushed'[c] = pushed[c]
    BY <1>1 DEF WayType
  <2>3. Elsewhere(c)
    BY <1>1 DEF Elsewhere, WayType
  <2> QED BY <2>1, <2>2, <2>3
<1>4. Way(c)' = Way(c) /\ Way(c) = g \o u \o q
  BY <1>2, <1>3, Joined DEF Way
<1>5. Own(c) /\ con[c] # "closed" /\ con'[c] = con[c]
  BY <1>1 DEF WayInv, Own
<1> HIDE DEF g, u, q
<1>6. Sound(con[c], g, g \o u \o q, pushed[c])
  BY <1>4, <1>5 DEF Own, g
<1>7. HasClose(g \o u) => Reliable(g \o u) = pushed[c]
  BY <1>2, <1>5, <1>6, CloseRead
<1>8. Thin(Way(c)', Way(c))
  <2>1. Way(c) \in Seq(Item) /\ Alike(Way(c), Way(c))
    BY WayTyped DEF Alike
  <2> QED BY <1>4, <2>1, ThinAlike
<1>9. Own(c)' /\ Moved(c)
  BY <1>3, <1>4, <1>5, <1>7, <1>8, OwnStep
<1> QED BY <1>3, <1>9, OneWay DEF WaysMove

(* An entry gets old. *)
LEMMA ItemAges ==
    ASSUME NEW x \in Item
    PROVE  /\ [x EXCEPT !.old = TRUE] \in Item
           /\ [x EXCEPT !.old = TRUE].msg = x.msg
           /\ [x EXCEPT !.old = TRUE].reliable = x.reliable
<1>1. CASE x \in Data
  BY <1>1 DEF Data, Item
<1>2. CASE x \in Told
  BY <1>2 DEF Told, Item
<1> QED BY <1>1, <1>2 DEF Item

(* The first entries of a queue get old. *)
LEMMA AgedAlike ==
    ASSUME NEW q \in Seq(Item), NEW k
    PROVE  Aged(q, k) \in Seq(Item) /\ Alike(Aged(q, k), q)
<1> DEFINE A(i) == IF i <= k THEN [q[i] EXCEPT !.old = TRUE] ELSE q[i]
<1>1. Len(q) \in Nat /\ \A i \in 1 .. Len(q) : q[i] \in Item
  BY SMT
<1>2. \A i \in 1 .. Len(q) :
        A(i) \in Item /\ A(i).msg = q[i].msg /\ A(i).reliable = q[i].reliable
  BY <1>1, ItemAges
<1>3. Aged(q, k) = [i \in 1 .. Len(q) |-> A(i)]
  BY DEF Aged
<1> HIDE DEF A
<1>4. Aged(q, k) \in Seq(Item) /\ Len(Aged(q, k)) = Len(q)
  BY <1>1, <1>2, <1>3, SMTT(30)
<1> QED BY <1>2, <1>3, <1>4 DEF Alike

(* Time passes. *)
LEMMA AgesStep ==
    ASSUME TypeOK, WayType, WayInv, NEW c \in Conn, Ages(c)
    PROVE  WaysMove
<1> USE DEF netVars, tableVars, rosVars, queueVars, histVars
<1> DEFINE v == got[c] \o writing[c]
           q == sendq[c]
<1>1. PICK k : sendq' = [sendq EXCEPT ![c] = Aged(q, k)]
  BY DEF Ages
<1>2. UNCHANGED <<con, got, writing, pushed>>
  BY DEF Ages
<1> DEFINE r == Aged(q, k)
<1>3. /\ got[c] \in Seq(Item) /\ writing[c] \in Seq(Item) /\ q \in Seq(Item)
      /\ pushed[c] \in Seq(Note) /\ v \in Seq(Item)
  BY WayTyped, Joined
<1>4. r \in Seq(Item) /\ Alike(r, q)
  BY <1>3, AgedAlike
<1>5. sendq' = [sendq EXCEPT ![c] = r]
  BY <1>1
<1> HIDE DEF r
<1>6. /\ WayType' /\ got'[c] = got[c] /\ writing'[c] = writing[c]
      /\ sendq'[c] = r /\ pushed'[c] = pushed[c] /\ Elsewhere(c)
  <2>1. WayType'
    BY <1>2, <1>4, <1>5 DEF WayType
  <2>2. sendq'[c] = r
    BY <1>5 DEF WayType
  <2>3. Elsewhere(c)
    BY <1>2, <1>5 DEF Elsewhere, WayType
  <2> QED BY <1>2, <2>1, <2>2, <2>3
<1>7. Way(c)' = v \o r /\ Way(c) = v \o q
  BY <1>6 DEF Way
<1>8. Own(c) /\ con'[c] = con[c]
  BY <1>2 DEF WayInv
<1> HIDE DEF v
<1>9. Thin(v \o r, v \o q)
  BY <1>3, <1>4, ThinAlike, ThinAfter
<1>10. Reliable(v \o r) = Reliable(v \o q)
  <2>1. Reliable(r) = Reliable(q)
    BY <1>3, <1>4, ReliableAlike
  <2>2. Reliable(v \o r) = Reliable(v) \o Reliable(r)
    BY <1>3, <1>4, ReliableConcat
  <2>3. Reliable(v \o q) = Reliable(v) \o Reliable(q)
    BY <1>3, ReliableConcat
  <2> QED BY <2>1, <2>2, <2>3
<1>11. /\ HasClose(got[c]) => Reliable(got[c]) = pushed[c]
       /\ con[c] = "closed" => writing[c] = <<>> /\ q = <<>>
  BY <1>8 DEF Own, Sound
<1>12. con[c] = "closed" => r = <<>>
  <2>1. q = <<>> => r = <<>>
    BY <1>3, <1>4, SMT DEF Alike
  <2> QED BY <1>11, <2>1
<1>13. Own(c)' /\ Moved(c)
  BY <1>6, <1>7, <1>8, <1>9, <1>10, <1>11, <1>12, OwnStep
<1> QED BY <1>6, <1>13, OneWay DEF WaysMove

(* write_frame: some messages go into a frame, some are dropped. *)
LEMMA WriteFrameStep ==
    ASSUME TypeOK, WayType, WayInv, NEW c \in Conn, WriteFrame(c)
    PROVE  WaysMove
<1> USE DEF netVars, tableVars, rosVars, queueVars, histVars
<1> DEFINE g == got[c]
           q == sendq[c]
<1>1. PICK n \in 1 .. Len(q) :
        /\ writing' = [writing EXCEPT ![c] = Frame(q, n).batch]
        /\ sendq' = [sendq EXCEPT ![c] = Frame(q, n).rest]
  BY DEF WriteFrame
<1>2. /\ con[c] # "closed" /\ writing[c] = <<>>
      /\ UNCHANGED <<con, got, pushed>>
  BY DEF WriteFrame
<1>3. g \in Seq(Item) /\ q \in Seq(Item)
  BY WayTyped
<1>4. Whole(Frame(q, n), q)
  <2>1. n \in Nat
    BY SMT
  <2> QED BY <1>3, <2>1, FrameWhole
<1> DEFINE b == Frame(q, n).batch
           r == Frame(q, n).rest
<1>5. /\ b \in Seq(Item) /\ r \in Seq(Item) /\ b \o r \in Seq(Item)
      /\ Reliable(b \o r) = Reliable(q) /\ Thin(b \o r, q)
  <2>1. b \in Seq(Item) /\ r \in Seq(Item)
    BY <1>4 DEF Whole, Frames
  <2> QED BY <1>4, <2>1, Joined DEF Whole
<1>6. /\ writing' = [writing EXCEPT ![c] = b]
      /\ sendq' = [sendq EXCEPT ![c] = r]
  BY <1>1
<1> HIDE DEF b, r
<1>7. /\ WayType' /\ got'[c] = g /\ writing'[c] = b
      /\ sendq'[c] = r /\ pushed'[c] = pushed[c] /\ Elsewhere(c)
  <2>1. WayType'
    BY <1>2, <1>5, <1>6 DEF WayType
  <2>2. writing'[c] = b /\ sendq'[c] = r
    BY <1>6 DEF WayType
  <2>3. Elsewhere(c)
    BY <1>2, <1>6 DEF Elsewhere, WayType
  <2> QED BY <1>2, <2>1, <2>2, <2>3
<1>8. Way(c)' = g \o b \o r /\ Way(c) = g \o <<>> \o q
  BY <1>2, <1>7 DEF Way
<1>9. Own(c) /\ con'[c] = con[c]
  BY <1>2 DEF WayInv
<1>10. HasClose(g) => Reliable(g) = pushed[c]
  BY <1>9 DEF Own, Sound
<1> HIDE DEF g, q
<1>11. Way(c)' = g \o (b \o r) /\ Way(c) = g \o q
  <2>1. g \o b \o r = g \o (b \o r)
    BY ZenonT(40), <1>3, <1>5, Regroup
  <2>2. g \o <<>> = g
    BY <1>3, Joined
  <2> QED BY <1>8, <2>1, <2>2
<1>12. Thin(g \o (b \o r), g \o q)
  BY <1>3, <1>5, ThinAfter
<1>13. Reliable(g \o (b \o r)) = Reliable(g \o q)
  <2>1. Reliable(g \o (b \o r)) = Reliable(g) \o Reliable(b \o r)
    BY <1>3, <1>5, ReliableConcat
  <2>2. Reliable(g \o q) = Reliable(g) \o Reliable(q)
    BY <1>3, ReliableConcat
  <2> QED BY <1>5, <2>1, <2>2
<1>14. Own(c)' /\ Moved(c)
  BY <1>2, <1>7, <1>9, <1>10, <1>11, <1>12, <1>13, OwnStep
<1> QED BY <1>7, <1>14, OneWay DEF WaysMove

(* The server tells a client something. *)
LEMMA NoticeStep ==
    ASSUME TypeOK, HistoryInv, WayType, WayInv, NEW c \in Conn, Notice(c)
    PROVE  WaysMove
<1> USE DEF netVars, tableVars, rosVars, queueVars, histVars
<1> DEFINE m == [n |-> used.notices]
           x == Entry(m, TRUE)
<1>1. /\ con[c] = "open" /\ UNCHANGED <<con, got, writing>>
      /\ sendq' = [sendq EXCEPT ![c] = Append(sendq[c], x)]
      /\ pushed' = [pushed EXCEPT ![c] = Append(pushed[c], m)]
  BY DEF Notice, Push
<1>2. m \in Note /\ m.n # None
  <2>1. used.notices \in Nat
    BY DEF HistoryInv
  <2> QED BY <2>1, DeliveryConstants DEF Note
<1>3. x \in Told /\ x.msg = m /\ x.reliable = TRUE
  BY <1>2 DEF Told, Entry
<1> HIDE DEF x, m
<1>4. Append(sendq[c], x) \in Seq(Item) /\ Append(pushed[c], m) \in Seq(Note)
  <2>1. sendq[c] \in Seq(Item) /\ pushed[c] \in Seq(Note) /\ x \in Item
    BY <1>3, WayTyped DEF Item
  <2> QED BY <1>2, <2>1, SMTT(30)
<1>5. WayType'
  BY <1>1, <1>4 DEF WayType
<1>6. /\ got'[c] = got[c] /\ writing'[c] = writing[c] /\ con'[c] = "open"
      /\ sendq'[c] = Append(sendq[c], x) /\ pushed'[c] = Then(pushed[c], x)
  BY <1>1, <1>3 DEF WayType, Then
<1>7. Elsewhere(c)
  BY <1>1 DEF Elsewhere, WayType
<1>8. Own(c)' /\ Way(c)' = Append(Way(c), x)
  BY ZenonT(40), <1>1, <1>2, <1>3, <1>6, OwnAppend DEF Item
<1> QED BY <1>3, <1>5, <1>7, <1>8, OneWay DEF WaysMove, Moved

(* Server::stop queues a close frame for each client that is open. *)
LEMMA StopCloseStep ==
    ASSUME TypeOK, WayType, WayInv, StopClose
    PROVE  WaysMove
<1> DEFINE S == {c \in closing : con[c] = "open"}
           x == Entry(CloseFrame, TRUE)
<1>1. /\ con' = [c \in Conn |-> IF c \in S THEN "closing" ELSE con[c]]
      /\ sendq' = [c \in Conn |->
            IF c \in S THEN Append(sendq[c], x) ELSE sendq[c]]
      /\ pushed' = [c \in Conn |->
            IF c \in S THEN Append(pushed[c], CloseFrame) ELSE pushed[c]]
      /\ UNCHANGED <<writing, got>>
  BY DEF StopClose
<1>2. CloseFrame \in Note
  BY DEF Note, CloseFrame
<1>3. x \in Told /\ x.msg = CloseFrame /\ x.reliable = TRUE
  BY <1>2 DEF Told, Entry
<1>4. \A c \in S : con[c] = "open"
  OBVIOUS
<1> HIDE DEF x, S
<1>5. \A c \in Conn : /\ Append(sendq[c], x) \in Seq(Item)
                     /\ Append(pushed[c], CloseFrame) \in Seq(Note)
  <2> TAKE c \in Conn
  <2>1. sendq[c] \in Seq(Item) /\ pushed[c] \in Seq(Note) /\ x \in Item
    BY <1>3, WayTyped DEF Item
  <2> QED BY <1>2, <2>1, SMTT(30)
<1>6. WayType'
  BY <1>1, <1>5 DEF WayType
<1>7. ASSUME NEW c \in Conn PROVE Own(c)' /\ Moved(c)
  <2>1. CASE c \in S
    <3>1. /\ con[c] = "open" /\ con'[c] = "closing"
          /\ got'[c] = got[c] /\ writing'[c] = writing[c]
          /\ sendq'[c] = Append(sendq[c], x)
          /\ pushed'[c] = Then(pushed[c], x)
      BY <1>1, <1>3, <1>4, <2>1 DEF Then
    <3>2. Own(c)' /\ Way(c)' = Append(Way(c), x)
      BY <1>3, <3>1, OwnAppend DEF Item
    <3> QED BY <1>3, <3>2 DEF Moved
  <2>2. CASE c \notin S
    BY <1>1, <2>2, OwnSame
  <2> QED BY <2>1, <2>2
<1> QED BY <1>6, <1>7 DEF WaysMove, WayInv

(* What an executor thread queues. *)
Pushed(x) == [pub |-> x.msg.pub, n |-> x.msg.n, id |-> x.id, sub |-> x.sub]

(* send_message queues a message of a publisher. *)
LEMMA SendWay ==
    ASSUME TypeOK, SendingInv, WayType, WayInv, NEW e \in Exec, Send(e)
    PROVE  /\ WayType' /\ WayInv'
           /\ \A d \in Conn :
                \/ Way(d)' = Way(d)
                \/ /\ d = exec[e].conn
                   /\ Way(d)' = Append(Way(d), Entry(Pushed(exec[e]), FALSE))
<1> USE DEF netVars, tableVars, rosVars, queueVars, histVars
<1> DEFINE m == Pushed(exec[e])
           x == Entry(m, FALSE)
<1>1. exec[e] # None /\ UNCHANGED <<con, got, writing, pushed>>
  BY DEF Send
<1>2. /\ exec[e].conn \in Conn /\ exec[e].msg.pub \in Pub
      /\ exec[e].msg.n \in Nat /\ exec[e].id \in SubId \cup {None}
      /\ exec[e].sub \in Nat
  <2>1. exec[e] \in Sending
    BY <1>1 DEF SendingInv
  <2> QED BY <2>1 DEF Sending, Message
<1>3. m \in Sent /\ m.n # None
  BY <1>2, DeliveryConstants DEF Sent, Pushed
<1>4. x \in Data /\ x.msg = m /\ x.reliable = FALSE
  BY <1>3 DEF Data, Entry
<1>c. PICK c \in Conn : c = exec[e].conn
  BY <1>2
<1>s. sendq' = IF con[c] = "open"
                 THEN [sendq EXCEPT ![c] = Append(sendq[c], x)] ELSE sendq
  BY <1>c DEF Send, Push, Pushed
<1> HIDE DEF m, x
<1>5. CASE con[c] = "open"
  <2>1. Append(sendq[c], x) \in Seq(Item)
    <3>1. sendq[c] \in Seq(Item) /\ x \in Item
      BY <1>4, WayTyped DEF Item
    <3> QED BY <3>1, SMTT(30)
  <2>2. WayType'
    BY <1>1, <1>s, <1>5, <2>1 DEF WayType
  <2>3. /\ sendq'[c] = Append(sendq[c], x) /\ Elsewhere(c)
    BY <1>1, <1>s, <1>5 DEF WayType, Elsewhere
  <2>4. Own(c)' /\ Way(c)' = Append(Way(c), x)
    <3>1. /\ con'[c] = "open" /\ pushed'[c] = Then(pushed[c], x)
          /\ got'[c] = got[c] /\ writing'[c] = writing[c]
      BY <1>1, <1>4, <1>5 DEF Then
    <3>2. x \in Item /\ x.msg.n # None
      BY <1>3, <1>4 DEF Item
    <3> QED BY ZenonT(40), <1>5, <2>3, <3>1, <3>2, OwnAppend
  <2>5. ASSUME NEW d \in Conn \ {c} PROVE Own(d)' /\ Way(d)' = Way(d)
    BY <2>3, OwnSame DEF Elsewhere, Way
  <2>6. WayInv'
    BY <2>4, <2>5 DEF WayInv
  <2>7. ASSUME NEW d \in Conn
        PROVE  Way(d)' = Way(d) \/ (d = c /\ Way(d)' = Append(Way(d), x))
    BY <2>4, <2>5
  <2> QED BY <1>c, <2>2, <2>6, <2>7 DEF m, x
<1>6. CASE con[c] # "open"
  <2>1. UNCHANGED <<con, got, writing, sendq, pushed>>
    BY ZenonT(40), <1>1, <1>s, <1>6
  <2> QED BY <2>1 DEF WayType, WayInv, Own, Way
<1> QED BY <1>5, <1>6

(* Nothing is queued, sent or lost. *)
LEMMA StillStep ==
    ASSUME WayType, WayInv, UNCHANGED <<got, writing, sendq, pushed>>,
           \A c \in Conn :
             /\ con'[c] = "closed" <=> con[c] = "closed"
             /\ con'[c] \in {"none", "open"} => con[c] \in {"none", "open"}
    PROVE  WaysMove
<1>1. WayType'
  BY DEF WayType
<1>2. ASSUME NEW c \in Conn PROVE Own(c)' /\ Moved(c)
  BY OwnSame
<1> QED BY <1>1, <1>2 DEF WaysMove, WayInv

(* Every step keeps the invariant of the way and moves each way on, unless *)
(* a thread sends a message.                                               *)
LEMMA WayStep ==
    ASSUME TypeOK, SendingInv, HistoryInv, WayType, WayInv, [Next]_vars
    PROVE  /\ WayType' /\ WayInv'
           /\ (\A d \in Conn : Moved(d)) \/ \E e \in Exec : Send(e)
<1> USE DEF netVars, tableVars, rosVars, queueVars, histVars
<1>1. ASSUME UNCHANGED <<netVars, pushed>> PROVE WaysMove
  BY <1>1, StillStep
<1>2. CASE Client
  <2>1. ASSUME NEW c \in Conn, Open(c) PROVE WaysMove
    <3>1. /\ con[c] = "none" /\ con' = [con EXCEPT ![c] = "open"]
          /\ UNCHANGED <<got, writing, sendq, pushed>>
      BY <2>1 DEF Open
    <3>2. \A d \in Conn : con'[d] = IF d = c THEN "open" ELSE con[d]
      BY <3>1 DEF TypeOK
    <3>3. ASSUME NEW d \in Conn
          PROVE  /\ con'[d] = "closed" <=> con[d] = "closed"
                 /\ con'[d] \in {"none", "open"} => con[d] \in {"none", "open"}
      <4>1. CASE d = c
        <5>1. con'[d] = "open" /\ con[d] = "none"
          BY <3>1, <3>2, <4>1
        <5> QED BY <5>1
      <4>2. CASE d # c
        BY <3>2, <4>2
      <4> QED BY <4>1, <4>2
    <3> QED BY <3>1, <3>3, StillStep
  <2>2. ASSUME NEW r \in Request, Receive(r) PROVE WaysMove
    BY <1>1, <2>2 DEF Receive
  <2> QED BY <1>2, <2>1, <2>2, DownStep, WrittenStep
     DEF Client, Leave, WaysMove
<1>3. CASE Network \/ Time
  BY ZenonT(40), <1>3, WriteFrameStep, DownStep, AgesStep, NoticeStep
     DEF Network, Time, WaysMove
<1>4. CASE StopTerminate
  <2>1. /\ con' = [c \in Conn |-> IF c \in closing /\ Alive(c)
                                    THEN "terminated" ELSE con[c]]
        /\ UNCHANGED <<got, writing, sendq, pushed>>
    BY <1>4 DEF StopTerminate
  <2>2. WaysMove
    BY <2>1, StillStep DEF Alive
  <2> QED BY <2>2 DEF WaysMove
<1>5. CASE StopClose
  BY <1>5, StopCloseStep DEF WaysMove
<1>6. CASE Executor
  <2>1. ASSUME NEW e \in Exec, NEW c \in Conn, Take(e, c) PROVE WaysMove
    BY <1>1, <2>1 DEF Take
  <2>2. ASSUME NEW e \in Exec, Send(e) PROVE WayType' /\ WayInv'
    BY <2>2, SendWay
  <2>3. ASSUME NEW e \in Exec, Lookup(e) PROVE WaysMove
    BY <1>1, <2>3 DEF Lookup
  <2> QED BY <1>6, <2>1, <2>2, <2>3 DEF Executor, WaysMove
<1>7. CASE Ros \/ StopClear \/ StopSnapshot \/ Destroy
  <2>1. ASSUME Ros PROVE UNCHANGED <<netVars, pushed>>
    BY <2>1 DEF Ros, PublisherJoins, Publish
  <2>2. ASSUME StopClear \/ StopSnapshot \/ Destroy
        PROVE  UNCHANGED <<netVars, pushed>>
    BY <2>2 DEF StopClear, StopSnapshot, Destroy, deliveryVars
  <2> QED BY ZenonT(40), <1>1, <1>7, <2>1, <2>2 DEF WaysMove
<1>8. CASE Handler
  BY <1>1, <1>8, HandlerHistories DEF WaysMove
<1>9. CASE Aside \/ Terminated \/ UNCHANGED vars
  <2>1. UNCHANGED deliveryVars
    BY <1>9, AsideSteps DEF Terminated, vars
  <2> QED BY <1>1, <2>1 DEF WaysMove, deliveryVars
<1> QED BY <1>2, <1>3, <1>4, <1>5, <1>6, <1>7, <1>8, <1>9
    DEF Next, MainThread, Aside

(* The way to every client is empty when the program starts. *)
LEMMA WayInit == Init => WayType /\ WayInv
<1> SUFFICES ASSUME Init PROVE WayType /\ WayInv
  OBVIOUS
<1> USE DEF Init, DeliveryInit
<1>1. <<>> \in Seq(Item) /\ <<>> \in Seq(Note) /\ <<>> \o <<>> = <<>>
      /\ Len(<<>>) = 0 /\ 1 .. 0 = {}
  BY SMT
<1>2. WayType
  BY <1>1 DEF WayType
<1>3. ASSUME NEW c \in Conn PROVE Own(c)
  <2>1. /\ got[c] = <<>> /\ writing[c] = <<>> /\ sendq[c] = <<>>
        /\ con[c] = "none" /\ pushed[c] = <<>>
    OBVIOUS
  <2>2. Way(c) = <<>>
    BY <1>1, <2>1 DEF Way
  <2>3. ~HasClose(<<>>)
    BY <1>1 DEF HasClose
  <2> QED BY <1>1, <2>1, <2>2, <2>3, ReliableEmpty DEF Own, Sound
<1> QED BY <1>2, <1>3 DEF WayInv

(* The invariant of the way: in every reachable state the reliable entries *)
(* on the way of a connection that is not closed are those pushed for it,  *)
(* and the close frame is the last.                                        *)
THEOREM WayInvariance == Spec => [](WayType /\ WayInv)
<1>1. /\ EndInv /\ SendInv /\ WayType /\ WayInv /\ [Next]_vars
      => WayType' /\ WayInv'
  BY WayStep DEF EndInv, SendInv
<1> QED BY <1>1, EndInvariance, SendInvariance, WayInit, PTL DEF Spec

(* ReliableKept: what Server::send_json, send_binary and stop queue        *)
(* reaches the client once and in order, whatever write_pop drops, and a   *)
(* client that has read the close frame has read all of it.                *)
THEOREM ReliableArrive == Spec => []ReliableKept
<1>1. WayType /\ WayInv => ReliableKept
  <2> SUFFICES ASSUME WayType, WayInv, NEW c \in Conn
               PROVE  /\ con[c] \in {"open", "closing"} =>
                           Reliable(Way(c)) = pushed[c]
                      /\ (\E x \in Range(got[c]) : x.msg.n = None) =>
                           Reliable(got[c]) = pushed[c]
    BY DEF ReliableKept
  <2>1. Sound(con[c], got[c], Way(c), pushed[c])
    BY DEF WayInv, Own
  <2>2. DOMAIN got[c] = 1 .. Len(got[c])
    <3>1. got[c] \in Seq(Item)
      BY WayTyped
    <3> QED BY <3>1, SMTT(30)
  <2>3. (\E x \in Range(got[c]) : x.msg.n = None) => HasClose(got[c])
    BY <2>2 DEF Range, HasClose
  <2> QED BY <2>1, <2>3 DEF Sound
<1> QED BY <1>1, WayInvariance, PTL

-----------------------------------------------------------------------------
(* A history in order, with messages before the N-th only. *)
InOrder(s, N) ==
    \A j \in 1 .. Len(s) :
        /\ s[j].n < N
        /\ \A i \in 1 .. (j - 1) : s[i].pub = s[j].pub => s[i].n < s[j].n

(* The n-th message of p comes before all of p in a history. *)
Under(p, n, s) == \A j \in 1 .. Len(s) : s[j].pub = p => n < s[j].n

(* What a publisher has latched is its own and was published. *)
LatchedOrder ==
    \A p \in Pub : latched[p] # None =>
        latched[p].pub = p /\ latched[p].n < used.messages

(* The histories of the ROS subscriptions are in order. *)
HistoryOrder ==
    /\ LatchedOrder
    /\ \A c \in Conn : InOrder(inbox[c], used.messages)

(* Two threads of one connection send different messages. *)
Apart(x, y) ==
    x.conn = y.conn /\ x.sub = y.sub /\ x.msg.pub = y.msg.pub
    => x.msg.n # y.msg.n

(* The n-th message of p was taken from the k-th ROS subscription of c. *)
Taken(c, k, p, n) ==
    /\ k <= made[c] /\ n < used.messages
    /\ k = made[c] => Under(p, n, inbox[c])

(* A thread sends what it took from a subscription, and no two the same. *)
ExecOrder ==
    \A e \in Exec : exec[e] # None =>
        /\ Taken(exec[e].conn, exec[e].sub, exec[e].msg.pub, exec[e].msg.n)
        /\ \A f \in Exec \ {e} : exec[f] # None => Apart(exec[e], exec[f])

(* No thread is sending an older message of the same origin. *)
First(m, c) ==
    \A e \in Exec :
        /\ exec[e] # None /\ exec[e].conn = c
        /\ exec[e].sub = m.sub /\ exec[e].msg.pub = m.pub
        => m.n < exec[e].msg.n

(* A message on the way to c comes before what a thread will send and what *)
(* is still in the history.                                                *)
Fits(m, c) ==
    /\ Taken(c, m.sub, m.pub, m.n)
    /\ c \notin overtaken => First(m, c)

(* All the messages on a way do. *)
WayOrder ==
    \A c \in Conn : \A i \in 1 .. Len(Way(c)) :
        ~Way(c)[i].reliable => Fits(Way(c)[i].msg, c)

(* The messages of one publisher and one subscription are in order. *)
Sorted(w) ==
    \A i, j \in 1 .. Len(w) :
        /\ i < j /\ ~w[i].reliable /\ ~w[j].reliable
        /\ w[i].msg.pub = w[j].msg.pub /\ w[i].msg.sub = w[j].msg.sub
        => w[i].msg.n < w[j].msg.n

SortedWays == \A c \in Conn : c \notin overtaken => Sorted(Way(c))

(* The invariant of the order. *)
OrderInv == HistoryOrder /\ ExecOrder /\ WayOrder /\ SortedWays

(* The messages on the way to c still fit, in order, after a step. *)
InLine(c) ==
    /\ \A i \in 1 .. Len(Way(c)') : ~Way(c)'[i].reliable =>
         \E k \in Sent : k = Way(c)'[i].msg /\ Fits(k, c)'
    /\ c \notin overtaken' => Sorted(Way(c)')

(* Those on the way to c that have the origin of m are older than m. *)
Youngest(m, c) ==
    \A i \in 1 .. Len(Way(c)) :
        /\ ~Way(c)[i].reliable /\ Way(c)[i].msg.pub = m.pub
        /\ Way(c)[i].msg.sub = m.sub
        => Way(c)[i].msg.n < m.n

(* The entries of a history. *)
LEMMA MessageNumbers ==
    ASSUME NEW s \in Seq(Message)
    PROVE  \A j \in 1 .. Len(s) : s[j].pub \in Pub /\ s[j].n \in Nat
<1>1. \A j \in 1 .. Len(s) : s[j] \in Message
  BY SMT
<1> QED BY <1>1 DEF Message

(* The first message is taken from a history. *)
LEMMA OrderTail ==
    ASSUME NEW s \in Seq(Message), s # <<>>, NEW N, InOrder(s, N)
    PROVE  /\ InOrder(Tail(s), N)
           /\ Under(Head(s).pub, Head(s).n, Tail(s)) /\ Head(s).n < N
<1> DEFINE t == Tail(s)
<1>1. /\ \A j \in 1 .. Len(t) : j + 1 \in 1 .. Len(s) /\ t[j] = s[j + 1]
                               /\ 1 \in 1 .. ((j + 1) - 1)
      /\ \A j \in 1 .. Len(t) : \A i \in 1 .. (j - 1) :
           i + 1 \in 1 .. ((j + 1) - 1) /\ i \in 1 .. Len(t)
      /\ 1 \in 1 .. Len(s) /\ Head(s) = s[1]
  BY SMT
<1> HIDE DEF t
<1>2. InOrder(t, N)
  <2> SUFFICES ASSUME NEW j \in 1 .. Len(t)
               PROVE  /\ t[j].n < N
                      /\ \A i \in 1 .. (j - 1) :
                           t[i].pub = t[j].pub => t[i].n < t[j].n
    BY DEF InOrder
  <2>1. /\ s[j + 1].n < N
        /\ \A i \in 1 .. ((j + 1) - 1) :
             s[i].pub = s[j + 1].pub => s[i].n < s[j + 1].n
    BY <1>1 DEF InOrder
  <2> QED BY <1>1, <2>1
<1>3. Under(s[1].pub, s[1].n, t)
  <2> SUFFICES ASSUME NEW j \in 1 .. Len(t), t[j].pub = s[1].pub
               PROVE  s[1].n < t[j].n
    BY DEF Under
  <2>1. \A i \in 1 .. ((j + 1) - 1) :
             s[i].pub = s[j + 1].pub => s[i].n < s[j + 1].n
    BY <1>1 DEF InOrder
  <2> QED BY <1>1, <2>1
<1>4. s[1].n < N
  BY <1>1 DEF InOrder
<1> QED BY <1>1, <1>2, <1>3, <1>4 DEF t

(* A message is published. *)
LEMMA OrderNext ==
    ASSUME NEW s \in Seq(Message), NEW N \in Nat, InOrder(s, N),
           NEW m \in Message, m.n = N
    PROVE  InOrder(Append(s, m), N + 1)
<1> DEFINE t == Append(s, m)
<1>1. /\ \A j \in 1 .. Len(t) : t[j] = m \/ (j \in 1 .. Len(s) /\ t[j] = s[j])
      /\ \A j \in 1 .. Len(t) : \A i \in 1 .. (j - 1) :
           i \in 1 .. Len(s) /\ t[i] = s[i]
  BY SMT
<1> HIDE DEF t
<1>2. \A j \in 1 .. Len(s) : s[j].n \in Nat
  BY MessageNumbers
<1>3. N < N + 1 /\ \A k \in Nat : k < N => k < N + 1
  BY SMT
<1>4. ASSUME NEW j \in 1 .. Len(t)
      PROVE  /\ t[j].n < N + 1
             /\ \A i \in 1 .. (j - 1) : t[i].pub = t[j].pub => t[i].n < t[j].n
  <2>1. CASE j \in 1 .. Len(s) /\ t[j] = s[j]
    BY ZenonT(40), <1>1, <1>2, <1>3, <2>1 DEF InOrder
  <2>2. CASE t[j] = m
    BY <1>1, <1>2, <1>3, <2>2 DEF InOrder
  <2> QED BY <1>1, <2>1, <2>2
<1> QED BY <1>4 DEF InOrder, t

(* More may have been published. *)
LEMMA OrderMore ==
    ASSUME NEW s \in Seq(Message), NEW N \in Nat, NEW M \in Nat, N <= M,
           InOrder(s, N)
    PROVE  InOrder(s, M)
<1>1. \A j \in 1 .. Len(s) : s[j].n \in Nat
  BY MessageNumbers
<1>2. \A k \in Nat : k < N => k < M
  BY SMT
<1> QED BY <1>1, <1>2 DEF InOrder

(* The first message of a history is taken. *)
LEMMA UnderTail ==
    ASSUME NEW s \in Seq(Message), s # <<>>, NEW p, NEW n, Under(p, n, s)
    PROVE  Under(p, n, Tail(s))
<1>1. \A j \in 1 .. Len(Tail(s)) :
        j + 1 \in 1 .. Len(s) /\ Tail(s)[j] = s[j + 1]
  BY SMT
<1> QED BY <1>1 DEF Under

(* A younger message is added to a history. *)
LEMMA UnderNext ==
    ASSUME NEW s \in Seq(Message), NEW p, NEW n, NEW m \in Message,
           n < m.n, Under(p, n, s)
    PROVE  Under(p, n, Append(s, m))
<1> DEFINE t == Append(s, m)
<1>1. \A j \in 1 .. Len(t) : t[j] = m \/ (j \in 1 .. Len(s) /\ t[j] = s[j])
  BY SMT
<1> HIDE DEF t
<1>2. Under(p, n, t)
  BY <1>1 DEF Under
<1> QED BY <1>2 DEF t

(* An empty history is in order. *)
LEMMA EmptyOrder ==
    \A N : InOrder(<<>>, N)
<1>1. 1 .. Len(<<>>) = {}
  BY SMT
<1> QED BY <1>1 DEF InOrder

(* A step moves the history of c on: it is a new one, or still behind what *)
(* it was behind before.                                                   *)
Onward(c) ==
    /\ InOrder(inbox'[c], used'.messages)
    /\ \/ made'[c] = made[c] + 1
       \/ /\ made'[c] = made[c]
          /\ \A p \in Pub, n \in Nat :
               n < used.messages /\ Under(p, n, inbox[c])
               => Under(p, n, inbox'[c])

(* The same of all of them, and of what is latched. *)
AllOnward ==
    /\ LatchedOrder' /\ used.messages <= used'.messages
    /\ \A c \in Conn : Onward(c)

(* Each publisher has one message at most among the latched ones. *)
LEMMA LatchedInOrder ==
    ASSUME HistoryInv, LatchedOrder, pubs \subseteq Pub, NEW q
    PROVE  InOrder(Latched(q), used.messages)
<1> DEFINE s == Latched(q)
<1>1. /\ \A i \in 1 .. Len(s) :
           \E p \in Pub : latched[p] # None /\ s[i] = latched[p]
      /\ \A i, j \in 1 .. Len(s) : s[i] = s[j] => i = j
      /\ s \in Seq(Message)
  BY LatchedMessages
<1> HIDE DEF s
<1>2. \A j \in 1 .. Len(s) : \A i \in 1 .. (j - 1) : i \in 1 .. Len(s) /\ i # j
  BY <1>1, SMTT(30)
<1>3. ASSUME NEW j \in 1 .. Len(s)
      PROVE  s[j].n < used.messages /\ s[j] = latched[s[j].pub]
  <2>1. PICK p \in Pub : latched[p] # None /\ s[j] = latched[p]
    BY <1>1
  <2>2. s[j].pub = p /\ s[j].n < used.messages
    BY <2>1 DEF LatchedOrder
  <2> QED BY <2>1, <2>2
<1>4. ASSUME NEW j \in 1 .. Len(s), NEW i \in 1 .. (j - 1)
      PROVE  s[i].pub # s[j].pub
  <2>1. i \in 1 .. Len(s) /\ i # j
    BY <1>2
  <2>2. s[i] # s[j]
    BY <1>1, <2>1
  <2>3. s[i] = latched[s[i].pub] /\ s[j] = latched[s[j].pub]
    BY <1>3, <2>1
  <2> QED BY <2>2, <2>3
<1>5. InOrder(s, used.messages)
  BY <1>3, <1>4 DEF InOrder
<1> QED BY <1>5 DEF s

(* One more message in a history. *)
LEMMA AppendMessage ==
    ASSUME NEW s \in Seq(Message), NEW m \in Message
    PROVE  Append(s, m) \in Seq(Message) /\ Append(s, m) # <<>>
<1>1. /\ Append(s, m) \in Seq(Message)
      /\ Len(Append(s, m)) = Len(s) + 1 /\ Len(s) + 1 # 0
  BY SMT
<1>2. Len(<<>>) = 0
  BY SMT
<1> QED BY <1>1, <1>2

(* A message is published: it is the last of its publisher. *)
LEMMA PublishOnward ==
    ASSUME SendingInv, HistoryInv, HistoryOrder, NEW p \in Pub, Publish(p)
    PROVE  AllOnward
<1> USE DEF netVars, tableVars, rosVars, queueVars, histVars
<1> DEFINE N == used.messages
           m == [pub |-> p, n |-> N]
<1>1. /\ used' = [used EXCEPT !["messages"] = @ + 1] /\ made' = made
      /\ latched' \in {latched, [latched EXCEPT ![p] = m]}
      /\ inbox' = [c \in Conn |->
            IF rossub[c] # None /\ Compatible(p, rossub[c])
              THEN KeepLast(Append(inbox[c], m), rossub[c].depth)
              ELSE inbox[c]]
  BY DEF Publish, Spend
<1>2. N \in Nat /\ m \in Message /\ m.n = N /\ m.pub = p
  BY DEF HistoryInv, Message
<1>3. used'.messages = N + 1
  BY <1>1 DEF HistoryInv
<1> HIDE DEF m, N
<1>4. /\ N <= N + 1 /\ N < N + 1 /\ N + 1 \in Nat
      /\ \A k \in Nat : k < N => k < N + 1
  BY <1>2, SMTT(30)
<1>5. LatchedOrder'
  <2>1. \A r \in Pub : latched'[r] = latched[r] \/ (r = p /\ latched'[r] = m)
    BY <1>1 DEF HistoryInv
  <2>2. ASSUME NEW r \in Pub, latched'[r] # None
        PROVE  latched'[r].pub = r /\ latched'[r].n < N + 1
    <3>1. CASE latched'[r] = latched[r]
      <4>1. latched[r] \in Message /\ latched[r].pub = r /\ latched[r].n < N
        BY <2>2, <3>1 DEF HistoryInv, HistoryOrder, LatchedOrder, N
      <4>2. latched[r].n \in Nat
        BY <4>1 DEF Message
      <4> QED BY ZenonT(40), <1>4, <3>1, <4>1, <4>2
    <3>2. CASE r = p /\ latched'[r] = m
      BY <1>2, <1>4, <3>2
    <3> QED BY <2>1, <3>1, <3>2
  <2> QED BY <1>3, <2>2 DEF LatchedOrder
<1>6. ASSUME NEW c \in Conn PROVE Onward(c)
  <2> DEFINE s == inbox[c]
             t == Append(s, m)
  <2>1. inbox'[c] \in {s, t, Tail(t)}
    BY <1>1 DEF KeepLast
  <2>2. s \in Seq(Message) /\ InOrder(s, N)
    BY DEF HistoryInv, HistoryOrder, N
  <2>3. t \in Seq(Message) /\ t # <<>>
    BY <1>2, <2>2, AppendMessage
  <2>4. InOrder(s, N + 1) /\ InOrder(t, N + 1) /\ InOrder(Tail(t), N + 1)
    <3>1. InOrder(s, N + 1)
      BY ZenonT(40), <1>2, <1>4, <2>2, OrderMore
    <3>2. InOrder(t, N + 1)
      BY <1>2, <2>2, OrderNext
    <3> HIDE DEF t
    <3>3. InOrder(Tail(t), N + 1)
      BY <2>3, <3>2, OrderTail
    <3> QED BY <3>1, <3>2, <3>3
  <2>5. ASSUME NEW r \in Pub, NEW n \in Nat, n < N, Under(r, n, s)
        PROVE  Under(r, n, t) /\ Under(r, n, Tail(t))
    <3>1. Under(r, n, t)
      BY <1>2, <2>2, <2>5, UnderNext
    <3> HIDE DEF t
    <3> QED BY <2>3, <3>1, UnderTail
  <2>6. /\ InOrder(inbox'[c], N + 1) /\ made'[c] = made[c]
        /\ \A r \in Pub, n \in Nat :
             n < N /\ Under(r, n, s) => Under(r, n, inbox'[c])
    BY <1>1, <2>1, <2>4, <2>5
  <2> QED BY <1>3, <2>6 DEF Onward, N
<1> QED BY <1>3, <1>4, <1>5, <1>6 DEF AllOnward, N

(* A step that leaves the publishers and their messages alone. *)
LEMMA SameOnward ==
    ASSUME HistoryInv, HistoryOrder, latched' = latched,
           used'.messages = used.messages
    PROVE  /\ LatchedOrder' /\ used.messages <= used'.messages
           /\ \A c \in Conn : inbox'[c] = inbox[c] /\ made'[c] = made[c]
                              => Onward(c)
<1>1. LatchedOrder'
  BY DEF LatchedOrder, HistoryOrder
<1>2. used.messages <= used'.messages
  <2>1. used.messages \in Nat
    BY DEF HistoryInv
  <2> QED BY <2>1, SMT
<1> QED BY <1>1, <1>2 DEF Onward, HistoryOrder

(* Every step moves the histories on. *)
LEMMA OnwardStep ==
    ASSUME TypeOK, PlaceInv, SendingInv, HistoryInv, HistoryOrder, [Next]_vars
    PROVE  AllOnward
<1> USE DEF netVars, tableVars, rosVars, queueVars, histVars
<1>1. ASSUME UNCHANGED <<latched, inbox, made>>, used'.messages = used.messages
      PROVE  AllOnward
  BY <1>1, SameOnward DEF AllOnward
<1>2. CASE Quiet
  <2>1. UNCHANGED <<latched, inbox, made>>
    BY <1>2 DEF Quiet
  <2>2. used'.messages = used.messages
    <3>1. used' = used \/ \E w \in {"notices", "requests"} :
                              used' = [used EXCEPT ![w] = @ + 1]
      BY <1>2 DEF Quiet
    <3>2. ASSUME NEW w \in {"notices", "requests"},
                 used' = [used EXCEPT ![w] = @ + 1]
          PROVE  used'.messages = used.messages
      BY <3>2 DEF HistoryInv
    <3> QED BY <3>1, <3>2
  <2> QED BY <1>1, <2>1, <2>2
<1>3. ASSUME NEW e \in Exec, NEW c \in Conn, Take(e, c) PROVE AllOnward
  <2>1. /\ UNCHANGED <<latched, used, made>> /\ inbox[c] # <<>>
        /\ inbox' = [inbox EXCEPT ![c] = Tail(@)]
    BY <1>3 DEF Take
  <2>2. /\ inbox'[c] = Tail(inbox[c])
        /\ \A d \in Conn \ {c} : inbox'[d] = inbox[d]
    BY <2>1 DEF HistoryInv
  <2>3. inbox[c] \in Seq(Message) /\ InOrder(inbox[c], used.messages)
    BY DEF HistoryInv, HistoryOrder
  <2>4. Onward(c)
    BY <2>1, <2>2, <2>3, OrderTail, UnderTail DEF Onward
  <2> QED BY ZenonT(40), <2>1, <2>2, <2>4, SameOnward DEF AllOnward
<1>4. ASSUME NEW e \in Exec, Send(e) PROVE AllOnward
  BY <1>1, <1>4 DEF Send
<1>8. ASSUME NEW e \in Exec, Lookup(e) PROVE AllOnward
  BY <1>1, <1>8 DEF Lookup
<1>5. ASSUME NEW p \in Pub, PublisherJoins(p) \/ Publish(p) PROVE AllOnward
  <2>1. CASE PublisherJoins(p)
    BY <1>1, <2>1 DEF PublisherJoins
  <2> QED BY <1>5, <2>1, PublishOnward
<1>6. CASE StopClear
  BY <1>1, <1>6 DEF StopClear
<1>7. CASE Handler
  <2>1. UNCHANGED <<latched, used>> /\ pubs \subseteq Pub
    BY <1>7, HandlerMoves DEF TypeOK
  <2>2. InOrder(<<>>, used.messages)
    BY EmptyOrder
  <2>3. ASSUME NEW c \in Conn, made' = made,
               inbox' = [inbox EXCEPT ![c] = <<>>]
        PROVE  AllOnward
    <3>1. inbox'[c] = <<>> /\ \A d \in Conn \ {c} : inbox'[d] = inbox[d]
      BY <2>3 DEF HistoryInv
    <3>2. \A p, n : Under(p, n, <<>>)
      <4>1. 1 .. Len(<<>>) = {}
        BY SMT
      <4> QED BY <4>1 DEF Under
    <3>3. Onward(c)
      BY ZenonT(40), <2>1, <2>2, <2>3, <3>1, <3>2 DEF Onward
    <3> QED BY ZenonT(40), <2>1, <2>3, <3>1, <3>3, SameOnward DEF AllOnward
  <2>4. ASSUME NEW c \in Conn, NEW s \in {<<>>, Latched(select_qos(pubs))},
               inbox' = [inbox EXCEPT ![c] = s],
               made' = [made EXCEPT ![c] = @ + 1]
        PROVE  AllOnward
    <3>1. /\ inbox'[c] = s /\ made'[c] = made[c] + 1
          /\ \A d \in Conn \ {c} : inbox'[d] = inbox[d] /\ made'[d] = made[d]
      BY <2>4 DEF HistoryInv, SendingInv
    <3>2. InOrder(s, used.messages)
      <4>1. LatchedOrder
        BY DEF HistoryOrder, LatchedOrder
      <4> QED BY ZenonT(40), <2>1, <2>2, <4>1, LatchedInOrder
    <3>3. Onward(c)
      BY <2>1, <3>1, <3>2 DEF Onward
    <3> QED BY ZenonT(40), <2>1, <3>1, <3>3, SameOnward DEF AllOnward
  <2> QED BY <1>1, <1>7, <2>1, <2>3, <2>4, HandlerHistories
<1> QED BY <1>2, <1>3, <1>4, <1>5, <1>6, <1>7, <1>8, Moves

(* What a thread is sending, by its parts. *)
LEMMA SendingIs ==
    ASSUME SendingInv, NEW e \in Exec, exec[e] # None
    PROVE  /\ exec[e].conn \in Conn /\ exec[e].sub \in Nat
           /\ exec[e].msg.pub \in Pub /\ exec[e].msg.n \in Nat
<1>1. exec[e] \in Sending
  BY DEF SendingInv
<1> QED BY <1>1 DEF Sending, Message

(* What was taken stays behind what is left. *)
LEMMA TakenOn ==
    ASSUME SendingInv, HistoryInv, HistoryInv', AllOnward,
           NEW c \in Conn, NEW k \in Nat, NEW p \in Pub, NEW n \in Nat,
           Taken(c, k, p, n)
    PROVE  Taken(c, k, p, n)'
<1>1. /\ used.messages \in Nat /\ used'.messages \in Nat /\ made[c] \in Nat
      /\ used.messages <= used'.messages /\ Onward(c)
      /\ k <= made[c] /\ n < used.messages
  BY DEF HistoryInv, SendingInv, AllOnward, Taken
<1>2. n < used'.messages
  BY <1>1, SMTT(30)
<1>3. CASE made'[c] = made[c] + 1
  <2>1. k <= made[c] + 1 /\ k # made[c] + 1
    BY <1>1, SMTT(30)
  <2> QED BY <1>2, <1>3, <2>1 DEF Taken
<1>4. CASE made'[c] # made[c] + 1
  <2>1. made'[c] = made[c] /\ (Under(p, n, inbox[c]) => Under(p, n, inbox'[c]))
    BY <1>1, <1>4 DEF Onward
  <2> QED BY <1>1, <1>2, <2>1 DEF Taken
<1> QED BY <1>3, <1>4

(* A thread goes on with the message it had, or is done with it. *)
GoesOn(e) ==
    exec'[e] # None =>
        /\ exec[e] # None /\ exec'[e].conn = exec[e].conn
        /\ exec'[e].sub = exec[e].sub /\ exec'[e].msg = exec[e].msg

Fewer ==
    /\ \A e \in Exec : GoesOn(e)
    /\ overtaken \subseteq overtaken'

(* A step takes a message from a history, or starts no thread. *)
LEMMA ExecMoves ==
    ASSUME TypeOK, PlaceInv, SendingInv, [Next]_vars
    PROVE  Fewer \/ \E e \in Exec, c \in Conn : Take(e, c)
<1> USE DEF netVars, tableVars, rosVars, queueVars, histVars
<1>1. CASE UNCHANGED <<exec, overtaken>>
  BY <1>1 DEF Fewer, GoesOn
<1>2. ASSUME NEW e \in Exec, Send(e) PROVE Fewer
  <2>1. exec' = [exec EXCEPT ![e] = None] /\ overtaken \subseteq overtaken'
    BY <1>2 DEF Send
  <2>2. exec'[e] = None /\ \A f \in Exec \ {e} : exec'[f] = exec[f]
    BY <2>1 DEF SendingInv
  <2> QED BY <2>1, <2>2 DEF Fewer, GoesOn
<1>7. ASSUME NEW e \in Exec, Lookup(e) PROVE Fewer
  <2>1. overtaken' = overtaken
    BY <1>7 DEF Lookup
  <2>2. exec[e] # None /\ \E y \in Sending \cup {None} :
          /\ y # None => /\ y.conn = exec[e].conn /\ y.msg = exec[e].msg
                         /\ y.sub = exec[e].sub
          /\ exec' = [exec EXCEPT ![e] = y]
    BY <1>7, LookedUp
  <2>3. PICK y \in Sending \cup {None} :
          /\ y # None => /\ y.conn = exec[e].conn /\ y.msg = exec[e].msg
                         /\ y.sub = exec[e].sub
          /\ exec' = [exec EXCEPT ![e] = y]
    BY <2>2
  <2>4. exec'[e] = y /\ \A f \in Exec \ {e} : exec'[f] = exec[f]
    BY <2>3 DEF SendingInv
  <2>5. GoesOn(e)
    BY <2>2, <2>3, <2>4 DEF GoesOn
  <2>6. \A f \in Exec \ {e} : GoesOn(f)
    BY <2>4 DEF GoesOn
  <2> QED BY <2>1, <2>5, <2>6 DEF Fewer
<1>3. Quiet => UNCHANGED <<exec, overtaken>>
  BY DEF Quiet
<1>4. Handler => UNCHANGED <<exec, overtaken>>
  BY HandlerMoves, HandlerHistories
<1>5. StopClear => UNCHANGED <<exec, overtaken>>
  BY DEF StopClear
<1>6. ASSUME NEW p \in Pub, PublisherJoins(p) \/ Publish(p)
      PROVE  UNCHANGED <<exec, overtaken>>
  BY <1>6 DEF PublisherJoins, Publish
<1> QED BY ZenonT(40), <1>1, <1>2, <1>3, <1>4, <1>5, <1>6, <1>7, Moves

(* A thread takes the first message of a history. *)
LEMMA TakeFacts ==
    ASSUME SendingInv, HistoryInv, HistoryOrder,
           NEW e \in Exec, NEW c \in Conn, Take(e, c)
    PROVE  /\ overtaken' = overtaken
           /\ \A f \in Exec \ {e} : exec'[f] = exec[f]
           /\ exec'[e] # None =>
                /\ exec'[e].conn = c /\ exec'[e].sub = made[c]
                /\ exec'[e].msg = Head(inbox[c])
                /\ \A k, p, n :
                     /\ k = made[c] /\ p = Head(inbox[c]).pub
                     /\ n = Head(inbox[c]).n
                     => Taken(c, k, p, n)'
                /\ \A p, n : Under(p, n, inbox[c]) /\ Head(inbox[c]).pub = p
                             => n < Head(inbox[c]).n
<1> USE DEF netVars, tableVars, rosVars, queueVars, histVars
<1> DEFINE h == Head(inbox[c])
           y == [conn |-> c, msg |-> h, id |-> None, sub |-> made[c]]
<1>1. /\ UNCHANGED <<used, made, overtaken>> /\ inbox[c] # <<>>
      /\ inbox' = [inbox EXCEPT ![c] = Tail(inbox[c])]
      /\ exec' = [exec EXCEPT ![e] = y]
      /\ exec[e] = None
  BY DEF Take
<1>2. inbox[c] \in Seq(Message) /\ inbox'[c] = Tail(inbox[c])
  BY <1>1 DEF HistoryInv
<1>3. InOrder(inbox[c], used.messages)
  BY DEF HistoryOrder
<1>4. Under(h.pub, h.n, inbox'[c]) /\ h.n < used.messages
  BY ZenonT(40), <1>1, <1>2, <1>3, OrderTail
<1>5. made[c] <= made[c]
  <2>1. made[c] \in Nat
    BY DEF SendingInv
  <2> QED BY <2>1, SMTT(30)
<1>6. \A p, n : Under(p, n, inbox[c]) /\ h.pub = p => n < h.n
  <2>1. 1 \in 1 .. Len(inbox[c]) /\ inbox[c][1] = h
    BY <1>1, <1>2, SMTT(30)
  <2> QED BY <2>1 DEF Under
<1>7. y.conn = c /\ y.sub = made[c] /\ y.msg = h
  OBVIOUS
<1>8. exec'[e] = y /\ \A f \in Exec \ {e} : exec'[f] = exec[f]
  BY <1>1 DEF SendingInv
<1>9. ASSUME NEW k, NEW p, NEW n, k = made[c], p = h.pub, n = h.n
      PROVE  Taken(c, k, p, n)'
  BY ZenonT(40), <1>1, <1>4, <1>5, <1>9 DEF Taken
<1> QED BY ZenonT(40), <1>1, <1>6, <1>7, <1>8, <1>9

(* Every step keeps the order of what the threads send: a thread takes the *)
(* first message of a history, the others have older ones of it.           *)
LEMMA ExecOrderStep ==
    ASSUME TypeOK, PlaceInv, SendingInv, HistoryInv, HistoryInv', HistoryOrder,
           ExecOrder, AllOnward, [Next]_vars
    PROVE  ExecOrder'
<1>1. ASSUME NEW f \in Exec, GoesOn(f), exec'[f] # None
      PROVE  Taken(exec[f].conn, exec[f].sub, exec[f].msg.pub, exec[f].msg.n)'
  <2>1. PICK x : /\ x = exec[f] /\ x # None /\ exec'[f].conn = x.conn
                 /\ exec'[f].sub = x.sub /\ exec'[f].msg = x.msg
    BY <1>1 DEF GoesOn
  <2>2. /\ x.conn \in Conn /\ x.sub \in Nat
        /\ x.msg.pub \in Pub /\ x.msg.n \in Nat
        /\ Taken(x.conn, x.sub, x.msg.pub, x.msg.n)
    BY <1>1, <2>1, SendingIs DEF ExecOrder
  <2>3. Taken(x.conn, x.sub, x.msg.pub, x.msg.n)'
    BY <2>2, TakenOn
  <2> QED BY <1>1, <2>1, <2>3
<1>2. CASE Fewer
  <2>1. \A e \in Exec : GoesOn(e)
    BY <1>2 DEF Fewer
  <2>2. ASSUME NEW e \in Exec, NEW f \in Exec \ {e},
               exec'[e] # None, exec'[f] # None
        PROVE  Apart(exec'[e], exec'[f])
    <3>1. Apart(exec[e], exec[f])
      BY <2>1, <2>2 DEF GoesOn, ExecOrder
    <3> QED BY <2>1, <2>2, <3>1 DEF GoesOn, Apart
  <2> QED BY <1>1, <2>1, <2>2 DEF ExecOrder
<1>3. ASSUME NEW e \in Exec, NEW c \in Conn, Take(e, c) PROVE ExecOrder'
  <2>1. \A f \in Exec \ {e} : exec'[f] = exec[f]
    BY <1>3, TakeFacts
  <2>2. ASSUME exec'[e] # None
        PROVE  Taken(exec[e].conn, exec[e].sub,
                     exec[e].msg.pub, exec[e].msg.n)'
    <3>1. PICK y : y = exec'[e]
      OBVIOUS
    <3>2. y.conn = c /\ y.sub = made[c] /\ y.msg = Head(inbox[c])
      BY <1>3, <2>2, <3>1, TakeFacts
    <3>3. PICK k, p, n : k = y.sub /\ p = y.msg.pub /\ n = y.msg.n
      OBVIOUS
    <3>4. Taken(c, k, p, n)'
      BY <1>3, <2>2, <3>2, <3>3, TakeFacts
    <3>5. /\ c = exec'[e].conn /\ k = exec'[e].sub
          /\ p = exec'[e].msg.pub /\ n = exec'[e].msg.n
      BY <3>1, <3>2, <3>3
    <3> QED BY <3>4, <3>5
  <2>3. ASSUME exec'[e] # None, NEW f \in Exec \ {e}, exec[f] # None
        PROVE  Apart(exec'[e], exec[f]) /\ Apart(exec[f], exec'[e])
    <3> DEFINE x == exec[f]
               y == exec'[e]
               h == Head(inbox[c])
    <3>1. y.conn = c /\ y.sub = made[c] /\ y.msg = h
      BY ZenonT(40), <1>3, <2>3, TakeFacts
    <3>2. ASSUME x.conn = c, x.sub = made[c], x.msg.pub = h.pub
          PROVE  x.msg.n # h.n
      <4>1. Under(h.pub, x.msg.n, inbox[c])
        BY <2>3, <3>2 DEF ExecOrder, Taken
      <4>2. x.msg.n < h.n
        BY ZenonT(40), <1>3, <2>3, <4>1, TakeFacts
      <4>3. x.msg.n \in Nat
        BY <2>3, SendingIs
      <4> QED BY <4>2, <4>3, SMTT(30)
    <3> QED BY <3>1, <3>2 DEF Apart
  <2>4. \A f \in Exec \ {e} : GoesOn(f)
    BY <2>1 DEF GoesOn
  <2> QED BY <1>1, <2>1, <2>2, <2>3, <2>4 DEF ExecOrder
<1> QED BY <1>2, <1>3, ExecMoves

(* A message on its way keeps its place before those that follow. *)
LEMMA FitsOn ==
    ASSUME TypeOK, PlaceInv, SendingInv, HistoryInv, HistoryInv', HistoryOrder,
           AllOnward, [Next]_vars, NEW c \in Conn, NEW m \in Sent, Fits(m, c)
    PROVE  Fits(m, c)'
<1>1. m.pub \in Pub /\ m.n \in Nat /\ m.sub \in Nat
  BY DEF Sent
<1>2. Taken(c, m.sub, m.pub, m.n) /\ Taken(c, m.sub, m.pub, m.n)'
  BY <1>1, TakenOn DEF Fits
<1>3. CASE Fewer
  <2>1. ASSUME First(m, c) PROVE First(m, c)'
    BY <1>3, <2>1 DEF Fewer, GoesOn, First
  <2> QED BY <1>2, <1>3, <2>1 DEF Fits, Fewer
<1>4. ASSUME NEW e \in Exec, NEW d \in Conn, Take(e, d) PROVE Fits(m, c)'
  <2>1. overtaken' = overtaken /\ \A f \in Exec \ {e} : exec'[f] = exec[f]
    BY <1>4, TakeFacts
  <2>2. ASSUME exec'[e] # None, exec'[e].conn = c, exec'[e].sub = m.sub,
               exec'[e].msg.pub = m.pub
        PROVE  m.n < exec'[e].msg.n
    <3>1. /\ d = c /\ m.sub = made[c] /\ Head(inbox[c]).pub = m.pub
          /\ exec'[e].msg = Head(inbox[c])
      BY <1>4, <2>2, TakeFacts
    <3>2. Under(m.pub, m.n, inbox[c])
      BY <1>2, <3>1 DEF Taken
    <3> QED BY ZenonT(40), <1>4, <2>2, <3>1, <3>2, TakeFacts
  <2>3. ASSUME First(m, c) PROVE First(m, c)'
    BY <2>1, <2>2, <2>3 DEF First
  <2> QED BY <1>2, <2>1, <2>3 DEF Fits
<1> QED BY <1>3, <1>4, ExecMoves

(* Leaving messages out keeps the others in order. *)
LEMMA SortedThin ==
    ASSUME NEW s, NEW t, Thin(s, t), Sorted(t)
    PROVE  Sorted(s)
<1>1. PICK f \in [1 .. Len(s) -> 1 .. Len(t)] :
        /\ \A i, j \in 1 .. Len(s) : i < j => f[i] < f[j]
        /\ \A i \in 1 .. Len(s) :
             s[i].reliable = t[f[i]].reliable /\ s[i].msg = t[f[i]].msg
  BY DEF Thin
<1>2. ASSUME NEW i \in 1 .. Len(s), NEW j \in 1 .. Len(s),
             i < j, ~s[i].reliable, ~s[j].reliable,
             s[i].msg.pub = s[j].msg.pub, s[i].msg.sub = s[j].msg.sub
      PROVE  s[i].msg.n < s[j].msg.n
  <2>1. f[i] \in 1 .. Len(t) /\ f[j] \in 1 .. Len(t) /\ f[i] < f[j]
    BY <1>1, <1>2
  <2>2. /\ s[i].reliable = t[f[i]].reliable /\ s[i].msg = t[f[i]].msg
        /\ s[j].reliable = t[f[j]].reliable /\ s[j].msg = t[f[j]].msg
    BY <1>1
  <2>3. t[f[i]].msg.n < t[f[j]].msg.n
    BY <1>2, <2>1, <2>2 DEF Sorted
  <2> QED BY <2>2, <2>3
<1> QED BY <1>2 DEF Sorted

(* The entries of a queue with one more. *)
LEMMA AppendEntries ==
    ASSUME NEW s \in Seq(Item), NEW x \in Item
    PROVE  \A i \in 1 .. Len(Append(s, x)) :
             \/ i \in 1 .. Len(s) /\ Append(s, x)[i] = s[i]
             \/ i = Len(s) + 1 /\ Append(s, x)[i] = x
  BY SMT

(* A new last entry that is reliable, or younger than its like. *)
LEMMA SortedAppend ==
    ASSUME NEW s \in Seq(Item), NEW x \in Item, Sorted(s),
           x.reliable \/ \A i \in 1 .. Len(s) :
             /\ ~s[i].reliable /\ s[i].msg.pub = x.msg.pub
             /\ s[i].msg.sub = x.msg.sub
             => s[i].msg.n < x.msg.n
    PROVE  Sorted(Append(s, x))
<1> DEFINE t == Append(s, x)
<1>1. \A i \in 1 .. Len(t) : \/ i \in 1 .. Len(s) /\ t[i] = s[i]
                             \/ i = Len(s) + 1 /\ t[i] = x
  BY AppendEntries
<1>2. \A i \in 1 .. Len(s) : ~(Len(s) + 1 < i)
  BY SMTT(30)
<1>3. ~(Len(s) + 1 < Len(s) + 1)
  BY SMT
<1> HIDE DEF t
<1>4. ASSUME NEW i \in 1 .. Len(t), NEW j \in 1 .. Len(t),
             i < j, ~t[i].reliable, ~t[j].reliable,
             t[i].msg.pub = t[j].msg.pub, t[i].msg.sub = t[j].msg.sub
      PROVE  t[i].msg.n < t[j].msg.n
  <2>1. i \in 1 .. Len(s) /\ t[i] = s[i]
    <3>1. CASE i = Len(s) + 1
      <4>1. ~(i < j)
        BY <1>1, <1>2, <1>3, <3>1
      <4> QED BY <1>4, <4>1
    <3> QED BY <1>1, <3>1
  <2>2. CASE j \in 1 .. Len(s) /\ t[j] = s[j]
    BY <1>4, <2>1, <2>2 DEF Sorted
  <2>3. CASE j = Len(s) + 1 /\ t[j] = x
    BY <1>4, <2>1, <2>3
  <2> QED BY ZenonT(40), <1>1, <2>2, <2>3
<1>5. Sorted(t)
  BY <1>4 DEF Sorted
<1> QED BY <1>5 DEF t

(* The entries of a queue. *)
LEMMA Entries ==
    ASSUME NEW s \in Seq(Item)
    PROVE  \A i \in 1 .. Len(s) : s[i] \in Item
  BY SMT

(* What a step that moves a queue on does to the order in it. *)
LEMMA MovedOrder ==
    ASSUME WayType, NEW c \in Conn, Moved(c), overtaken \subseteq overtaken',
           WayOrder, SortedWays,
           \A m \in Sent : Fits(m, c) => Fits(m, c)'
    PROVE  InLine(c)
<1>1. PICK w : w = Way(c)
  OBVIOUS
<1>2. PICK v : v = Way(c)'
  OBVIOUS
<1>3. w \in Seq(Item)
  BY <1>1, WayTyped
<1>4. \A i \in 1 .. Len(w) :
        ~w[i].reliable => w[i].msg \in Sent /\ Fits(w[i].msg, c)'
  <2> SUFFICES ASSUME NEW i \in 1 .. Len(w), ~w[i].reliable
               PROVE  w[i].msg \in Sent /\ Fits(w[i].msg, c)'
    OBVIOUS
  <2>1. w[i].msg \in Sent
    BY <1>3, Entries, ItemFacts
  <2>2. Fits(w[i].msg, c)
    BY <1>1 DEF WayOrder
  <2> QED BY <2>1, <2>2
<1>5. c \notin overtaken' => Sorted(w)
  BY <1>1 DEF SortedWays
<1>6. CASE Thin(v, w)
  <2>1. c \notin overtaken' => Sorted(v)
    BY <1>5, <1>6, SortedThin
  <2>2. ASSUME NEW i \in 1 .. Len(v), ~v[i].reliable
        PROVE  v[i].msg \in Sent /\ Fits(v[i].msg, c)'
    <3>1. PICK k \in 1 .. Len(w) :
            v[i].reliable = w[k].reliable /\ v[i].msg = w[k].msg
      BY <1>6 DEF Thin
    <3>2. PICK m : m = w[k].msg
      OBVIOUS
    <3>3. m \in Sent /\ Fits(m, c)'
      BY ZenonT(40), <1>4, <2>2, <3>1, <3>2
    <3> QED BY <3>1, <3>2, <3>3
  <2> QED BY <1>2, <2>1, <2>2 DEF InLine
<1>7. ASSUME NEW x \in Told, v = Append(w, x) PROVE InLine(c)
  <2>1. x \in Item /\ x.reliable
    BY DEF Item, Told
  <2>2. c \notin overtaken' => Sorted(v)
    BY ZenonT(40), <1>3, <1>5, <1>7, <2>1, SortedAppend
  <2>3. ASSUME NEW i \in 1 .. Len(v), ~v[i].reliable
        PROVE  v[i].msg \in Sent /\ Fits(v[i].msg, c)'
    <3>1. i \in 1 .. Len(w) /\ v[i] = w[i]
      BY <1>3, <1>7, <2>1, <2>3, AppendEntries
    <3>2. PICK m : m = w[i].msg
      OBVIOUS
    <3>3. m \in Sent /\ Fits(m, c)'
      BY <1>4, <2>3, <3>1, <3>2
    <3> QED BY <3>1, <3>2, <3>3
  <2> QED BY <1>2, <2>2, <2>3 DEF InLine
<1> QED BY <1>1, <1>2, <1>6, <1>7 DEF Moved

(* A message that overtakes none fits behind those on their way. *)
LEMMA SentFits ==
    ASSUME SendingInv, HistoryInv, HistoryInv', AllOnward, ExecOrder, WayOrder,
           NEW e \in Exec, Send(e), NEW c \in Conn, c = exec[e].conn,
           NEW m \in Sent, m = Pushed(exec[e])
    PROVE  /\ Fits(m, c)'
           /\ c \notin overtaken' => Youngest(m, c)
<1> USE DEF netVars, tableVars, rosVars, queueVars, histVars
<1> DEFINE Older(f) ==
             /\ exec[f] # None /\ exec[f].conn = exec[e].conn
             /\ exec[f].sub = exec[e].sub
             /\ exec[f].msg.pub = exec[e].msg.pub
             /\ exec[f].msg.n < exec[e].msg.n
<1>1. /\ exec[e] # None /\ exec' = [exec EXCEPT ![e] = None]
      /\ overtaken' = overtaken
           \cup {d \in {exec[e].conn} : \E f \in Exec : Older(f)}
  BY DEF Send
<1>2. m.pub = exec[e].msg.pub /\ m.n = exec[e].msg.n /\ m.sub = exec[e].sub
  BY DEF Pushed
<1>3. m.pub \in Pub /\ m.n \in Nat /\ m.sub \in Nat
  BY DEF Sent
<1>4. Taken(c, m.sub, m.pub, m.n)'
  <2>1. Taken(c, m.sub, m.pub, m.n)
    BY <1>1, <1>2 DEF ExecOrder
  <2> QED BY ZenonT(40), <1>3, <2>1, TakenOn
<1>5. exec'[e] = None /\ \A f \in Exec \ {e} : exec'[f] = exec[f]
  BY <1>1 DEF SendingInv
<1>6. ASSUME c \notin overtaken', NEW f \in Exec \ {e}, exec[f] # None,
             exec[f].conn = c, exec[f].sub = m.sub, exec[f].msg.pub = m.pub
      PROVE  m.n < exec[f].msg.n
  <2>1. ~(exec[f].msg.n < m.n)
    BY ZenonT(40), <1>1, <1>2, <1>6
  <2>2. exec[f].msg.n # m.n
    BY ZenonT(40), <1>1, <1>2, <1>6 DEF ExecOrder, Apart
  <2>3. exec[f].msg.n \in Nat
    BY <1>6, SendingIs
  <2> QED BY <1>3, <2>1, <2>2, <2>3, SMTT(30)
<1>7. c \notin overtaken' => First(m, c)'
  BY <1>5, <1>6 DEF First
<1>8. ASSUME c \notin overtaken', NEW i \in 1 .. Len(Way(c)),
             ~Way(c)[i].reliable, Way(c)[i].msg.pub = m.pub,
             Way(c)[i].msg.sub = m.sub
      PROVE  Way(c)[i].msg.n < m.n
  <2>1. First(Way(c)[i].msg, c)
    BY <1>1, <1>8 DEF WayOrder, Fits
  <2> QED BY <1>1, <1>2, <1>8, <2>1 DEF First
<1> QED BY <1>4, <1>7, <1>8 DEF Fits, Youngest

(* So the way stays in order when it is queued. *)
LEMMA SentOrder ==
    ASSUME WayType, NEW c \in Conn, overtaken \subseteq overtaken',
           WayOrder, SortedWays,
           \A m \in Sent : Fits(m, c) => Fits(m, c)',
           NEW m \in Sent, Fits(m, c)',
           c \notin overtaken' => Youngest(m, c),
           Way(c)' = Append(Way(c), Entry(m, FALSE))
    PROVE  InLine(c)
<1>1. PICK w : w = Way(c)
  OBVIOUS
<1>2. PICK v : v = Way(c)'
  OBVIOUS
<1>3. PICK x : x = Entry(m, FALSE)
  OBVIOUS
<1>4. x \in Item /\ x.msg = m
  BY <1>3 DEF Entry, Item, Data
<1>5. w \in Seq(Item) /\ v = Append(w, x)
  BY <1>1, <1>2, <1>3, WayTyped
<1>6. c \notin overtaken' => Sorted(v)
  <2> SUFFICES ASSUME c \notin overtaken' PROVE Sorted(v)
    OBVIOUS
  <2>1. Sorted(w)
    BY <1>1 DEF SortedWays
  <2>2. \A i \in 1 .. Len(w) :
             /\ ~w[i].reliable /\ w[i].msg.pub = x.msg.pub
             /\ w[i].msg.sub = x.msg.sub
             => w[i].msg.n < x.msg.n
    BY <1>1, <1>4 DEF Youngest
  <2> QED BY ZenonT(40), <1>4, <1>5, <2>1, <2>2, SortedAppend
<1>7. ASSUME NEW i \in 1 .. Len(v), ~v[i].reliable
      PROVE  \E k \in Sent : k = v[i].msg /\ Fits(k, c)'
  <2>1. CASE i \in 1 .. Len(w) /\ v[i] = w[i]
    <3>1. PICK k : k = w[i].msg
      OBVIOUS
    <3>2. k \in Sent
      BY <1>5, <1>7, <2>1, <3>1, Entries, ItemFacts
    <3>3. Fits(k, c)
      BY ZenonT(40), <1>1, <1>7, <2>1, <3>1 DEF WayOrder
    <3> QED BY <2>1, <3>1, <3>2, <3>3
  <2>2. CASE v[i] = x
    BY ZenonT(40), <1>4, <2>2
  <2> QED BY <1>4, <1>5, <2>1, <2>2, AppendEntries
<1> QED BY <1>2, <1>6, <1>7 DEF InLine

(* Every step keeps the invariant of the order. *)
LEMMA OrderStep ==
    ASSUME TypeOK, PlaceInv, SendingInv, HistoryInv, HistoryInv', WayType,
           WayInv, OrderInv, [Next]_vars
    PROVE  OrderInv'
<1>1. HistoryOrder /\ ExecOrder /\ WayOrder /\ SortedWays
  BY DEF OrderInv
<1>2. AllOnward
  BY ZenonT(40), <1>1, OnwardStep
<1>3. HistoryOrder'
  BY <1>2 DEF AllOnward, Onward, HistoryOrder
<1>4. ExecOrder'
  BY <1>1, <1>2, ExecOrderStep
<1>5. \A c \in Conn, m \in Sent : Fits(m, c) => Fits(m, c)'
  BY <1>1, <1>2, FitsOn
<1>6. overtaken \subseteq overtaken'
  BY ZenonT(40), <1>1, ExecMoves, TakeFacts DEF Fewer
<1>7. ASSUME NEW c \in Conn PROVE InLine(c)
  <2>1. CASE Moved(c)
    BY ZenonT(40), <1>1, <1>5, <1>6, <2>1, MovedOrder
  <2>2. ASSUME NEW e \in Exec, Send(e), ~Moved(c)
        PROVE  \E m \in Sent : /\ m = Pushed(exec[e]) /\ c = exec[e].conn
                               /\ Way(c)' = Append(Way(c), Entry(m, FALSE))
    <3>1. Way(c)' # Way(c)
      <4>1. Way(c) \in Seq(Item) /\ Alike(Way(c), Way(c))
        BY WayTyped DEF Alike
      <4>2. Thin(Way(c), Way(c))
        BY <4>1, ThinAlike
      <4> QED BY <2>2, <4>2 DEF Moved
    <3>2. /\ c = exec[e].conn
          /\ Way(c)' = Append(Way(c), Entry(Pushed(exec[e]), FALSE))
      BY <2>2, <3>1, SendWay
    <3>3. Pushed(exec[e]) \in Sent
      <4>1. exec[e] \in Sending
        BY <2>2 DEF SendingInv, Send
      <4> QED BY <4>1 DEF Pushed, Sent, Sending, Message
    <3> QED BY ZenonT(40), <3>2, <3>3
  <2>3. ASSUME NEW e \in Exec, Send(e), ~Moved(c)
        PROVE  InLine(c)
    <3>1. PICK m \in Sent : /\ m = Pushed(exec[e]) /\ c = exec[e].conn
                            /\ Way(c)' = Append(Way(c), Entry(m, FALSE))
      BY <2>2, <2>3
    <3>2. Fits(m, c)' /\ (c \notin overtaken' => Youngest(m, c))
      BY ZenonT(40), <1>1, <1>2, <2>3, <3>1, SentFits
    <3> QED BY <1>1, <1>5, <1>6, <3>1, <3>2, SentOrder
  <2> QED BY ZenonT(40), <2>1, <2>3, WayStep
<1>8. WayOrder'
  BY <1>7 DEF WayOrder, InLine
<1>9. SortedWays'
  BY <1>7 DEF SortedWays, InLine
<1> QED BY ZenonT(40), <1>3, <1>4, <1>8, <1>9 DEF OrderInv

(* Nothing is out of order when the program starts. *)
LEMMA OrderInit == Init => OrderInv
<1> SUFFICES ASSUME Init PROVE OrderInv
  OBVIOUS
<1>1. Len(<<>>) = 0 /\ 1 .. 0 = {} /\ <<>> \o <<>> = <<>>
  BY SMTT(30)
<1>2. HistoryOrder
  <2>1. \A p \in Pub : latched[p] = None
    BY DEF Init, DeliveryInit
  <2>2. \A c \in Conn : inbox[c] = <<>>
    BY DEF Init, DeliveryInit
  <2> QED BY ZenonT(40), <2>1, <2>2, EmptyOrder DEF HistoryOrder, LatchedOrder
<1>3. ExecOrder
  BY DEF Init, DeliveryInit, ExecOrder
<1>4. \A c \in Conn : Way(c) = <<>>
  BY <1>1 DEF Init, DeliveryInit, Way
<1>5. WayOrder /\ SortedWays
  BY <1>1, <1>4 DEF WayOrder, SortedWays, Sorted
<1> QED BY ZenonT(40), <1>2, <1>3, <1>5 DEF OrderInv

(* The invariant of the order: a message is in a history, taken by a       *)
(* thread of the executor, or on its way to the client, and each of these  *)
(* stages is ahead of the one before it.                                   *)
THEOREM OrderInvariance == Spec => []OrderInv
<1>1. /\ EndInv /\ SendInv /\ SendInv' /\ WayType /\ WayInv /\ OrderInv
      /\ [Next]_vars
      => OrderInv'
  BY OrderStep DEF EndInv, SendInv
<1> QED BY <1>1, EndInvariance, SendInvariance, WayInvariance, OrderInit, PTL
    DEF Spec

(* OrderKept: the messages of one publisher reach a subscription in the    *)
(* order of publication, whatever write_pop skips, unless a thread of the  *)
(* executor overtook another one between ros_message_handler and send.     *)
THEOREM InOrderArrive == Spec => []OrderKept
<1>1. OrderInv => OrderKept
  BY DEF OrderInv, SortedWays, Sorted, OrderKept
<1> QED BY <1>1, OrderInvariance, PTL
=============================================================================
