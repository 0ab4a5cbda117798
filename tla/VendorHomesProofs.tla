-------------------------- MODULE VendorHomesProofs --------------------------
(***************************************************************************)
(* Proofs about two of the vendors' homes.                                 *)
(*                                                                         *)
(* MatterHome, for any devices, homes, sessions, sockets and scenarios:    *)
(* the types, that records and settings say the same as the server, and    *)
(* that a session names the device whose code it was given.                *)
(*                                                                         *)
(* HiveHome, for any zones, areas and numbers of attempts and events: the  *)
(* types, that an account that was cleared stays away, and that a poll     *)
(* leaves alone what users did to their zones.                             *)
(***************************************************************************)
EXTENDS MatterHome, HiveHome, FiniteSetTheorems, SequenceTheorems, TLAPS

-----------------------------------------------------------------------------
(***************************************************************************)
(* MatterHome.                                                             *)
(***************************************************************************)

(***************************************************************************)
(* Sequences, as the inboxes of connections and the entries of a listing.  *)
(***************************************************************************)
LEMMA Appended ==
  ASSUME NEW S, NEW q \in Seq(S), NEW m \in S
  PROVE  /\ Append(q, m) \in Seq(S) /\ Append(q, m) # <<>>
         /\ Range(Append(q, m)) = Range(q) \cup {m}
         /\ Len(Append(q, m)) = Len(q) + 1 /\ Len(q) \in Nat
         /\ \A i \in 1..Len(q) : Append(q, m)[i] = q[i]
         /\ Append(q, m)[Len(q) + 1] = m
<1>1. /\ Append(q, m) \in Seq(S) /\ Len(Append(q, m)) = Len(q) + 1 /\ Len(q) \in Nat
      /\ \A i \in 1..Len(q) : Append(q, m)[i] = q[i]
      /\ Append(q, m)[Len(q) + 1] = m
      /\ DOMAIN q = 1..Len(q) /\ DOMAIN Append(q, m) = 1..Len(Append(q, m))
  OBVIOUS
<1>2. Append(q, m) # <<>>
  BY <1>1
<1>3. Range(Append(q, m)) \subseteq Range(q) \cup {m}
  BY <1>1 DEF Range
<1>4. Range(q) \cup {m} \subseteq Range(Append(q, m))
  <2>1. m \in Range(Append(q, m))
    BY <1>1 DEF Range
  <2>2. ASSUME NEW x \in Range(q)  PROVE x \in Range(Append(q, m))
    <3>1. PICK i \in 1..Len(q) : x = q[i]
      BY <1>1, <2>2 DEF Range
    <3>2. i \in DOMAIN Append(q, m) /\ Append(q, m)[i] = x
      BY <1>1, <3>1
    <3>. QED  BY <3>2 DEF Range
  <2>. QED  BY <2>1, <2>2
<1>. QED  BY <1>1, <1>2, <1>3, <1>4

LEMMA HeadAndTail ==
  ASSUME NEW S, NEW q \in Seq(S), q # <<>>
  PROVE  /\ Head(q) \in S /\ Head(q) = q[1] /\ Tail(q) \in Seq(S)
         /\ Range(q) = {Head(q)} \cup Range(Tail(q))
         /\ Len(q) \in Nat \ {0} /\ Len(Tail(q)) = Len(q) - 1
         /\ \A i \in 1..Len(Tail(q)) : Tail(q)[i] = q[i + 1]
<1>1. /\ Head(q) \in S /\ Head(q) = q[1] /\ Tail(q) \in Seq(S)
      /\ Len(q) \in Nat \ {0} /\ Len(Tail(q)) = Len(q) - 1
      /\ DOMAIN q = 1..Len(q) /\ DOMAIN Tail(q) = 1..Len(Tail(q))
  BY EmptySeq
<1>2. \A i \in 1..Len(Tail(q)) : Tail(q)[i] = q[i + 1]
  BY <1>1
<1>3. Range(q) \subseteq {Head(q)} \cup Range(Tail(q))
  <2>1. ASSUME NEW i \in 1..Len(q), i # 1  PROVE q[i] \in Range(Tail(q))
    <3>1. i - 1 \in 1..Len(Tail(q)) /\ Tail(q)[i - 1] = q[i]
      BY <1>1, <1>2, <2>1
    <3>. QED  BY <1>1, <3>1 DEF Range
  <2>. QED  BY <1>1, <2>1 DEF Range
<1>4. {Head(q)} \cup Range(Tail(q)) \subseteq Range(q)
  <2>1. ASSUME NEW i \in 1..Len(Tail(q))  PROVE Tail(q)[i] \in Range(q)
    <3>1. i + 1 \in DOMAIN q
      BY <1>1
    <3>. QED  BY <1>2, <3>1 DEF Range
  <2>2. 1 \in DOMAIN q
    BY <1>1
  <2>. QED  BY <1>1, <2>1, <2>2 DEF Range
<1>. QED  BY <1>1, <1>2, <1>3, <1>4

LEMMA Consed ==
  ASSUME NEW S, NEW q \in Seq(S), NEW e \in S
  PROVE  /\ <<e>> \o q \in Seq(S) /\ <<e>> \o q # <<>>
         /\ Head(<<e>> \o q) = e /\ Tail(<<e>> \o q) = q
         /\ Range(<<e>> \o q) = {e} \cup Range(q)
<1>1. <<e>> \o q \in Seq(S) /\ Len(<<e>> \o q) = 1 + Len(q) /\ Len(q) \in Nat /\ (<<e>> \o q)[1] = e
      /\ \A i \in 1..Len(q) : (<<e>> \o q)[i + 1] = q[i]
  OBVIOUS
<1>2. <<e>> \o q # <<>> /\ Head(<<e>> \o q) = e
  BY <1>1
<1>3. Tail(<<e>> \o q) = q
  <2>1. Tail(<<e>> \o q) \in Seq(S) /\ Len(Tail(<<e>> \o q)) = Len(q)
    BY <1>1, <1>2, HeadAndTail
  <2>2. \A i \in 1..Len(q) : Tail(<<e>> \o q)[i] = q[i]
    BY <1>1, <1>2, <2>1, HeadAndTail
  <2>. QED  BY <2>1, <2>2, SeqEqual
<1>. QED  BY <1>1, <1>2, <1>3, HeadAndTail

LEMMA NoneLeft == \A S : <<>> \in Seq(S) /\ Range(<<>>) = {} /\ Len(<<>>) = 0
<1>1. DOMAIN <<>> = {}
  OBVIOUS
<1>. QED  BY <1>1, EmptySeq DEF Range

LEMMA InRange == ASSUME NEW S, NEW q \in Seq(S)
                 PROVE  /\ \A i \in 1..Len(q) : q[i] \in Range(q)
                        /\ \A x \in Range(q) : x \in S /\ \E i \in 1..Len(q) : x = q[i]
BY DEF Range

(***************************************************************************)
(* The types.                                                              *)
(***************************************************************************)
Names == Node \X {"home", "default"}
Devices == [value : {0, 1}, area : Node \cup {None}]
Registries == UNION {[S -> Devices] : S \in SUBSET Names}
Entries == [node : Node, value : {0, 1}, stale : BOOLEAN]
Requests == [kind : {"listen"}, of : {"open"} \cup Session] \cup [kind : {"commission"}, of : Session]
            \cup [kind : {"remove", "command"}, of : Node]
Listings == Seq([node : Node, value : {0, 1}, stale : {FALSE}])
Events == [type : {"node", "attribute", "removed"}, node : Node, value : {0, 1}, req : {Request("event", None)}, ok : {TRUE}, nodes : {<<>>}]
Replies == {m \in [type : {"reply"}, node : {None}, value : {0}, req : Requests, ok : BOOLEAN, nodes : Listings] :
              m.nodes # <<>> => m.ok /\ m.req.kind = "listen"}
Messages == Events \cup Replies
Wires == [phase : {"none", "connecting", "open", "closing", "lost"}, inbox : Seq(Messages), listening : BOOLEAN]
Bridges == [url : BOOLEAN, stopped : BOOLEAN, connected : BOOLEAN, socket : 0..MaxSockets, timers : Nat, allow : BOOLEAN]
JobStates == {x \in [on : BOOLEAN, allow : BOOLEAN, todo : Seq(Entries), saving : BOOLEAN] : x.saving => x.todo # <<>>}
SessionStates == [pc : {"idle", "commissioning", "refreshing", "done"},
                  stage : {"commissioning", "waiting_for_device", "failed", "needs_setup", "complete"},
                  node : Node \cup {None}, device : Node \cup {None}, base : SUBSET Node, kept : BOOLEAN]
Servers == [up : BOOLEAN, nodes : SUBSET Node, value : [Node -> {0, 1}], asked : SUBSET [req : Requests, socket : 0..MaxSockets]]
Threads == [configured : BOOLEAN, select : {"idle", "starting"}, remove : {"idle", "stopping", "clearing"}]
Histories == [overtaken : SUBSET Node, missed : SUBSET Node, strange : BOOLEAN, unheard : BOOLEAN, overlap : BOOLEAN]

(* A session that asked for a commissioning knows of which device. *)
Asking(asked, all) == \A a \in asked : a.req.kind = "commission" => all[a.req.of].node \in Node

HubTypes ==
  /\ home \in Registries /\ bridge \in Bridges
  /\ pending \subseteq [req : Requests, socket : Socket]
  /\ jobs \in [Jobs -> JobStates] /\ sessions \in [Session -> SessionStates]
  /\ saving \subseteq Node /\ removing \subseteq Node
OtherTypes ==
  /\ wires \in [Socket -> Wires] /\ server \in Servers /\ thread \in Threads
  /\ budget \in [Kinds -> Nat] /\ hist \in Histories
Linked ==
  /\ \A s \in Socket : wires[s].phase # "none" => bridge.socket # 0
  /\ Asking(server.asked, sessions)
TypeOK == HubTypes /\ OtherTypes /\ Linked

(***************************************************************************)
(* The registry.                                                           *)
(***************************************************************************)
One(f) == \A r, q \in DOMAIN f : r[1] = q[1] => r = q

LEMMA RegistryOf == \A S \in SUBSET Names : \A f \in [S -> Devices] : f \in Registries /\ DOMAIN f = S
BY DEF Registries

LEMMA OfRegistry == \A f \in Registries : DOMAIN f \subseteq Names /\ f \in [DOMAIN f -> Devices]
BY DEF Registries

LEMMA NamesAre ==
  /\ \A n \in Node : Named(n) \in Names /\ Unnamed(n) \in Names /\ Named(n)[1] = n /\ Unnamed(n)[1] = n
  /\ \A r \in Names : r[1] \in Node
BY DEF Names, Named, Unnamed

LEMMA KnownAre == ASSUME home \in Registries PROVE Known \subseteq Node
BY OfRegistry, NamesAre DEF Known

LEMMA PutTypes ==
  ASSUME NEW f \in Registries, NEW r \in Names, NEW x \in Devices
  PROVE  /\ Put(f, r, x) \in Registries /\ DOMAIN Put(f, r, x) = DOMAIN f \cup {r}
         /\ Put(f, r, x)[r] = x /\ \A q \in DOMAIN f : q # r => Put(f, r, x)[q] = f[q]
<1>1. DOMAIN f \subseteq Names /\ \A q \in DOMAIN f : f[q] \in Devices
  BY OfRegistry
<1>2. Put(f, r, x) \in [DOMAIN f \cup {r} -> Devices]
  BY <1>1 DEF Put
<1>. QED  BY <1>1, <1>2, RegistryOf DEF Put

LEMMA WithoutTypes ==
  ASSUME NEW f \in Registries, NEW S
  PROVE  /\ Without(f, S) \in Registries /\ DOMAIN Without(f, S) = DOMAIN f \ S
         /\ \A q \in DOMAIN f \ S : Without(f, S)[q] = f[q]
<1>1. DOMAIN f \subseteq Names /\ \A q \in DOMAIN f : f[q] \in Devices
  BY OfRegistry
<1>2. Without(f, S) \in [DOMAIN f \ S -> Devices]
  BY <1>1 DEF Without, Restrict
<1>. QED  BY <1>1, <1>2, RegistryOf DEF Without, Restrict

(* What an update of a device's record does: it may make or remove the     *)
(* record, or change it, but leaves all others as they were, and a device  *)
(* does not get a second one.                                              *)
Updates(f, n) ==
  /\ f \in Registries
  /\ One(home) => One(f)
  /\ \A r \in DOMAIN f : r[1] # n => r \in DOMAIN home /\ f[r] = home[r]

LEMMA RecordsAre == \A n \in Node : \A r : r \in Records(n) <=> r \in DOMAIN home /\ r[1] = n
BY DEF Records

LEMMA WithoutUpdates ==
  ASSUME home \in Registries, NEW n \in Node
  PROVE  /\ Updates(Without(home, Records(n)), n)
         /\ \A r \in DOMAIN Without(home, Records(n)) : r[1] # n
<1> DEFINE f == Without(home, Records(n))
<1>1. f \in Registries /\ DOMAIN f = DOMAIN home \ Records(n) /\ \A q \in DOMAIN home \ Records(n) : f[q] = home[q]
  BY WithoutTypes
<1> HIDE DEF f
<1>2. \A r \in DOMAIN f : r \in DOMAIN home /\ r[1] # n /\ f[r] = home[r]
  BY <1>1, RecordsAre
<1>3. Updates(f, n)
  BY <1>1, <1>2 DEF Updates, One
<1>. QED  BY <1>2, <1>3 DEF f

LEMMA IngestedUpdates ==
  ASSUME home \in Registries, NEW n \in Node, NEW v \in {0, 1}, NEW allow
  PROVE  /\ Updates(Ingested(n, v, allow), n)
         /\ \A r \in DOMAIN Ingested(n, v, allow) : r[1] = n => Ingested(n, v, allow)[r].value = v
<1>1. CASE Records(n) = {} /\ ~allow
  <2>1. Ingested(n, v, allow) = home
    BY <1>1 DEF Ingested
  <2>. QED  BY <1>1, <2>1, RecordsAre DEF Updates
<1>2. CASE ~(Records(n) = {} /\ ~allow)
  <2> DEFINE area == IF Records(n) = {} THEN None ELSE home[CHOOSE r \in Records(n) : TRUE].area
             rest == Without(home, Records(n))
             x == [value |-> v, area |-> area]
  <2>1. Ingested(n, v, allow) = Put(rest, Named(n), x)
    BY <1>2 DEF Ingested
  <2>2. area \in Node \cup {None}
    BY OfRegistry, RecordsAre DEF Devices
  <2>3. x \in Devices /\ x.value = v
    BY <2>2 DEF Devices
  <2>4. /\ rest \in Registries /\ \A r \in DOMAIN rest : r[1] # n /\ r \in DOMAIN home /\ rest[r] = home[r]
    BY WithoutUpdates, WithoutTypes DEF Updates
  <2>5. Named(n) \in Names /\ Named(n)[1] = n
    BY NamesAre
  <2> HIDE DEF x, rest
  <2>6. /\ Put(rest, Named(n), x) \in Registries /\ DOMAIN Put(rest, Named(n), x) = DOMAIN rest \cup {Named(n)}
        /\ Put(rest, Named(n), x)[Named(n)] = x /\ \A q \in DOMAIN rest : q # Named(n) => Put(rest, Named(n), x)[q] = rest[q]
    BY <2>3, <2>4, <2>5, PutTypes
  <2>. QED  BY <2>1, <2>3, <2>4, <2>5, <2>6 DEF Updates, One
<1>. QED  BY <1>1, <1>2

LEMMA AttributedUpdates ==
  ASSUME home \in Registries, NEW n \in Node, NEW v \in {0, 1}, bridge \in Bridges
  PROVE  /\ Updates(Attributed(n, v), n)
         /\ One(home) => \A r \in DOMAIN Attributed(n, v) : r[1] = n => Attributed(n, v)[r].value = v
<1>1. CASE Records(n) # {}
  <2> DEFINE q == CHOOSE r \in Records(n) : TRUE
             f == [home EXCEPT ![q].value = v]
  <2>1. q \in DOMAIN home /\ q[1] = n
    BY <1>1, RecordsAre
  <2>2. Attributed(n, v) = f
    BY <1>1 DEF Attributed
  <2> HIDE DEF q
  <2>3. home \in [DOMAIN home -> Devices] /\ DOMAIN home \subseteq Names
    BY OfRegistry
  <2>4. f \in [DOMAIN home -> Devices] /\ f[q].value = v /\ \A r \in DOMAIN home : r # q => f[r] = home[r]
    BY <2>1, <2>3 DEF Devices
  <2> HIDE DEF f
  <2>. QED  BY <2>1, <2>2, <2>3, <2>4, RegistryOf DEF Updates, One
<1>2. CASE Records(n) = {} /\ bridge.allow
  <2> DEFINE x == [value |-> v, area |-> None]
  <2>1. Attributed(n, v) = Put(home, Unnamed(n), x)
    BY <1>2 DEF Attributed
  <2>2. x \in Devices /\ x.value = v
    BY DEF Devices
  <2> HIDE DEF x
  <2>0. Unnamed(n) \in Names /\ Unnamed(n)[1] = n
    BY NamesAre
  <2>3. /\ Put(home, Unnamed(n), x) \in Registries /\ DOMAIN Put(home, Unnamed(n), x) = DOMAIN home \cup {Unnamed(n)}
        /\ Put(home, Unnamed(n), x)[Unnamed(n)] = x
        /\ \A q \in DOMAIN home : q # Unnamed(n) => Put(home, Unnamed(n), x)[q] = home[q]
    BY <2>0, <2>2, PutTypes
  <2>4. \A r \in DOMAIN home : r[1] # n
    BY <1>2, RecordsAre
  <2>. QED  BY <2>0, <2>1, <2>2, <2>3, <2>4 DEF Updates, One
<1>3. CASE Records(n) = {} /\ ~bridge.allow
  <2>1. Attributed(n, v) = home
    BY <1>3 DEF Attributed
  <2>. QED  BY <1>3, <2>1, RecordsAre DEF Updates
<1>. QED  BY <1>1, <1>2, <1>3

(***************************************************************************)
(* Messages and connections.  What a connection will still bring about a   *)
(* device ends with the state the server has now.                          *)
(***************************************************************************)
Tells(m, n, N, V) ==
  /\ m.type \in {"node", "attribute"} => n \in N /\ m.value = V[n]
  /\ m.type = "removed" => n \notin N
  /\ \A e \in Range(m.nodes) : e.node = n => n \in N /\ e.value = V[n]

Correct(q, N, V) ==
  \A i \in 1..Len(q) : \A n \in About(q[i]) :
    (\A k \in (i + 1)..Len(q) : n \notin About(q[k])) => Tells(q[i], n, N, V)

Sound(w, N, V) ==
  \A s \in Socket :
    /\ w[s].phase \notin {"open", "closing"} => w[s].inbox = <<>> /\ ~w[s].listening
    /\ ~w[s].listening => \A m \in Range(w[s].inbox) : About(m) = {}
    /\ Correct(w[s].inbox, N, V)

LEMMA EventsAre == \A e \in Events : e \in Messages /\ About(e) = {e.node} /\ e.node \in Node /\ e.nodes = <<>> /\ Range(e.nodes) = {}
<1>1. ASSUME NEW e \in Events  PROVE e \in Messages /\ e.node \in Node /\ e.nodes = <<>>
  BY DEF Events, Messages
<1>. QED  BY <1>1, NoneLeft DEF About

LEMMA RepliesAre ==
  \A m \in Replies : /\ m \in Messages /\ m.type = "reply" /\ m.req \in Requests /\ m.nodes \in Listings
                     /\ About(m) = {e.node : e \in Range(m.nodes)}
                     /\ m.nodes = <<>> => About(m) = {} /\ Range(m.nodes) = {}
                     /\ m.nodes # <<>> => m.ok /\ m.req.kind = "listen"
<1>1. ASSUME NEW m \in Replies
      PROVE  m \in Messages /\ m.type = "reply" /\ m.req \in Requests /\ m.nodes \in Listings /\ m.node = None
             /\ (m.nodes # <<>> => m.ok /\ m.req.kind = "listen")
  BY DEF Replies, Messages
<1>2. ASSUME NEW m \in Replies  PROVE \A e \in Range(m.nodes) : e.node \in Node
  <2> DEFINE E == [node : Node, value : {0, 1}, stale : {FALSE}]
  <2>1. m.nodes \in Seq(E)
    BY <1>1 DEF Listings
  <2>2. \A e \in E : e.node \in Node
    OBVIOUS
  <2> HIDE DEF E
  <2>. QED  BY <2>1, <2>2, InRange
<1>3. \A m \in Replies : About(m) = {e.node : e \in Range(m.nodes)}
  BY <1>1, <1>2, MatterAssumption DEF About
<1>. QED  BY <1>1, <1>3, NoneLeft

LEMMA MessagesAre == \A m \in Messages : (m.type = "reply" => m \in Replies) /\ (m.type # "reply" => m \in Events)
BY DEF Messages, Events, Replies

LEMMA EventIs ==
  ASSUME NEW kind \in {"node", "attribute", "removed"}, NEW n \in Node, NEW v \in {0, 1}
  PROVE  /\ Event(kind, n, v) \in Events /\ Event(kind, n, v).node = n /\ Event(kind, n, v).type = kind /\ Event(kind, n, v).value = v
BY DEF Event, Events

LEMMA ReplyIs ==
  ASSUME NEW r \in Requests, NEW ok \in BOOLEAN, NEW nodes \in Listings, nodes # <<>> => ok /\ r.kind = "listen"
  PROVE  Reply(r, ok, nodes) \in Replies /\ Reply(r, ok, nodes).nodes = nodes /\ Reply(r, ok, nodes).type = "reply"
BY DEF Reply, Replies

LEMMA UnreadAre ==
  \A n, w : n \in Unread(w) <=> n \in Node /\ \E s \in DOMAIN w : \E m \in Range(w[s].inbox) : n \in About(m)
BY DEF Unread, About

LEMMA BroughtAre ==
  \A n, w : n \in Brought(w) <=> n \in Node /\ \E s \in Socket : \E m \in Range(w[s].inbox) : m.type # "removed" /\ n \in About(m)
BY DEF Brought, About

LEMMA CorrectAppend ==
  ASSUME NEW q \in Seq(Messages), NEW m \in Messages, NEW N, NEW V, NEW N2, NEW V2,
         Correct(q, N, V),
         \A n \in Node \ About(m) : (n \in N <=> n \in N2) /\ V[n] = V2[n],
         \A n \in About(m) : Tells(m, n, N2, V2)
  PROVE  Correct(Append(q, m), N2, V2)
<1> DEFINE p == Append(q, m)
<1>1. /\ Len(p) = Len(q) + 1 /\ Len(q) \in Nat /\ p[Len(q) + 1] = m
      /\ \A i \in 1..Len(q) : p[i] = q[i]
  BY Appended
<1> HIDE DEF p
<1> SUFFICES ASSUME NEW i \in 1..Len(p), NEW n \in About(p[i]), \A k \in (i + 1)..Len(p) : n \notin About(p[k])
             PROVE  Tells(p[i], n, N2, V2)
  BY DEF Correct, p
<1>2. CASE i = Len(q) + 1
  BY <1>1, <1>2
<1>3. CASE i \in 1..Len(q)
  <2>1. n \in Node /\ p[i] = q[i]
    BY <1>1, <1>3 DEF About
  <2>2. n \notin About(m)
    BY <1>1, <1>3
  <2>3. \A k \in (i + 1)..Len(q) : k \in (i + 1)..Len(p) /\ p[k] = q[k]
    BY <1>1, <1>3
  <2>4. Tells(q[i], n, N, V)
    BY <1>3, <2>1, <2>3 DEF Correct
  <2>. QED  BY <2>1, <2>2, <2>4 DEF Tells
<1>. QED  BY <1>1, <1>2, <1>3

LEMMA CorrectTail ==
  ASSUME NEW q \in Seq(Messages), q # <<>>, NEW N, NEW V, Correct(q, N, V)
  PROVE  /\ Correct(Tail(q), N, V)
         /\ \A n \in About(Head(q)) : (\A m \in Range(Tail(q)) : n \notin About(m)) => Tells(Head(q), n, N, V)
<1> DEFINE p == Tail(q)
<1>1. /\ p \in Seq(Messages) /\ Head(q) = q[1] /\ Len(q) \in Nat \ {0} /\ Len(p) = Len(q) - 1
      /\ \A i \in 1..Len(p) : p[i] = q[i + 1]
  BY HeadAndTail
<1> HIDE DEF p
<1>2. ASSUME NEW i \in 1..Len(p), NEW n \in About(p[i]), \A k \in (i + 1)..Len(p) : n \notin About(p[k])
      PROVE  Tells(p[i], n, N, V)
  <2>1. i + 1 \in 1..Len(q) /\ p[i] = q[i + 1]
    BY <1>1
  <2>2. \A k \in ((i + 1) + 1)..Len(q) : n \notin About(q[k])
    <3>1. ASSUME NEW k \in ((i + 1) + 1)..Len(q)  PROVE n \notin About(q[k])
      <4>1. k - 1 \in (i + 1)..Len(p) /\ k - 1 \in 1..Len(p) /\ p[k - 1] = q[(k - 1) + 1]
        BY <1>1, <3>1
      <4>. QED  BY <1>2, <4>1
    <3>. QED  BY <3>1
  <2>. QED  BY <1>2, <2>1, <2>2 DEF Correct
<1>3. ASSUME NEW n \in About(Head(q)), \A m \in Range(p) : n \notin About(m)
      PROVE  Tells(Head(q), n, N, V)
  <2>1. \A k \in (1 + 1)..Len(q) : n \notin About(q[k])
    <3>1. ASSUME NEW k \in 2..Len(q)  PROVE n \notin About(q[k])
      <4>1. k - 1 \in 1..Len(p) /\ p[k - 1] = q[(k - 1) + 1]
        BY <1>1, <3>1
      <4>. QED  BY <1>1, <1>3, <4>1, InRange
    <3>. QED  BY <3>1
  <2>2. 1 \in 1..Len(q)
    BY <1>1
  <2>. QED  BY <1>1, <1>3, <2>1, <2>2 DEF Correct
<1>. QED  BY <1>2, <1>3 DEF Correct, p

LEMMA CorrectEmpty == \A N, V : Correct(<<>>, N, V)
BY NoneLeft DEF Correct

(* Connections on which a message is sent, or none.                        *)
Sends(w, u, m) ==
  /\ u \in [Socket -> Wires]
  /\ \A s \in Socket :
       /\ u[s].phase = w[s].phase /\ u[s].listening = w[s].listening
       /\ u[s].inbox = w[s].inbox \/ (Live(w, s) /\ u[s].inbox = Append(w[s].inbox, m))

LEMMA ToldSends ==
  ASSUME NEW w \in [Socket -> Wires], NEW e \in Messages
  PROVE  /\ Sends(w, Tell(w, e), e)
         /\ \A s \in Socket : /\ w[s].listening /\ Live(w, s) => Tell(w, e)[s].inbox = Append(w[s].inbox, e)
                              /\ ~w[s].listening => Tell(w, e)[s].inbox = w[s].inbox
<1>1. \A s \in Socket : Tell(w, e)[s] = IF Hears(w, s) THEN [w[s] EXCEPT !.inbox = Append(@, e)] ELSE w[s]
  BY DEF Tell
<1>2. \A s \in Socket : w[s] \in Wires /\ Append(w[s].inbox, e) \in Seq(Messages)
  BY Appended DEF Wires
<1>3. \A s \in Socket : Tell(w, e)[s] \in Wires
  BY <1>1, <1>2 DEF Wires
<1>4. Tell(w, e) \in [Socket -> Wires]
  BY <1>3 DEF Tell
<1>5. ASSUME NEW s \in Socket
      PROVE  /\ Tell(w, e)[s].phase = w[s].phase /\ Tell(w, e)[s].listening = w[s].listening
             /\ Tell(w, e)[s].inbox = IF Hears(w, s) THEN Append(w[s].inbox, e) ELSE w[s].inbox
  BY <1>1, <1>2 DEF Wires
<1>. QED  BY <1>4, <1>5 DEF Sends, Hears

LEMMA AnswerSends ==
  ASSUME NEW w \in [Socket -> Wires], NEW s, NEW m \in Messages
  PROVE  /\ Sends(w, Answer(w, s, m), m)
         /\ \A x \in Socket : x # s => Answer(w, s, m)[x].inbox = w[x].inbox
         /\ Live(w, s) => Answer(w, s, m)[s].inbox = Append(w[s].inbox, m)
<1>1. CASE Live(w, s)
  <2>1. s \in Socket /\ Answer(w, s, m) = [w EXCEPT ![s].inbox = Append(@, m)]
    BY <1>1 DEF Live, Answer
  <2>2. w[s] \in Wires /\ Append(w[s].inbox, m) \in Seq(Messages)
    BY <2>1, Appended DEF Wires
  <2> DEFINE x == [w[s] EXCEPT !.inbox = Append(@, m)]
  <2>5. x \in Wires /\ x.phase = w[s].phase /\ x.listening = w[s].listening /\ x.inbox = Append(w[s].inbox, m)
    BY <2>2 DEF Wires
  <2>6. Answer(w, s, m) = [w EXCEPT ![s] = x]
    BY <2>1
  <2> HIDE DEF x
  <2>3. /\ Answer(w, s, m) \in [Socket -> Wires]
        /\ Answer(w, s, m)[s].phase = w[s].phase /\ Answer(w, s, m)[s].listening = w[s].listening
        /\ Answer(w, s, m)[s].inbox = Append(w[s].inbox, m)
    BY <2>1, <2>5, <2>6
  <2>4. \A o \in Socket : o # s => Answer(w, s, m)[o] = w[o]
    BY <2>1
  <2>. QED  BY <1>1, <2>1, <2>3, <2>4 DEF Sends
<1>2. CASE ~Live(w, s)
  BY <1>2 DEF Sends, Answer
<1>. QED  BY <1>1, <1>2

(* Sending keeps the connections sound when the message says what is true  *)
(* and everybody who listens gets it, unless it is about nothing.          *)
LEMMA SendsSound ==
  ASSUME NEW w \in [Socket -> Wires], NEW u, NEW m \in Messages, Sends(w, u, m),
         NEW N, NEW V, NEW N2, NEW V2, Sound(w, N, V),
         \A n \in Node \ About(m) : (n \in N <=> n \in N2) /\ V[n] = V2[n],
         \A n \in About(m) : Tells(m, n, N2, V2),
         \/ N2 = N /\ V2 = V
         \/ \A s \in Socket : w[s].listening => u[s].inbox = Append(w[s].inbox, m),
         \A s \in Socket : ~w[s].listening => About(m) = {} \/ u[s].inbox = w[s].inbox
  PROVE  Sound(u, N2, V2)
<1> SUFFICES ASSUME NEW s \in Socket
             PROVE  /\ u[s].phase \notin {"open", "closing"} => u[s].inbox = <<>> /\ ~u[s].listening
                    /\ ~u[s].listening => \A x \in Range(u[s].inbox) : About(x) = {}
                    /\ Correct(u[s].inbox, N2, V2)
  BY DEF Sound
<1>1. /\ u[s].phase = w[s].phase /\ u[s].listening = w[s].listening
      /\ u[s].inbox = w[s].inbox \/ (Live(w, s) /\ u[s].inbox = Append(w[s].inbox, m))
  BY DEF Sends
<1>2. /\ w[s].phase \notin {"open", "closing"} => w[s].inbox = <<>> /\ ~w[s].listening
      /\ ~w[s].listening => \A x \in Range(w[s].inbox) : About(x) = {}
      /\ Correct(w[s].inbox, N, V)
  BY DEF Sound
<1>3. w[s].inbox \in Seq(Messages) /\ w[s].listening \in BOOLEAN
  BY DEF Wires
<1>4. u[s].phase \notin {"open", "closing"} => u[s].inbox = <<>> /\ ~u[s].listening
  BY <1>1, <1>2 DEF Live
<1>5. ~u[s].listening => \A x \in Range(u[s].inbox) : About(x) = {}
  <2> SUFFICES ASSUME ~u[s].listening, NEW x \in Range(u[s].inbox)  PROVE About(x) = {}
    OBVIOUS
  <2>0. w[s].listening = FALSE /\ \A y \in Range(w[s].inbox) : About(y) = {}
    BY <1>1, <1>2, <1>3
  <2>1. CASE u[s].inbox = w[s].inbox
    BY <2>0, <2>1
  <2>2. CASE u[s].inbox # w[s].inbox
    <3>1. About(m) = {} /\ u[s].inbox = Append(w[s].inbox, m)
      BY <1>1, <2>0, <2>2
    <3>2. Range(u[s].inbox) = Range(w[s].inbox) \cup {m}
      BY <1>3, <3>1, Appended
    <3>. QED  BY <2>0, <3>1, <3>2
  <2>. QED  BY <2>1, <2>2
<1>6. Correct(u[s].inbox, N2, V2)
  <2>1. CASE u[s].inbox = Append(w[s].inbox, m)
    BY <1>2, <1>3, <2>1, CorrectAppend
  <2>2. CASE u[s].inbox = w[s].inbox /\ N2 = N /\ V2 = V
    BY <1>2, <2>2
  <2>3. CASE u[s].inbox = w[s].inbox /\ ~w[s].listening
    <3>1. \A i \in 1..Len(w[s].inbox) : About(w[s].inbox[i]) = {}
      BY <1>2, <1>3, <2>3, InRange
    <3>. QED  BY <2>3, <3>1 DEF Correct
  <2>. QED  BY <1>1, <2>1, <2>2, <2>3
<1>. QED  BY <1>4, <1>5, <1>6

LEMMA SendsUnread ==
  ASSUME NEW w \in [Socket -> Wires], NEW u, NEW m \in Messages, Sends(w, u, m)
  PROVE  /\ Unread(w) \subseteq Unread(u)
         /\ (\E s \in Socket : u[s].inbox = Append(w[s].inbox, m)) => About(m) \subseteq Unread(u)
         /\ Brought(u) \subseteq Brought(w) \cup (IF m.type = "removed" THEN {} ELSE About(m))
         /\ \A s \in Socket : w[s].inbox # <<>> => u[s].inbox # <<>>
<1>1. DOMAIN u = Socket /\ DOMAIN w = Socket
  BY DEF Sends
<1>2. ASSUME NEW s \in Socket
      PROVE  /\ Range(w[s].inbox) \subseteq Range(u[s].inbox) /\ Range(u[s].inbox) \subseteq Range(w[s].inbox) \cup {m}
             /\ u[s].inbox = Append(w[s].inbox, m) => m \in Range(u[s].inbox)
             /\ w[s].inbox # <<>> => u[s].inbox # <<>>
  <2>1. w[s].inbox \in Seq(Messages) /\ (u[s].inbox = w[s].inbox \/ u[s].inbox = Append(w[s].inbox, m))
    BY DEF Sends, Wires
  <2>2. /\ Range(Append(w[s].inbox, m)) = Range(w[s].inbox) \cup {m} /\ Append(w[s].inbox, m) # <<>>
    BY <2>1, Appended
  <2>. QED  BY <2>1, <2>2
<1>3. Unread(w) \subseteq Unread(u)
  BY <1>1, <1>2, UnreadAre
<1>4. (\E s \in Socket : u[s].inbox = Append(w[s].inbox, m)) => About(m) \subseteq Unread(u)
  BY <1>1, <1>2, UnreadAre DEF About
<1>5. Brought(u) \subseteq Brought(w) \cup (IF m.type = "removed" THEN {} ELSE About(m))
  BY <1>2, BroughtAre
<1>. QED  BY <1>2, <1>3, <1>4, <1>5

(* Connections that are only closed, broken or opened anew.                *)
Cuts(w, u) ==
  /\ u \in [Socket -> Wires]
  /\ \A s \in Socket : /\ u[s].inbox \in {w[s].inbox, <<>>} /\ u[s].listening \in {w[s].listening, FALSE}
                       /\ u[s].phase \notin {"open", "closing"} => u[s].inbox = <<>> /\ ~u[s].listening
                       /\ u[s].listening = w[s].listening \/ u[s].inbox = <<>>

LEMMA CutsSound ==
  ASSUME NEW w, NEW u, Cuts(w, u), NEW N, NEW V, Sound(w, N, V)
  PROVE  Sound(u, N, V)
<1> SUFFICES ASSUME NEW s \in Socket
             PROVE  /\ u[s].phase \notin {"open", "closing"} => u[s].inbox = <<>> /\ ~u[s].listening
                    /\ ~u[s].listening => \A m \in Range(u[s].inbox) : About(m) = {}
                    /\ Correct(u[s].inbox, N, V)
  BY DEF Sound
<1>1. u[s].phase \notin {"open", "closing"} => u[s].inbox = <<>> /\ ~u[s].listening
  BY DEF Cuts
<1>2. CASE u[s].inbox = <<>>
  BY <1>1, <1>2, NoneLeft, CorrectEmpty
<1>3. CASE u[s].inbox # <<>>
  <2>1. u[s].inbox = w[s].inbox /\ u[s].listening = w[s].listening
    BY <1>3 DEF Cuts
  <2>. QED  BY <1>1, <2>1 DEF Sound
<1>. QED  BY <1>2, <1>3

LEMMA CutsUnread ==
  ASSUME NEW w \in [Socket -> Wires], NEW u, Cuts(w, u)
  PROVE  /\ Unread(u) \subseteq Unread(w) /\ Brought(u) \subseteq Brought(w)
         /\ \A s \in Socket : w[s].inbox = <<>> => u[s].inbox = <<>>
         /\ (\A s \in Socket : u[s].inbox = w[s].inbox) => Unread(u) = Unread(w)
<1>1. DOMAIN u = Socket /\ DOMAIN w = Socket
  BY DEF Cuts
<1>2. \A s \in Socket : Range(u[s].inbox) \subseteq Range(w[s].inbox)
  BY NoneLeft DEF Cuts
<1>3. Unread(u) \subseteq Unread(w) /\ Brought(u) \subseteq Brought(w)
  BY <1>1, <1>2, UnreadAre, BroughtAre
<1>4. (\A s \in Socket : u[s].inbox = w[s].inbox) => Unread(u) = Unread(w)
  BY <1>1, <1>3, UnreadAre
<1>. QED  BY <1>3, <1>4 DEF Cuts

(* The listing of the server's nodes: each of them once, with its state.   *)
LEMMA ListedAll ==
  ASSUME server \in Servers
  PROVE  /\ Listed \in Listings
         /\ \A e \in Range(Listed) : e.node \in server.nodes /\ e.value = server.value[e.node]
         /\ \A n \in server.nodes : \E e \in Range(Listed) : e.node = n
         /\ server.nodes = {} <=> Listed = <<>>
<1> DEFINE N == server.nodes
           q == SetToSeq(N)
           c == Cardinality(N)
<1>1. N \subseteq Node /\ \A n \in N : server.value[n] \in {0, 1}
  BY DEF Servers
<1>2. IsFiniteSet(N) /\ c \in Nat
  BY <1>1, FS_Subset, FS_CardinalityType, MatterAssumption
<1>3. q \in [1..c -> N] /\ IsInjective(q)
  <2>1. \E f \in [1..c -> N] : IsInjective(f)
    BY <1>2, FS_CardinalityType DEF ExistsBijection, Bijection, Injection, IsInjective
  <2>. QED  BY <2>1 DEF SetToSeq
<1>4. \A n \in N : \E i \in 1..c : q[i] = n
  <2>1. IsFiniteSet(1..c) /\ Cardinality(1..c) = c
    BY <1>2, FS_Interval
  <2>2. q \in Injection(1..c, N)
    BY <1>3 DEF Injection, IsInjective
  <2>3. q \in Surjection(1..c, N)
    BY <1>2, <2>1, <2>2, FS_Injection
  <2>. QED  BY <2>3 DEF Surjection
<1>5. DOMAIN q = 1..c
  BY <1>3
<1>6. Listed = [i \in 1..c |-> [node |-> q[i], value |-> server.value[q[i]], stale |-> FALSE]]
  BY <1>5 DEF Listed
<1> HIDE DEF q, c
<1> DEFINE E == [node : Node, value : {0, 1}, stale : {FALSE}]
<1>7. \A i \in 1..c : Listed[i] \in E /\ Listed[i].node = q[i] /\ Listed[i].value = server.value[q[i]]
  BY <1>1, <1>3, <1>6
<1>8. Listed \in [1..c -> E] /\ DOMAIN Listed = 1..c
  BY <1>6, <1>7
<1> HIDE DEF E
<1>9. Listed \in Seq(E)
  BY <1>2, <1>8, SeqDef
<1>10. \A e \in Range(Listed) : e.node \in N /\ e.value = server.value[e.node]
  BY <1>3, <1>7, <1>8 DEF Range
<1>11. \A n \in N : \E e \in Range(Listed) : e.node = n
  BY <1>4, <1>7, <1>8 DEF Range
<1>12. N = {} <=> Listed = <<>>
  <2>1. ASSUME Listed = <<>>  PROVE N = {}
    BY <1>11, <2>1, NoneLeft
  <2>2. ASSUME Listed # <<>>  PROVE N # {}
    <3>1. Head(Listed) \in Range(Listed)
      BY <1>9, <2>2, HeadAndTail
    <3>. QED  BY <1>10, <3>1
  <2>. QED  BY <2>1, <2>2
<1>. QED  BY <1>9, <1>10, <1>11, <1>12 DEF Listings, E

(***************************************************************************)
(* Listings being stored.                                                  *)
(***************************************************************************)
Rest(job) == IF job.saving THEN Tail(job.todo) ELSE job.todo
Waiting(job) == Range(Rest(job))

LEMMA MarkedAre ==
  \A e \in Entries, n \in Node :
    /\ Marked(e, n) \in Entries /\ Marked(e, n).node = e.node /\ Marked(e, n).value = e.value
    /\ e.node = n => Marked(e, n).stale
    /\ e.node # n => Marked(e, n) = e
BY DEF Marked, Entries

LEMMA MarkedSequence ==
  ASSUME NEW q \in Seq(Entries), NEW n \in Node
  PROVE  LET p == [i \in DOMAIN q |-> Marked(q[i], n)]
         IN  /\ p \in Seq(Entries) /\ (q # <<>> => p # <<>>) /\ (q = <<>> => p = <<>>)
             /\ \A e \in Range(p) : \E x \in Range(q) : e = Marked(x, n)
             /\ \A x \in Range(q) : Marked(x, n) \in Range(p)
             /\ q # <<>> => Head(p) = Marked(Head(q), n) /\ Tail(p) = [i \in DOMAIN Tail(q) |-> Marked(Tail(q)[i], n)]
<1> DEFINE p == [i \in DOMAIN q |-> Marked(q[i], n)]
<1>1. DOMAIN q = 1..Len(q) /\ Len(q) \in Nat /\ \A i \in 1..Len(q) : q[i] \in Entries
  OBVIOUS
<1>2. p \in [1..Len(q) -> Entries]
  BY <1>1, MarkedAre
<1>3. p \in Seq(Entries) /\ Len(p) = Len(q)
  BY <1>1, <1>2, SeqDef
<1>4. (q # <<>> => p # <<>>) /\ (q = <<>> => p = <<>>)
  BY <1>1, <1>3, EmptySeq
<1>5. /\ \A e \in Range(p) : \E x \in Range(q) : e = Marked(x, n)
      /\ \A x \in Range(q) : Marked(x, n) \in Range(p)
  BY DEF Range
<1>6. ASSUME q # <<>>
      PROVE  Head(p) = Marked(Head(q), n) /\ Tail(p) = [i \in DOMAIN Tail(q) |-> Marked(Tail(q)[i], n)]
  <2> DEFINE t == Tail(q)
             u == [i \in DOMAIN t |-> Marked(t[i], n)]
  <2>1. /\ Head(q) = q[1] /\ t \in Seq(Entries) /\ Len(q) \in Nat \ {0} /\ Len(t) = Len(q) - 1
        /\ \A i \in 1..Len(t) : t[i] = q[i + 1]
    BY <1>6, HeadAndTail
  <2>2. /\ Head(p) = p[1] /\ Tail(p) \in Seq(Entries) /\ Len(Tail(p)) = Len(q) - 1
        /\ \A i \in 1..Len(Tail(p)) : Tail(p)[i] = p[i + 1]
    BY <1>3, <1>4, <1>6, HeadAndTail
  <2>3. DOMAIN t = 1..Len(t) /\ DOMAIN Tail(p) = 1..Len(t) /\ 1 \in DOMAIN q
    BY <1>1, <2>1, <2>2
  <2>4. \A i \in 1..Len(t) : Tail(p)[i] = u[i]
    <3>1. ASSUME NEW i \in 1..Len(t)  PROVE Tail(p)[i] = u[i]
      <4>1. i + 1 \in DOMAIN q /\ Tail(p)[i] = p[i + 1]
        BY <1>1, <2>1, <2>2
      <4>. QED  BY <2>1, <2>3, <4>1
    <3>. QED  BY <3>1
  <2>5. u \in Seq(Entries) /\ Len(u) = Len(t)
    <3>1. u \in [1..Len(t) -> Entries]
      BY <2>1, <2>3, MarkedAre
    <3>. QED  BY <2>1, <3>1, SeqDef
  <2>6. u = Tail(p)
    BY <2>1, <2>2, <2>4, <2>5, SeqEqual
  <2>. QED  BY <2>1, <2>2, <2>3, <2>6
<1>. QED  BY <1>3, <1>4, <1>5, <1>6

(* What a job still has to store, after an event or entry that overtook    *)
(* it.                                                                     *)
LEMMA OvertakesIs ==
  ASSUME NEW all \in [Jobs -> JobStates], NEW n \in Node
  PROVE  /\ Overtakes(n, all) \in [Jobs -> JobStates]
         /\ \A j \in Jobs : LET x == Overtakes(n, all)[j]
                             IN /\ x.on = all[j].on /\ x.allow = all[j].allow /\ x.saving = all[j].saving
                                /\ x.todo = [i \in DOMAIN all[j].todo |-> Marked(all[j].todo[i], n)]
                                /\ x.todo \in Seq(Entries) /\ (x.todo = <<>> <=> all[j].todo = <<>>)
<1> SUFFICES ASSUME NEW j \in Jobs
             PROVE  LET x == Overtakes(n, all)[j]
                    IN /\ x \in JobStates
                       /\ x.on = all[j].on /\ x.allow = all[j].allow /\ x.saving = all[j].saving
                       /\ x.todo = [i \in DOMAIN all[j].todo |-> Marked(all[j].todo[i], n)]
                       /\ x.todo \in Seq(Entries) /\ (x.todo = <<>> <=> all[j].todo = <<>>)
  BY DEF Overtakes
<1> DEFINE p == [i \in DOMAIN all[j].todo |-> Marked(all[j].todo[i], n)]
<1>1. Overtakes(n, all)[j] = [all[j] EXCEPT !.todo = p]
  BY DEF Overtakes
<1>2. all[j].todo \in Seq(Entries)
  BY DEF JobStates
<1>3. p \in Seq(Entries) /\ (p = <<>> <=> all[j].todo = <<>>)
  BY <1>2, MarkedSequence
<1> HIDE DEF p
<1>. QED  BY <1>1, <1>3 DEF JobStates, p

LEMMA OvertakesWaiting ==
  ASSUME NEW all \in [Jobs -> JobStates], NEW n \in Node, NEW j \in Jobs
  PROVE  /\ \A e \in Waiting(Overtakes(n, all)[j]) : \E x \in Waiting(all[j]) : e = Marked(x, n)
         /\ \A x \in Waiting(all[j]) : Marked(x, n) \in Waiting(Overtakes(n, all)[j])
<1> DEFINE q == all[j].todo
           p == [i \in DOMAIN q |-> Marked(q[i], n)]
<1>1. q \in Seq(Entries) /\ (q # <<>> => Tail(q) \in Seq(Entries))
  BY DEF JobStates
<1>2. Overtakes(n, all)[j].todo = p /\ Overtakes(n, all)[j].saving = all[j].saving
  BY OvertakesIs
<1>3. /\ \A e \in Range(p) : \E x \in Range(q) : e = Marked(x, n)
      /\ \A x \in Range(q) : Marked(x, n) \in Range(p)
      /\ q # <<>> => Tail(p) = [i \in DOMAIN Tail(q) |-> Marked(Tail(q)[i], n)]
  BY <1>1, MarkedSequence
<1>4. CASE all[j].saving
  <2> DEFINE t == Tail(q)
             u == [i \in DOMAIN t |-> Marked(t[i], n)]
  <2>1. q # <<>> /\ t \in Seq(Entries)
    BY <1>1, <1>4 DEF JobStates
  <2> HIDE DEF t
  <2>2. /\ \A e \in Range(u) : \E x \in Range(t) : e = Marked(x, n)
        /\ \A x \in Range(t) : Marked(x, n) \in Range(u)
    BY <2>1, MarkedSequence
  <2>3. Waiting(all[j]) = Range(t) /\ Waiting(Overtakes(n, all)[j]) = Range(u)
    BY <1>2, <1>3, <1>4, <2>1 DEF Waiting, Rest, t
  <2>. QED  BY <2>2, <2>3
<1>5. CASE ~all[j].saving
  BY <1>2, <1>3, <1>5 DEF Waiting, Rest
<1>. QED  BY <1>4, <1>5

LEMMA WaitingAre ==
  ASSUME NEW x \in JobStates
  PROVE  /\ Rest(x) \in Seq(Entries) /\ Waiting(x) \subseteq Range(x.todo) /\ Waiting(x) \subseteq Entries
         /\ x.todo = <<>> => Waiting(x) = {}
         /\ \A e \in Range(x.todo) : e \in Entries
<1>1. x.todo \in Seq(Entries) /\ (x.saving => x.todo # <<>>)
  BY DEF JobStates
<1>2. x.todo # <<>> => Tail(x.todo) \in Seq(Entries) /\ Range(Tail(x.todo)) \subseteq Range(x.todo)
  BY <1>1, HeadAndTail
<1>3. Rest(x) \in Seq(Entries) /\ Waiting(x) \subseteq Range(x.todo)
  BY <1>1, <1>2 DEF Rest, Waiting
<1>4. x.todo = <<>> => Waiting(x) = {}
  BY <1>3, NoneLeft
<1>. QED  BY <1>1, <1>3, <1>4, InRange

(***************************************************************************)
(* Sessions, connections and the server: what an update leaves alone.      *)
(***************************************************************************)
Stages == {"needs_setup", "complete"}

LEMMA FailedIs ==
  ASSUME NEW x \in SessionStates
  PROVE  /\ Failed(x) \in SessionStates /\ Failed(x).pc = "done" /\ Failed(x).stage = "failed"
         /\ Failed(x).node = x.node /\ Failed(x).base = x.base /\ Failed(x).kept = x.kept
BY DEF Failed, SessionStates

LEMMA FinishedIs ==
  ASSUME home \in Registries, NEW x \in SessionStates
  PROVE  /\ Finished(x) \in SessionStates /\ Finished(x).pc = "done" /\ Finished(x).stage # "commissioning"
         /\ Finished(x).node = x.node /\ Finished(x).base = x.base /\ Finished(x).kept = x.kept
         /\ Finished(x).stage \in Stages => Finished(x).device \in Known \ x.base
<1>1. CASE Known \ x.base = {}
  <2>1. Finished(x) = [x EXCEPT !.pc = "done", !.stage = "waiting_for_device"]
    BY <1>1 DEF Finished
  <2>. QED  BY <2>1 DEF SessionStates, Stages
<1>2. CASE Known \ x.base # {}
  <2> DEFINE n == CHOOSE n \in Known \ x.base : TRUE
  <2>1. n \in Known \ x.base /\ n \in Node
    BY <1>2, KnownAre
  <2>2. Finished(x) = [x EXCEPT !.pc = "done", !.device = n, !.stage = Stage(n)]
    BY <1>2 DEF Finished
  <2>3. Stage(n) \in Stages
    BY DEF Stage, Stages
  <2> HIDE DEF n
  <2>. QED  BY <2>1, <2>2, <2>3 DEF SessionStates, Stages
<1>. QED  BY <1>1, <1>2

LEMMA ObservedIs ==
  ASSUME NEW all \in [Session -> SessionStates], NEW n \in Node
  PROVE  /\ Observed(n, all) \in [Session -> SessionStates]
         /\ \A s \in Session :
              LET x == Observed(n, all)[s]
              IN /\ x.pc = all[s].pc /\ x.node = all[s].node /\ x.base = all[s].base /\ x.kept = all[s].kept
                 /\ \/ x = all[s]
                    \/ x.device = n /\ x.stage \in Stages /\ all[s].kept /\ n \notin all[s].base /\ all[s].stage = "commissioning"
<1> SUFFICES ASSUME NEW s \in Session
             PROVE  LET x == Observed(n, all)[s]
                    IN /\ x \in SessionStates /\ x.pc = all[s].pc /\ x.node = all[s].node /\ x.base = all[s].base /\ x.kept = all[s].kept
                       /\ \/ x = all[s]
                          \/ x.device = n /\ x.stage \in Stages /\ all[s].kept /\ n \notin all[s].base /\ all[s].stage = "commissioning"
  BY DEF Observed
<1>1. Stage(n) \in Stages
  BY DEF Stage, Stages
<1>2. CASE all[s].kept /\ all[s].stage = "commissioning" /\ n \notin all[s].base
  <2>1. Observed(n, all)[s] = [all[s] EXCEPT !.device = n, !.stage = Stage(n)]
    BY <1>2 DEF Observed
  <2>. DEFINE t == Stage(n)
  <2>2. t \in {"failed", "needs_setup", "complete"} /\ t \in Stages
    BY <1>1 DEF Stages
  <2>. HIDE DEF t
  <2>3. \A x \in SessionStates :
          LET y == [x EXCEPT !.device = n, !.stage = t]
          IN y \in SessionStates /\ y.pc = x.pc /\ y.node = x.node /\ y.base = x.base /\ y.kept = x.kept /\ y.device = n /\ y.stage = t
    BY <2>2 DEF SessionStates
  <2>4. Observed(n, all)[s] = [all[s] EXCEPT !.device = n, !.stage = t]
    BY <2>1 DEF t
  <2>. DEFINE y == [all[s] EXCEPT !.device = n, !.stage = t]
  <2>5. y \in SessionStates /\ y.pc = all[s].pc /\ y.node = all[s].node /\ y.base = all[s].base /\ y.kept = all[s].kept /\ y.device = n /\ y.stage = t
    BY <2>3
  <2>6. Observed(n, all)[s] = y
    BY <2>4
  <2>. HIDE DEF y
  <2>. QED  BY <1>2, <2>2, <2>5, <2>6
<1>3. CASE ~(all[s].kept /\ all[s].stage = "commissioning" /\ n \notin all[s].base)
  <2>1. Observed(n, all)[s] = all[s]
    BY <1>3 DEF Observed
  <2>. QED  BY <2>1
<1>. QED  BY <1>2, <1>3

(* Requests that end without an answer.                                    *)
LEMMA RejectedIs ==
  ASSUME home \in Registries, sessions \in [Session -> SessionStates], removing \subseteq Node, NEW R, Rejected(R)
  PROVE  /\ sessions' \in [Session -> SessionStates] /\ removing' \subseteq Node
         /\ \A s \in Session :
              \/ sessions'[s] = Failed(sessions[s]) /\ \E a \in R : a.req = Request("commission", s)
              \/ sessions'[s] = Finished(sessions[s]) /\ \E a \in R : a.req = Request("listen", s)
              \/ sessions'[s] = sessions[s] /\ \A a \in R : a.req \notin {Request("commission", s), Request("listen", s)}
         /\ \A s \in Session : sessions'[s].node = sessions[s].node
<1>1. \A s \in Session :
        \/ sessions'[s] = Failed(sessions[s]) /\ \E a \in R : a.req = Request("commission", s)
        \/ sessions'[s] = Finished(sessions[s]) /\ \E a \in R : a.req = Request("listen", s)
        \/ sessions'[s] = sessions[s] /\ \A a \in R : a.req \notin {Request("commission", s), Request("listen", s)}
  BY DEF Rejected
<1>2. \A s \in Session : sessions'[s] \in SessionStates /\ sessions'[s].node = sessions[s].node
  <2> SUFFICES ASSUME NEW s \in Session  PROVE sessions'[s] \in SessionStates /\ sessions'[s].node = sessions[s].node
    OBVIOUS
  <2>1. sessions[s] \in SessionStates
    OBVIOUS
  <2>2. sessions'[s] \in {sessions[s], Failed(sessions[s]), Finished(sessions[s])}
    BY <1>1
  <2>. QED  BY <2>1, <2>2, FailedIs, FinishedIs
<1>3. sessions' \in [Session -> SessionStates] /\ removing' \subseteq Node
  BY <1>2 DEF Rejected
<1>. QED  BY <1>1, <1>2, <1>3

LEMMA SpendTypes ==
  ASSUME budget \in [Kinds -> Nat], NEW kind \in Kinds, Spend(kind)
  PROVE  budget' \in [Kinds -> Nat]
BY DEF Spend

LEMMA AnyKind ==
  {"drops", "downs", "urls", "changes", "leaves", "removals", "timeouts", "faults", "assigned", "cancels", "commands", "refreshes", "sessions"} \subseteq Kinds
BY DEF Kinds

LEMMA NewWire == NoWire \in Wires /\ [NoWire EXCEPT !.phase = "connecting"] \in Wires /\ [NoWire EXCEPT !.phase = "lost"] \in Wires
BY NoneLeft DEF NoWire, Wires

(* A new connection takes a place where there is none.                     *)
LEMMA ConnectingIs ==
  ASSUME NEW b \in Bridges, NEW w \in [Socket -> Wires], \E x \in Socket : w[x].phase = "none", Connecting(b, w)
  PROVE  /\ bridge' \in Bridges /\ bridge'.socket # 0 /\ bridge'.url = b.url
         /\ wires' \in [Socket -> Wires]
         /\ \A s \in Socket : wires'[s] = w[s] \/ (w[s].phase = "none" /\ wires'[s] = [NoWire EXCEPT !.phase = "connecting"])
<1> DEFINE s == CHOOSE x \in Socket : w[x].phase = "none"
<1>1. s \in Socket /\ w[s].phase = "none"
  OBVIOUS
<1>2. bridge' = [b EXCEPT !.socket = s] /\ wires' = [w EXCEPT ![s] = [NoWire EXCEPT !.phase = "connecting"]]
  BY DEF Connecting
<1>3. s \in 0..MaxSockets /\ s # 0
  BY <1>1, MatterAssumption DEF Socket
<1> HIDE DEF s
<1>4. bridge' \in Bridges /\ bridge'.socket = s /\ bridge'.url = b.url
  BY <1>2, <1>3 DEF Bridges
<1>. QED  BY <1>1, <1>2, <1>3, <1>4, NewWire

(* The current connection is closed.                                       *)
LEMMA ClosingIs ==
  ASSUME wires \in [Socket -> Wires], bridge \in Bridges
  PROVE  /\ Closing(wires) \in [Socket -> Wires]
         /\ \A s \in Socket : /\ Closing(wires)[s].inbox = wires[s].inbox /\ Closing(wires)[s].listening = wires[s].listening
                              /\ Closing(wires)[s].phase = "none" <=> wires[s].phase = "none"
                              /\ Closing(wires)[s].phase \in {"open", "closing"} <=> wires[s].phase \in {"open", "closing"}
<1>1. CASE bridge.socket = 0
  BY <1>1 DEF Closing
<1>2. CASE bridge.socket # 0
  <2> DEFINE s == bridge.socket
             phase == CASE wires[s].phase = "open" -> "closing" [] wires[s].phase = "connecting" -> "lost" [] OTHER -> wires[s].phase
             x == [wires[s] EXCEPT !.phase = phase]
  <2>1. s \in Socket
    BY <1>2, MatterAssumption DEF Bridges, Socket
  <2>2. Closing(wires) = [wires EXCEPT ![s] = x]
    BY <1>2 DEF Closing
  <2>3. wires[s] \in Wires
    BY <2>1
  <2>4. /\ phase \in {"none", "connecting", "open", "closing", "lost"} /\ (phase = "none" <=> wires[s].phase = "none")
        /\ phase \in {"open", "closing"} <=> wires[s].phase \in {"open", "closing"}
    BY <2>3 DEF Wires
  <2> HIDE DEF phase
  <2>5. x \in Wires /\ x.phase = phase /\ x.inbox = wires[s].inbox /\ x.listening = wires[s].listening
    BY <2>3, <2>4 DEF Wires
  <2> HIDE DEF x, s
  <2>6. /\ Closing(wires) \in [Socket -> Wires] /\ Closing(wires)[s] = x
        /\ \A o \in Socket : o # s => Closing(wires)[o] = wires[o]
    BY <2>1, <2>2, <2>5
  <2>. QED  BY <2>4, <2>5, <2>6
<1>. QED  BY <1>1, <1>2

(* The address is set: the connection there is is closed, a new one        *)
(* begins.                                                                 *)
LEMMA SetUrlIs ==
  ASSUME wires \in [Socket -> Wires], bridge \in Bridges, NEW on \in BOOLEAN, SetUrl(on)
  PROVE  /\ bridge' \in Bridges /\ bridge'.url = on
         /\ wires' \in [Socket -> Wires]
         /\ \A s \in Socket : \/ /\ wires'[s].inbox = wires[s].inbox /\ wires'[s].listening = wires[s].listening
                                 /\ wires'[s].phase \in {"open", "closing"} <=> wires[s].phase \in {"open", "closing"}
                                 /\ wires'[s].phase = "none" <=> wires[s].phase = "none"
                              \/ wires[s].phase = "none" /\ wires'[s] = [NoWire EXCEPT !.phase = "connecting"]
         /\ \/ bridge'.socket = bridge.socket /\ \A s \in Socket : wires'[s].phase = "none" <=> wires[s].phase = "none"
            \/ bridge'.socket # 0
<1>1. CASE on = bridge.url /\ (on => bridge.connected \/ bridge.socket # 0)
  BY <1>1 DEF SetUrl
<1>2. CASE ~(on = bridge.url /\ (on => bridge.connected \/ bridge.socket # 0))
  <2> DEFINE b == [bridge EXCEPT !.url = on, !.stopped = ~on]
             w == Closing(wires)
  <2>1. b \in Bridges /\ b.url = on /\ b.socket = bridge.socket
    BY DEF Bridges
  <2>2. /\ w \in [Socket -> Wires]
        /\ \A s \in Socket : /\ w[s].inbox = wires[s].inbox /\ w[s].listening = wires[s].listening
                             /\ w[s].phase = "none" <=> wires[s].phase = "none"
                             /\ w[s].phase \in {"open", "closing"} <=> wires[s].phase \in {"open", "closing"}
    BY ClosingIs
  <2>3. CASE on
    <3>1. Connecting(b, w) /\ \E s \in Socket : wires[s].phase = "none"
      BY <1>2, <2>3 DEF SetUrl, Free
    <3> HIDE DEF b, w
    <3>2. \E s \in Socket : w[s].phase = "none"
      BY <2>2, <3>1
    <3>3. /\ bridge' \in Bridges /\ bridge'.socket # 0 /\ bridge'.url = b.url
          /\ wires' \in [Socket -> Wires]
          /\ \A s \in Socket : wires'[s] = w[s] \/ (w[s].phase = "none" /\ wires'[s] = [NoWire EXCEPT !.phase = "connecting"])
      BY <2>1, <2>2, <3>1, <3>2, ConnectingIs
    <3>. QED  BY <2>1, <2>2, <3>3
  <2>4. CASE ~on
    <3>1. bridge' = b /\ wires' = w
      BY <1>2, <2>4 DEF SetUrl
    <3>. QED  BY <2>1, <2>2, <3>1
  <2>. QED  BY <2>3, <2>4
<1>. QED  BY <1>1, <1>2

LEMMA BrokenIs ==
  ASSUME wires \in [Socket -> Wires], NEW S
  PROVE  /\ Broken(wires, S) \in [Socket -> Wires]
         /\ \A s \in Socket : \/ Broken(wires, S)[s] = wires[s] /\ (s \notin S \/ wires[s].phase = "none")
                              \/ Broken(wires, S)[s] = [NoWire EXCEPT !.phase = "lost"] /\ s \in S /\ wires[s].phase # "none"
BY NewWire DEF Broken

LEMMA OrphanedTypes ==
  ASSUME server \in Servers, NEW s
  PROVE  /\ Orphaned(s) \in Servers /\ Orphaned(s).nodes = server.nodes /\ Orphaned(s).value = server.value
         /\ \A a \in Orphaned(s).asked : \E b \in server.asked : a.req = b.req
<1> DEFINE all == {IF a.socket = s THEN [a EXCEPT !.socket = 0] ELSE a : a \in server.asked}
<1>1. \A a \in server.asked : a \in [req : Requests, socket : 0..MaxSockets]
  BY DEF Servers
<1>2. 0 \in 0..MaxSockets
  BY MatterAssumption
<1>3. \A a \in all : a \in [req : Requests, socket : 0..MaxSockets] /\ \E b \in server.asked : a.req = b.req
  BY <1>1, <1>2
<1>4. Orphaned(s) = [server EXCEPT !.asked = all]
  BY DEF Orphaned
<1> HIDE DEF all
<1>. QED  BY <1>3, <1>4 DEF Servers

LEMMA RequestsAre ==
  /\ Request("listen", "open") \in Requests
  /\ \A s \in Session : Request("listen", s) \in Requests /\ Request("commission", s) \in Requests
  /\ \A n \in Node : Request("remove", n) \in Requests /\ Request("command", n) \in Requests
  /\ \A kind, of : Request(kind, of).kind = kind /\ Request(kind, of).of = of
BY DEF Request, Requests

LEMMA RequestOf ==
  \A r \in Requests : /\ r = Request(r.kind, r.of)
                      /\ r.kind \in {"listen", "commission", "remove", "command"}
                      /\ r.kind = "listen" => r.of \in {"open"} \cup Session
                      /\ r.kind = "commission" => r.of \in Session
                      /\ r.kind \in {"remove", "command"} => r.of \in Node
BY DEF Request, Requests

LEMMA AskIs ==
  ASSUME server \in Servers, bridge \in Bridges, pending \subseteq [req : Requests, socket : Socket],
         NEW r \in Requests, bridge.socket # 0, Ask(r)
  PROVE  /\ pending' \subseteq [req : Requests, socket : Socket] /\ server' \in Servers
         /\ pending' = pending \cup {[req |-> r, socket |-> bridge.socket]}
         /\ server'.nodes = server.nodes /\ server'.value = server.value
         /\ server'.asked = server.asked \cup {[req |-> r, socket |-> bridge.socket]}
<1> DEFINE a == [req |-> r, socket |-> bridge.socket]
<1>1. a \in [req : Requests, socket : Socket] /\ a \in [req : Requests, socket : 0..MaxSockets]
  BY MatterAssumption DEF Bridges, Socket
<1>2. pending' = pending \cup {a} /\ server' = [server EXCEPT !.asked = @ \cup {a}]
  BY DEF Ask
<1> HIDE DEF a
<1>. QED  BY <1>1, <1>2 DEF Servers, a

(* What the answer to a request is read from. *)
LEMMA ReadsIs ==
  ASSUME wires \in [Socket -> Wires], NEW s \in Socket, wires[s].inbox # <<>>
  PROVE  /\ Head(wires[s].inbox) \in Messages /\ Tail(wires[s].inbox) \in Seq(Messages)
         /\ [wires EXCEPT ![s].inbox = Tail(@)] \in [Socket -> Wires]
         /\ [wires EXCEPT ![s].inbox = Tail(@)][s].inbox = Tail(wires[s].inbox)
         /\ [wires EXCEPT ![s].inbox = Tail(@)][s].phase = wires[s].phase
         /\ [wires EXCEPT ![s].inbox = Tail(@)][s].listening = wires[s].listening
         /\ \A o \in Socket : o # s => [wires EXCEPT ![s].inbox = Tail(@)][o] = wires[o]
<1>1. wires[s] \in Wires /\ wires[s].inbox \in Seq(Messages)
  BY DEF Wires
<1>2. Head(wires[s].inbox) \in Messages /\ Tail(wires[s].inbox) \in Seq(Messages)
  BY <1>1, HeadAndTail
<1> DEFINE x == [wires[s] EXCEPT !.inbox = Tail(@)]
<1>3. x \in Wires /\ x.inbox = Tail(wires[s].inbox) /\ x.phase = wires[s].phase /\ x.listening = wires[s].listening
  BY <1>1, <1>2 DEF Wires
<1>4. [wires EXCEPT ![s].inbox = Tail(@)] = [wires EXCEPT ![s] = x]
  OBVIOUS
<1> HIDE DEF x
<1>. QED  BY <1>2, <1>3, <1>4

LEMMA EmptyJob == NoJob \in JobStates /\ NoJob.todo = <<>> /\ NoJob.on = FALSE /\ NoJob.saving = FALSE
BY NoneLeft DEF NoJob, JobStates

LEMMA IngestingIs ==
  ASSUME NEW allow \in BOOLEAN, NEW nodes \in Listings
  PROVE  LET x == Ingesting(allow, nodes)
         IN x \in JobStates /\ x.todo = nodes /\ x.saving = FALSE /\ x.on /\ nodes \in Seq(Entries)
<1> DEFINE E == [node : Node, value : {0, 1}, stale : {FALSE}]
<1>1. E \subseteq Entries
  BY DEF Entries
<1>2. nodes \in Seq(E)
  BY DEF Listings
<1> HIDE DEF E
<1>3. nodes \in Seq(Entries)
  BY <1>1, <1>2, SeqMonotonic
<1>. QED  BY <1>3 DEF Ingesting, NoJob, JobStates

LEMMA TypesAtFirst == Init => TypeOK
<1> SUFFICES ASSUME Init  PROVE TypeOK
  OBVIOUS
<1> USE MatterAssumption
<1>1. PICK nodes \in Homes, configured \in BOOLEAN :
         /\ server = [up |-> configured, nodes |-> nodes, value |-> [n \in Node |-> 0], asked |-> {}]
         /\ home = [r \in nodes \X {"home"} |-> [value |-> 0, area |-> r[1]]]
         /\ thread = [configured |-> configured, select |-> "idle", remove |-> "idle"]
         /\ bridge = [url |-> configured, stopped |-> FALSE, connected |-> FALSE, socket |-> IF configured THEN 1 ELSE 0, timers |-> 0, allow |-> FALSE]
         /\ wires = [s \in Socket |-> IF configured /\ s = 1 THEN [NoWire EXCEPT !.phase = "connecting"] ELSE NoWire]
  BY DEF Init
<1>2. nodes \subseteq Node
  OBVIOUS
<1>3. nodes \X {"home"} \subseteq Names /\ home \in [nodes \X {"home"} -> Devices]
  BY <1>1, <1>2 DEF Names, Devices
<1>4. home \in Registries
  BY <1>3, RegistryOf
<1>5. bridge \in Bridges /\ server \in Servers /\ thread \in Threads
  BY <1>1, <1>2 DEF Bridges, Servers, Threads
<1>6. wires \in [Socket -> Wires] /\ \A s \in Socket : wires[s].phase # "none" => bridge.socket # 0
  BY <1>1, NewWire DEF NoWire
<1>7. NoSession \in SessionStates
  BY DEF NoSession, SessionStates
<1>8. jobs \in [Jobs -> JobStates] /\ sessions \in [Session -> SessionStates]
  BY <1>7, EmptyJob DEF Init
<1>9. pending = {} /\ saving = {} /\ removing = {} /\ hist \in Histories /\ budget \in [Kinds -> Nat]
  BY DEF Init, Histories
<1>10. Asking(server.asked, sessions)
  BY <1>1 DEF Asking
<1>. QED  BY <1>4, <1>5, <1>6, <1>8, <1>9, <1>10 DEF TypeOK, HubTypes, OtherTypes, Linked

(* Everything but what an action changes keeps its type. *)
LEMMA TypesStep == TypeOK /\ [Next]_vars => TypeOK'
<1> SUFFICES ASSUME TypeOK, [Next]_vars  PROVE TypeOK'
  OBVIOUS
<1> USE DEF TypeOK, HubTypes, OtherTypes, Linked
<1>0. /\ home \in Registries /\ bridge \in Bridges /\ pending \subseteq [req : Requests, socket : Socket]
      /\ jobs \in [Jobs -> JobStates] /\ sessions \in [Session -> SessionStates] /\ saving \subseteq Node /\ removing \subseteq Node
      /\ wires \in [Socket -> Wires] /\ server \in Servers /\ thread \in Threads /\ budget \in [Kinds -> Nat] /\ hist \in Histories
      /\ \A s \in Socket : wires[s].phase # "none" => bridge.socket # 0
      /\ Asking(server.asked, sessions)
  OBVIOUS
<1>spend. ASSUME NEW kind \in Kinds, Spend(kind)  PROVE budget' \in [Kinds -> Nat]
  BY <1>spend, SpendTypes
<1>kinds. {"drops", "downs", "urls", "changes", "leaves", "removals", "timeouts", "faults", "assigned", "cancels", "commands", "refreshes", "sessions"} \subseteq Kinds
  BY AnyKind
<1>missed. ASSUME NEW S \in SUBSET Node  PROVE [hist EXCEPT !.missed = @ \cup S] \in Histories
  BY DEF Histories
<1>unread. \A w : Unread(w) \subseteq Node
  BY UnreadAre
<1>linked. ASSUME server'.asked = server.asked, \A s \in Session : sessions'[s].node = sessions[s].node
           PROVE  Asking(server'.asked, sessions')
  <2>1. \A a \in server.asked : a.req \in Requests
    BY DEF Servers
  <2>. QED  BY <1>0, <1>linked, <2>1, RequestOf DEF Asking
<1>1. ASSUME NEW a \in pending, TimesOut(a)  PROVE TypeOK'
  <2>1. sessions' \in [Session -> SessionStates] /\ removing' \subseteq Node /\ \A s \in Session : sessions'[s].node = sessions[s].node
    BY <1>0, <1>1, RejectedIs DEF TimesOut
  <2>2. bridge' \in Bridges /\ bridge'.socket = bridge.socket
    BY <1>0, <1>1 DEF TimesOut, Bridges, RejectedAllow
  <2>3. hist' \in Histories
    BY <1>0, <1>1 DEF TimesOut, Histories, Unheard
  <2>4. budget' \in [Kinds -> Nat]
    BY <1>1, <1>spend, <1>kinds DEF TimesOut
  <2>5. pending' \subseteq pending /\ UNCHANGED <<home, jobs, saving, wires, server, thread>>
    BY <1>1 DEF TimesOut
  <2>. QED  BY <1>0, <1>linked, <2>1, <2>2, <2>3, <2>4, <2>5
<1>2. ASSUME NEW s \in Socket, Opened(s)  PROVE TypeOK'
  <2>1. bridge.socket # 0 /\ bridge' \in Bridges /\ bridge'.socket = bridge.socket
    BY <1>0, <1>2 DEF Opened, Bridges
  <2>2. wires' \in [Socket -> Wires] /\ \A o \in Socket : wires'[o].phase # "none" => wires[o].phase # "none"
    BY <1>0, <1>2 DEF Opened, Wires
  <2>3. UNCHANGED <<home, jobs, saving, sessions, removing, thread, budget>> /\ Listen(s)
    BY <1>2 DEF Opened
  <2>4. CASE Ask(Request("listen", "open")) /\ hist' = [hist EXCEPT !.unheard = FALSE]
    <3>1. /\ pending' \subseteq [req : Requests, socket : Socket] /\ server' \in Servers
          /\ server'.asked = server.asked \cup {[req |-> Request("listen", "open"), socket |-> bridge.socket]}
      BY <1>0, <2>1, <2>4, AskIs, RequestsAre
    <3>2. hist' \in Histories
      BY <1>0, <2>4 DEF Histories
    <3>3. Asking(server'.asked, sessions')
      BY <1>0, <2>3, <3>1, RequestsAre DEF Asking
    <3>. QED  BY <1>0, <2>1, <2>2, <2>3, <3>1, <3>2, <3>3
  <2>5. CASE UNCHANGED <<pending, server, hist>>
    BY <1>0, <1>linked, <2>1, <2>2, <2>3, <2>5
  <2>. QED  BY <2>3, <2>4, <2>5 DEF Listen
<1>3. ASSUME NEW s \in Socket, Closed(s)  PROVE TypeOK'
  <2>1. sessions' \in [Session -> SessionStates] /\ removing' \subseteq Node /\ \A x \in Session : sessions'[x].node = sessions[x].node
    BY <1>0, <1>3, RejectedIs DEF Closed
  <2>2. bridge' \in Bridges /\ bridge'.socket = bridge.socket
    <3>1. bridge' = [bridge EXCEPT !.connected = FALSE, !.timers = Retried, !.allow = RejectedAllow(pending)]
      BY <1>3 DEF Closed
    <3>2. Retried \in Nat /\ RejectedAllow(pending) \in BOOLEAN
      BY <1>0 DEF Bridges, Retried, RejectedAllow
    <3>. QED  BY <1>0, <3>1, <3>2 DEF Bridges
  <2>3. hist' \in Histories
    BY <1>0, <1>3, <1>unread DEF Closed, Histories, Unheard
  <2>4. pending' = {} /\ UNCHANGED <<home, jobs, saving, thread, budget>>
    BY <1>3 DEF Closed
  <2>5. wires' \in [Socket -> Wires] /\ \A o \in Socket : wires'[o].phase # "none" => wires[o].phase # "none"
    BY <1>0, <1>3, NewWire DEF Closed, NoWire
  <2>6. server' \in Servers /\ \A a \in server'.asked : \E b \in server.asked : a.req = b.req
    BY <1>0, <1>3, OrphanedTypes DEF Closed
  <2>7. Asking(server'.asked, sessions')
    <3>1. \A b \in server.asked : b.req \in Requests
      BY <1>0 DEF Servers
    <3>. QED  BY <1>0, <2>1, <2>6, <3>1, RequestOf DEF Asking
  <2>. QED  BY <1>0, <2>1, <2>2, <2>3, <2>4, <2>5, <2>6, <2>7
<1>4. CASE TimerFires
  <2> DEFINE b == [bridge EXCEPT !.timers = @ - 1]
  <2>1. b \in Bridges /\ b.socket = bridge.socket
    BY <1>0, <1>4 DEF TimerFires, Bridges
  <2>2. UNCHANGED <<home, pending, jobs, saving, sessions, removing, server, thread, budget, hist>>
    BY <1>4 DEF TimerFires
  <2>3. \/ Connecting(b, wires) /\ \E x \in Socket : wires[x].phase = "none"
        \/ bridge' = b /\ wires' = wires
    BY <1>4 DEF TimerFires, Free
  <2> HIDE DEF b
  <2>4. CASE Connecting(b, wires) /\ \E x \in Socket : wires[x].phase = "none"
    <3>1. bridge' \in Bridges /\ bridge'.socket # 0 /\ wires' \in [Socket -> Wires]
      BY <1>0, <2>1, <2>4, ConnectingIs
    <3>. QED  BY <1>0, <1>linked, <2>2, <3>1
  <2>5. CASE bridge' = b /\ wires' = wires
    BY <1>0, <1>linked, <2>1, <2>2, <2>5
  <2>. QED  BY <2>3, <2>4, <2>5
<1>5. ASSUME NEW a \in server.asked, Served(a)  PROVE TypeOK'
  <2> DEFINE r == a.req
             left == [server EXCEPT !.asked = @ \ {a}]
             ok == Reply(r, TRUE, <<>>)
  <2>1. UNCHANGED <<hub, thread, budget>> /\ r \in Requests
    BY <1>0, <1>5 DEF Served, Servers
  <2>2. left \in Servers
    BY <1>0 DEF Servers
  <2>3. ASSUME server' \in Servers, server'.asked \subseteq server.asked, wires' \in [Socket -> Wires], hist' \in Histories,
               \A s \in Socket : wires'[s].phase = wires[s].phase
        PROVE  TypeOK'
    BY <1>0, <2>1, <2>3 DEF Asking, hub
  <2>4. ASSUME NEW m \in Messages, NEW w \in [Socket -> Wires]
        PROVE  /\ Tell(w, m) \in [Socket -> Wires] /\ Answer(w, a.socket, m) \in [Socket -> Wires]
               /\ \A s \in Socket : Tell(w, m)[s].phase = w[s].phase /\ Answer(w, a.socket, m)[s].phase = w[s].phase
    BY <2>4, ToldSends, AnswerSends DEF Sends
  <2>5. ok \in Messages
    BY <2>1, ReplyIs, RepliesAre, NoneLeft DEF Listings
  <2>10. ASSUME NEW e \in Messages, wires' \in {Answer(Tell(wires, e), a.socket, ok), Tell(Answer(wires, a.socket, ok), e)}
         PROVE  wires' \in [Socket -> Wires] /\ \A s \in Socket : wires'[s].phase = wires[s].phase
    <3> HIDE DEF ok
    <3>1. CASE wires' = Answer(Tell(wires, e), a.socket, ok)
      <4> DEFINE w == Tell(wires, e)
      <4>1. w \in [Socket -> Wires] /\ \A s \in Socket : w[s].phase = wires[s].phase
        BY <1>0, <2>4
      <4> HIDE DEF w
      <4>2. Answer(w, a.socket, ok) \in [Socket -> Wires] /\ \A s \in Socket : Answer(w, a.socket, ok)[s].phase = w[s].phase
        BY <2>4, <2>5, <4>1
      <4>. QED  BY <3>1, <4>1, <4>2 DEF w
    <3>2. CASE wires' = Tell(Answer(wires, a.socket, ok), e)
      <4> DEFINE w == Answer(wires, a.socket, ok)
      <4>1. w \in [Socket -> Wires] /\ \A s \in Socket : w[s].phase = wires[s].phase
        BY <1>0, <2>4, <2>5
      <4> HIDE DEF w
      <4>2. Tell(w, e) \in [Socket -> Wires] /\ \A s \in Socket : Tell(w, e)[s].phase = w[s].phase
        BY <2>4, <4>1
      <4>. QED  BY <3>2, <4>1, <4>2 DEF w
    <3>. QED  BY <2>10, <3>1, <3>2
  <2>6. CASE r.kind = "listen"
    <3>1. /\ server' = left
          /\ wires' = IF Live(wires, a.socket) THEN Answer([wires EXCEPT ![a.socket].listening = TRUE], a.socket, Reply(r, TRUE, Listed)) ELSE wires
          /\ hist' = IF Live(wires, a.socket) THEN [hist EXCEPT !.missed = @ \ server.nodes] ELSE hist
      BY <1>5, <2>6 DEF Served
    <3>2. hist' \in Histories
      BY <1>0, <3>1 DEF Histories
    <3>3. Reply(r, TRUE, Listed) \in Messages
      BY <1>0, <2>1, <2>6, ListedAll, ReplyIs, RepliesAre
    <3>4. ASSUME Live(wires, a.socket)
          PROVE  /\ [wires EXCEPT ![a.socket].listening = TRUE] \in [Socket -> Wires]
                 /\ \A s \in Socket : [wires EXCEPT ![a.socket].listening = TRUE][s].phase = wires[s].phase
      BY <1>0, <3>4 DEF Live, Wires
    <3>5. wires' \in [Socket -> Wires] /\ \A s \in Socket : wires'[s].phase = wires[s].phase
      BY <1>0, <2>4, <3>1, <3>3, <3>4
    <3>6. server' \in Servers /\ server'.asked \subseteq server.asked
      BY <1>0, <2>2, <3>1 DEF Servers
    <3>. QED  BY <2>3, <3>2, <3>5, <3>6
  <2>7. CASE r.kind = "commission"
    <3> DEFINE n == sessions[r.of].node
    <3>1. PICK kind \in {"node", "attribute"} :
            LET e == Event(kind, n, server.value[n])
            IN /\ server' = [left EXCEPT !.nodes = @ \cup {n}]
               /\ wires' \in {Answer(Tell(wires, e), a.socket, Reply(r, TRUE, <<>>)), Tell(Answer(wires, a.socket, Reply(r, TRUE, <<>>)), e)}
               /\ hist' = [hist EXCEPT !.strange = @ \/ Active \ {r.of} # {}, !.missed = @ \ {n}]
      BY <1>5, <2>7 DEF Served
    <3>2. n \in Node
      BY <1>0, <2>7 DEF Asking
    <3> HIDE DEF n
    <3>3. Event(kind, n, server.value[n]) \in Messages
      BY <1>0, <3>2, EventIs, EventsAre DEF Servers
    <3>4. hist' \in Histories
      BY <1>0, <3>1 DEF Histories
    <3>5. server' \in Servers /\ server'.asked \subseteq server.asked
      BY <1>0, <3>1, <3>2 DEF Servers
    <3>6. wires' \in [Socket -> Wires] /\ \A s \in Socket : wires'[s].phase = wires[s].phase
      BY <2>10, <3>1, <3>3
    <3>. QED  BY <2>3, <3>4, <3>5, <3>6
  <2>8. CASE r.kind = "remove"
    <3>1. /\ server' = [left EXCEPT !.nodes = @ \ {r.of}] /\ Heard(Event("removed", r.of, 0))
          /\ wires' = Answer(Tell(wires, Event("removed", r.of, 0)), a.socket, Reply(r, TRUE, <<>>))
      BY <1>5, <2>8 DEF Served
    <3>2. r.of \in Node
      BY <2>1, <2>8, RequestOf
    <3>3. Event("removed", r.of, 0) \in Messages /\ Event("removed", r.of, 0).node = r.of
      BY <3>2, EventIs, EventsAre
    <3>4. hist' \in Histories
      BY <1>0, <1>missed, <3>1, <3>2, <3>3 DEF Heard
    <3>5. server' \in Servers /\ server'.asked \subseteq server.asked
      BY <1>0, <3>1, <3>2 DEF Servers
    <3>6. wires' \in [Socket -> Wires] /\ \A s \in Socket : wires'[s].phase = wires[s].phase
      BY <2>10, <3>1, <3>3
    <3>. QED  BY <2>3, <3>4, <3>5, <3>6
  <2>9. CASE r.kind = "command"
    <3> DEFINE v == 1 - server.value[r.of]
    <3>1. /\ server' = [left EXCEPT !.value[r.of] = 1 - @] /\ Heard(Event("attribute", r.of, v))
          /\ wires' = Answer(Tell(wires, Event("attribute", r.of, v)), a.socket, Reply(r, TRUE, <<>>))
      BY <1>5, <2>9 DEF Served
    <3>2. r.of \in Node /\ v \in {0, 1}
      BY <1>0, <2>1, <2>9, RequestOf DEF Servers
    <3> HIDE DEF v
    <3>3. Event("attribute", r.of, v) \in Messages /\ Event("attribute", r.of, v).node = r.of
      BY <3>2, EventIs, EventsAre
    <3>4. hist' \in Histories
      BY <1>0, <1>missed, <3>1, <3>2, <3>3 DEF Heard
    <3>5. server' \in Servers /\ server'.asked \subseteq server.asked
      <4>1. left.value \in [Node -> {0, 1}] /\ left.value = server.value
        BY <1>0 DEF Servers
      <4>2. [left.value EXCEPT ![r.of] = 1 - @] \in [Node -> {0, 1}]
        BY <3>2, <4>1
      <4>. QED  BY <1>0, <2>2, <3>1, <4>2 DEF Servers
    <3>6. wires' \in [Socket -> Wires] /\ \A s \in Socket : wires'[s].phase = wires[s].phase
      BY <2>10, <3>1, <3>3
    <3>. QED  BY <2>3, <3>4, <3>5, <3>6
  <2>. QED  BY <2>1, <2>6, <2>7, <2>8, <2>9, RequestOf
<1>6. ASSUME NEW a \in server.asked, Refused(a)  PROVE TypeOK'
  <2>1. UNCHANGED <<hub, thread, hist>> /\ a.req \in Requests
    BY <1>0, <1>6 DEF Refused, Servers
  <2>2. Reply(a.req, FALSE, <<>>) \in Messages
    BY <2>1, ReplyIs, RepliesAre, NoneLeft DEF Listings
  <2>3. wires' \in [Socket -> Wires] /\ \A s \in Socket : wires'[s].phase = wires[s].phase
    <3> DEFINE m == Reply(a.req, FALSE, <<>>)
    <3>1. wires' = Answer(wires, a.socket, m) /\ m \in Messages
      BY <1>6, <2>2 DEF Refused
    <3> HIDE DEF m
    <3>2. Sends(wires, Answer(wires, a.socket, m), m)
      BY <1>0, <3>1, AnswerSends
    <3>. QED  BY <3>1, <3>2 DEF Sends
  <2>4. budget' \in [Kinds -> Nat]
    BY <1>0, <1>6, <1>spend, <1>kinds DEF Refused
  <2>5. server' \in Servers /\ server'.asked \subseteq server.asked
    BY <1>0, <1>6 DEF Refused, Servers
  <2>. QED  BY <1>0, <2>1, <2>3, <2>4, <2>5 DEF Asking, hub
<1>7. ASSUME NEW n \in Node, Changes(n) \/ Leaves(n)  PROVE TypeOK'
  <2>1. UNCHANGED <<hub, thread>> /\ budget' \in [Kinds -> Nat]
    BY <1>7, <1>spend, <1>kinds DEF Changes, Leaves
  <2>2. server' \in Servers /\ server'.asked = server.asked
    <3>1. [server.value EXCEPT ![n] = 1 - @] \in [Node -> {0, 1}]
      BY <1>0 DEF Servers
    <3>. QED  BY <1>0, <1>7, <3>1 DEF Changes, Leaves, Servers
  <2>3. PICK kind \in {"node", "attribute", "removed"}, v \in {0, 1} : Told(Event(kind, n, v))
    <3>1. 1 - server.value[n] \in {0, 1}
      BY <1>0 DEF Servers
    <3>. QED  BY <1>7, <3>1 DEF Changes, Leaves
  <2>4. Event(kind, n, v) \in Messages /\ Event(kind, n, v).node = n
    BY EventIs, EventsAre
  <2>5. wires' \in [Socket -> Wires] /\ \A s \in Socket : wires'[s].phase = wires[s].phase
    BY <1>0, <2>3, <2>4, ToldSends DEF Told, Sends
  <2>6. hist' \in Histories
    BY <1>0, <1>missed, <2>3, <2>4 DEF Told, Heard
  <2>. QED  BY <1>0, <2>1, <2>2, <2>5, <2>6 DEF Asking, hub
<1>8. ASSUME (\E s \in Socket : Drops(s)) \/ Goes \/ Comes  PROVE TypeOK'
  <2>1. UNCHANGED <<hub, thread>> /\ budget' \in [Kinds -> Nat]
    BY <1>0, <1>8, <1>spend, <1>kinds DEF Drops, Goes, Comes
  <2>2. wires' \in [Socket -> Wires] /\ \A s \in Socket : wires'[s].phase # "none" => wires[s].phase # "none"
    <3>1. wires' = wires \/ \E S : wires' = Broken(wires, S)
      BY <1>8 DEF Drops, Goes, Comes
    <3>. QED  BY <1>0, <3>1, BrokenIs
  <2>3. server' \in Servers /\ \A a \in server'.asked : \E b \in server.asked : a.req = b.req
    <3>1. CASE \E s \in Socket : Drops(s)
      BY <1>0, <3>1, OrphanedTypes DEF Drops
    <3>2. CASE Goes \/ Comes
      BY <1>0, <3>2 DEF Goes, Comes, Stopped, Servers
    <3>. QED  BY <1>8, <3>1, <3>2
  <2>4. hist' \in Histories
    BY <1>0, <1>8, <1>missed, <1>unread DEF Drops, Goes, Comes, Stopped
  <2>. QED  BY <1>0, <2>1, <2>2, <2>3, <2>4 DEF Asking, hub
<1>9. ASSUME NEW s \in Socket, Receives(s)  PROVE TypeOK'
  <2> DEFINE m == Head(wires[s].inbox)
  <2>1. wires[s].inbox # <<>> /\ wires' = [wires EXCEPT ![s].inbox = Tail(@)] /\ UNCHANGED <<thread, budget>>
    BY <1>9 DEF Receives
  <2>2. wires' \in [Socket -> Wires] /\ m \in Messages /\ \A o \in Socket : wires'[o].phase = wires[o].phase
    BY <1>0, <2>1, ReadsIs
  <2>3. EventReceived(m) \/ LateReply(m, s) \/ ListingReceived(m, s) \/ Commissioned(m, s) \/ Removed(m, s) \/ RequestEnds(m, s)
    BY <1>9 DEF Receives
  <2>4. Awaited(m, s) => m \in Replies /\ m.req \in Requests
    BY <2>2, MessagesAre, RepliesAre DEF Awaited
  <2>5. Answered(m, s) \subseteq pending
    BY DEF Answered
  <2> HIDE DEF m
  <2>6. CASE EventReceived(m)
    <3>1. m.type \in {"node", "attribute", "removed"} /\ UNCHANGED <<bridge, pending, sessions, removing, server>>
      BY <2>6 DEF EventReceived
    <3>2. m \in Events /\ m.node \in Node /\ m.value \in {0, 1}
      BY <2>2, <3>1, MessagesAre, EventsAre DEF Events
    <3>3. home' \in Registries
      BY <1>0, <2>6, <3>2, IngestedUpdates, AttributedUpdates, WithoutUpdates DEF EventReceived, Updates
    <3>4. saving' \subseteq Node
      BY <1>0, <2>6, <3>2 DEF EventReceived
    <3>5. jobs' \in [Jobs -> JobStates]
      BY <1>0, <2>6, <3>2, OvertakesIs DEF EventReceived
    <3>6. hist' \in Histories
      BY <1>0, <2>6 DEF EventReceived, Fresh, Histories
    <3>. QED  BY <1>0, <1>linked, <2>1, <2>2, <3>1, <3>3, <3>4, <3>5, <3>6
  <2>7. CASE LateReply(m, s)
    <3>1. UNCHANGED <<home, bridge, pending, saving, sessions, removing, server, hist>>
      BY <2>7 DEF LateReply
    <3>2. jobs' \in [Jobs -> JobStates]
      <4>1. m \in Replies /\ m.nodes \in Listings /\ bridge.allow \in BOOLEAN
        BY <1>0, <2>2, <2>7, MessagesAre, RepliesAre DEF LateReply, Bridges
      <4>. QED  BY <1>0, <2>7, <4>1, IngestingIs DEF LateReply
    <3>. QED  BY <1>0, <1>linked, <2>1, <2>2, <3>1, <3>2
  <2>8. CASE ListingReceived(m, s)
    <3>1. UNCHANGED <<home, bridge, saving, sessions, removing, server, hist>> /\ pending' \subseteq pending
      BY <2>5, <2>8 DEF ListingReceived
    <3>2. jobs' \in [Jobs -> JobStates]
      <4>1. m.nodes \in Listings /\ (m.req.of \in Session) \in BOOLEAN
        BY <2>4, <2>8, RepliesAre DEF ListingReceived
      <4>. QED  BY <1>0, <2>8, <4>1, IngestingIs DEF ListingReceived
    <3>. QED  BY <1>0, <1>linked, <2>1, <2>2, <3>1, <3>2
  <2>9. CASE Commissioned(m, s)
    <3>1. UNCHANGED <<home, jobs, saving, removing, hist>> /\ bridge' \in Bridges /\ bridge'.socket = bridge.socket
      BY <1>0, <2>9 DEF Commissioned, Bridges
    <3>2. m.req.of \in Session
      BY <2>4, <2>9, RequestOf DEF Commissioned
    <3>3. CASE CanAsk
      <4>1. /\ sessions' = [sessions EXCEPT ![m.req.of].pc = "refreshing"]
            /\ pending' = Answered(m, s) \cup {Listing(m)}
            /\ server' = [server EXCEPT !.asked = @ \cup {Listing(m)}]
        BY <2>9, <3>3 DEF Commissioned
      <4>2. Listing(m) \in [req : Requests, socket : Socket] /\ Listing(m) \in [req : Requests, socket : 0..MaxSockets] /\ Listing(m).req.kind = "listen"
        BY <1>0, <3>2, <3>3, RequestsAre, MatterAssumption DEF Listing, CanAsk, Bridges, Socket
      <4>3. sessions' \in [Session -> SessionStates] /\ \A x \in Session : sessions'[x].node = sessions[x].node
        <5> DEFINE x == [sessions[m.req.of] EXCEPT !.pc = "refreshing"]
        <5>1. x \in SessionStates /\ x.node = sessions[m.req.of].node
          BY <1>0, <3>2 DEF SessionStates
        <5>2. sessions' = [sessions EXCEPT ![m.req.of] = x]
          BY <4>1
        <5> HIDE DEF x
        <5>. QED  BY <1>0, <3>2, <5>1, <5>2
      <4>4. pending' \subseteq [req : Requests, socket : Socket] /\ server' \in Servers /\ server'.asked = server.asked \cup {Listing(m)}
        BY <1>0, <2>5, <4>1, <4>2 DEF Servers
      <4>5. \A a \in server.asked : a.req \in Requests
        BY <1>0 DEF Servers
      <4>6. Asking(server'.asked, sessions')
        BY <1>0, <4>2, <4>3, <4>4, <4>5, RequestOf DEF Asking
      <4>. QED  BY <1>0, <2>1, <2>2, <3>1, <4>3, <4>4, <4>6
    <3>4. CASE ~CanAsk
      <4>1. sessions' = [sessions EXCEPT ![m.req.of] = Finished(@)] /\ pending' = Answered(m, s) /\ UNCHANGED server
        BY <2>9, <3>4 DEF Commissioned
      <4>2. sessions' \in [Session -> SessionStates] /\ \A x \in Session : sessions'[x].node = sessions[x].node
        BY <1>0, <3>2, <4>1, FinishedIs
      <4>. QED  BY <1>0, <1>linked, <2>1, <2>2, <2>5, <3>1, <4>1, <4>2
    <3>. QED  BY <3>3, <3>4
  <2>10. CASE Removed(m, s)
    <3>1. UNCHANGED <<bridge, saving, server>> /\ pending' \subseteq pending /\ removing' \subseteq Node
      BY <1>0, <2>5, <2>10 DEF Removed
    <3>2. m.req.of \in Node
      BY <2>4, <2>10, RequestOf DEF Removed
    <3>3. home' \in Registries /\ jobs' \in [Jobs -> JobStates]
      BY <1>0, <2>10, <3>2, WithoutTypes, OvertakesIs DEF Removed
    <3>4. hist' \in Histories
      BY <1>0, <2>10 DEF Removed, Fresh, Histories
    <3>5. sessions' \in [Session -> SessionStates] /\ \A x \in Session : sessions'[x].node = sessions[x].node
      <4>1. \A x \in Session : sessions'[x] = IF sessions[x].device = m.req.of THEN [sessions[x] EXCEPT !.kept = FALSE] ELSE sessions[x]
        BY <2>10 DEF Removed, Forgotten
      <4>2. \A x \in Session : sessions'[x] \in SessionStates /\ sessions'[x].node = sessions[x].node
        <5>1. \A y \in SessionStates : [y EXCEPT !.kept = FALSE] \in SessionStates /\ [y EXCEPT !.kept = FALSE].node = y.node
          BY DEF SessionStates
        <5>2. \A x \in Session : sessions[x] \in SessionStates
          BY <1>0
        <5>. QED  BY <4>1, <5>1, <5>2
      <4>. QED  BY <2>10, <4>2 DEF Removed, Forgotten
    <3>. QED  BY <1>0, <1>linked, <2>1, <2>2, <3>1, <3>3, <3>4, <3>5
  <2>11. CASE RequestEnds(m, s)
    <3>1. sessions' \in [Session -> SessionStates] /\ removing' \subseteq Node /\ \A x \in Session : sessions'[x].node = sessions[x].node
      BY <1>0, <2>11, RejectedIs DEF RequestEnds
    <3>2. bridge' \in Bridges /\ bridge'.socket = bridge.socket
      BY <1>0, <2>11 DEF RequestEnds, Bridges, RejectedAllow
    <3>3. hist' \in Histories
      BY <1>0, <2>11 DEF RequestEnds, Histories, Unheard
    <3>4. UNCHANGED <<home, jobs, saving, server>> /\ pending' \subseteq pending
      BY <2>5, <2>11 DEF RequestEnds
    <3>. QED  BY <1>0, <1>linked, <2>1, <2>2, <3>1, <3>2, <3>3, <3>4
  <2>. QED  BY <2>3, <2>6, <2>7, <2>8, <2>9, <2>10, <2>11

<1>10. ASSUME NEW n \in Node, EventSaved(n) \/ Assign(n)  PROVE TypeOK'
  <2>1. CASE EventSaved(n)
    <3>1. sessions' \in [Session -> SessionStates] /\ \A x \in Session : sessions'[x].node = sessions[x].node
      BY <1>0, <2>1, ObservedIs DEF EventSaved, ObservedIfThere
    <3>. QED  BY <1>0, <1>linked, <2>1, <3>1 DEF EventSaved
  <2>2. CASE Assign(n)
    <3>1. home \in [DOMAIN home -> Devices] /\ DOMAIN home \subseteq Names
      BY <1>0, OfRegistry
    <3>2. home' \in [DOMAIN home -> Devices]
      BY <2>2, <3>1 DEF Assign, Devices
    <3>3. home' \in Registries /\ budget' \in [Kinds -> Nat]
      BY <2>2, <1>spend, <1>kinds, <3>1, <3>2, RegistryOf DEF Assign
    <3>. QED  BY <1>0, <1>linked, <2>2, <3>3 DEF Assign
  <2>. QED  BY <1>10, <2>1, <2>2
<1>11. ASSUME NEW n \in Node, Removes(n) \/ Commands(n)  PROVE TypeOK'
  <2>1. PICK r \in Requests : r.kind # "commission" /\ (Asks("removals", r) \/ Asks("commands", r))
    BY <1>11, RequestsAre DEF Removes, Commands
  <2>2. Ask(r) /\ CanAsk /\ UNCHANGED <<home, bridge, jobs, saving, sessions, wires, thread>> /\ budget' \in [Kinds -> Nat]
    BY <2>1, <1>spend, <1>kinds DEF Asks
  <2>3. /\ pending' \subseteq [req : Requests, socket : Socket] /\ server' \in Servers
        /\ server'.asked = server.asked \cup {[req |-> r, socket |-> bridge.socket]}
    BY <1>0, <2>2, AskIs DEF CanAsk
  <2>4. removing' \subseteq Node /\ UNCHANGED hist
    BY <1>0, <1>11 DEF Removes, Commands
  <2>5. Asking(server'.asked, sessions')
    BY <1>0, <2>1, <2>2, <2>3 DEF Asking
  <2>. QED  BY <1>0, <2>2, <2>3, <2>4, <2>5
<1>12. ASSUME NEW j \in Jobs, IngestNext(j)  PROVE TypeOK'
  <2> DEFINE e == Head(jobs[j].todo)
             first == [jobs EXCEPT ![j].todo = Tail(@)]
             rest == Overtakes(e.node, first)
             allow == jobs[j].allow \/ bridge.allow
  <2>1. /\ jobs[j].todo # <<>> /\ home' = Ingested(e.node, e.value, allow)
        /\ jobs' = rest \/ jobs' = [rest EXCEPT ![j].todo = <<e>> \o @, ![j].saving = TRUE]
        /\ UNCHANGED <<bridge, pending, saving, sessions, removing, wires, server, thread, budget>>
    BY <1>12 DEF IngestNext
  <2>2. /\ jobs[j].todo \in Seq(Entries) /\ e \in Entries /\ Tail(jobs[j].todo) \in Seq(Entries)
        /\ e.node \in Node /\ e.value \in {0, 1}
    <3>1. jobs[j].todo \in Seq(Entries)
      BY <1>0 DEF JobStates
    <3>2. e \in Entries /\ Tail(jobs[j].todo) \in Seq(Entries)
      BY <2>1, <3>1, HeadAndTail
    <3>. QED  BY <3>1, <3>2 DEF Entries
  <2>3. first \in [Jobs -> JobStates]
    BY <1>0, <1>12, <2>2 DEF JobStates, IngestNext
  <2>4. hist' \in Histories
    BY <1>0, <1>12, <2>2 DEF IngestNext, Fresh, Histories
  <2> HIDE DEF e, first, allow
  <2>5. rest \in [Jobs -> JobStates] /\ rest[j].todo \in Seq(Entries)
    BY <2>2, <2>3, OvertakesIs
  <2> HIDE DEF rest
  <2>6. <<e>> \o rest[j].todo \in Seq(Entries)
    BY <2>2, <2>5, Consed
  <2>7. jobs' \in [Jobs -> JobStates]
    <3> DEFINE y == [rest[j] EXCEPT !.todo = <<e>> \o @, !.saving = TRUE]
    <3>1. y \in JobStates
      <4>1. <<e>> \o rest[j].todo # <<>>
        BY <2>2, <2>5, Consed
      <4>. QED  BY <2>5, <2>6, <4>1 DEF JobStates
    <3>2. jobs' = rest \/ jobs' = [rest EXCEPT ![j] = y]
      BY <2>1, <2>5
    <3> HIDE DEF y
    <3>. QED  BY <2>5, <3>1, <3>2
  <2>8. home' \in Registries
    BY <1>0, <2>1, <2>2, IngestedUpdates DEF Updates
  <2>. QED  BY <1>0, <1>linked, <2>1, <2>4, <2>7, <2>8
<1>13. ASSUME NEW j \in Jobs, IngestSaved(j) \/ IngestEnds(j)  PROVE TypeOK'
  <2>1. UNCHANGED <<home, bridge, pending, saving, removing, wires, server, thread, budget>>
    BY <1>13 DEF IngestSaved, IngestEnds
  <2>2. jobs[j].todo \in Seq(Entries)
    BY <1>0 DEF JobStates
  <2>3. jobs' \in [Jobs -> JobStates] /\ sessions' \in [Session -> SessionStates] /\ (\A x \in Session : sessions'[x].node = sessions[x].node) /\ hist' \in Histories
    <3>1. CASE IngestSaved(j) /\ Head(jobs[j].todo).node \in Known
      <4> DEFINE n == Head(jobs[j].todo).node
      <4>1. /\ jobs' = [jobs EXCEPT ![j].todo = Tail(@), ![j].saving = FALSE] /\ sessions' = Observed(n, sessions) /\ UNCHANGED hist
            /\ jobs[j].todo # <<>>
        BY <1>0, <1>13, <3>1 DEF IngestSaved, JobStates
      <4>2. n \in Node
        BY <1>0, <3>1, KnownAre
      <4>3. Tail(jobs[j].todo) \in Seq(Entries)
        BY <2>2, <4>1, HeadAndTail
      <4>4. jobs' \in [Jobs -> JobStates]
        <5>. DEFINE y == [jobs[j] EXCEPT !.todo = Tail(@), !.saving = FALSE]
        <5>1. y \in JobStates
          BY <1>0, <4>3 DEF JobStates
        <5>2. jobs' = [jobs EXCEPT ![j] = y]
          BY <4>1
        <5>. HIDE DEF y
        <5>. QED  BY <1>0, <5>1, <5>2
      <4>. QED  BY <1>0, <4>1, <4>2, <4>4, ObservedIs
    <3>2. CASE IngestEnds(j) \/ (IngestSaved(j) /\ Head(jobs[j].todo).node \notin Known)
      <4>1. /\ jobs' = [jobs EXCEPT ![j] = NoJob]
            /\ sessions' = IF j \in Session THEN [sessions EXCEPT ![j] = Finished(@)] ELSE sessions
            /\ hist' = hist \/ hist' = [hist EXCEPT !.missed = @ \cup {e.node : e \in Range(jobs[j].todo)}]
        BY <3>2 DEF IngestEnds, IngestSaved
      <4>2. {e.node : e \in Range(jobs[j].todo)} \subseteq Node
        <5>1. \A e \in Range(jobs[j].todo) : e \in Entries
          BY <2>2, InRange
        <5>. QED  BY <5>1 DEF Entries
      <4>3. hist' \in Histories
        BY <1>0, <1>missed, <4>1, <4>2
      <4>4. jobs' \in [Jobs -> JobStates]
        BY <1>0, <4>1, EmptyJob
      <4>5. sessions' \in [Session -> SessionStates] /\ \A x \in Session : sessions'[x].node = sessions[x].node
        BY <1>0, <4>1, FinishedIs
      <4>. QED  BY <4>3, <4>4, <4>5
    <3>. QED  BY <1>13, <3>1, <3>2
  <2>. QED  BY <1>0, <1>linked, <2>1, <2>3
<1>14. ASSUME NEW s \in Session, NEW n \in Node, Starts(s, n)  PROVE TypeOK'
  <2> DEFINE x == [NoSession EXCEPT !.pc = "commissioning", !.node = n, !.base = Known, !.kept = TRUE]
  <2>1. UNCHANGED <<home, jobs, saving, removing, wires, thread>> /\ budget' \in [Kinds -> Nat]
    BY <1>14, <1>spend, <1>kinds DEF Starts
  <2>2. Known \subseteq Node
    BY <1>0, KnownAre
  <2>3. x \in SessionStates /\ x.node = n
    BY <2>2 DEF NoSession, SessionStates
  <2>4. hist' \in Histories
    BY <1>0, <1>14 DEF Starts, Histories
  <2>5. bridge' \in Bridges /\ bridge'.socket = bridge.socket
    <3>1. \E b \in BOOLEAN : bridge' = [bridge EXCEPT !.allow = b]
      BY <1>14 DEF Starts
    <3>2. \A b \in BOOLEAN : [bridge EXCEPT !.allow = b] \in Bridges /\ [bridge EXCEPT !.allow = b].socket = bridge.socket
      BY <1>0 DEF Bridges
    <3>. QED  BY <3>1, <3>2
  <2>6. sessions' \in [Session -> SessionStates] /\ \A o \in Session : sessions'[o].node = IF o = s THEN n ELSE sessions[o].node
    <3>1. sessions' = [sessions EXCEPT ![s] = x] \/ sessions' = [sessions EXCEPT ![s] = Failed(x)]
      BY <1>14 DEF Starts
    <3> HIDE DEF x
    <3>. QED  BY <1>0, <2>3, <3>1, FailedIs
  <2>7. /\ pending' \subseteq [req : Requests, socket : Socket] /\ server' \in Servers
        /\ \A a \in server'.asked : a \in server.asked \/ a.req = Request("commission", s)
    <3>1. CASE CanAsk
      <4>1. Ask(Request("commission", s)) /\ bridge.socket # 0
        BY <1>14, <3>1 DEF Starts, CanAsk
      <4>. QED  BY <1>0, <4>1, AskIs, RequestsAre
    <3>2. CASE ~CanAsk
      BY <1>0, <1>14, <3>2 DEF Starts
    <3>. QED  BY <3>1, <3>2
  <2>8. Asking(server'.asked, sessions')
    <3>1. \A a \in server.asked : a.req \in Requests
      BY <1>0 DEF Servers
    <3>2. \A a \in server.asked : a.req.kind = "commission" => sessions'[a.req.of].node \in Node
      BY <1>0, <2>6, <3>1, RequestOf DEF Asking
    <3>3. sessions'[Request("commission", s).of].node \in Node
      BY <2>6, RequestsAre
    <3>. QED  BY <2>7, <3>2, <3>3 DEF Asking
  <2>. QED  BY <1>0, <2>1, <2>4, <2>5, <2>6, <2>7, <2>8
<1>15. ASSUME NEW s \in Session, Cancels(s)  PROVE TypeOK'
  <2>1. budget' \in [Kinds -> Nat]
    BY <1>15, <1>spend, <1>kinds DEF Cancels
  <2>2. sessions' \in [Session -> SessionStates] /\ \A x \in Session : sessions'[x].node = sessions[x].node
    <3>1. sessions' = [sessions EXCEPT ![s] = [sessions[s] EXCEPT !.kept = FALSE]]
      BY <1>15 DEF Cancels
    <3>2. \A x \in SessionStates : [x EXCEPT !.kept = FALSE] \in SessionStates /\ [x EXCEPT !.kept = FALSE].node = x.node
      BY DEF SessionStates
    <3>. DEFINE y == [sessions[s] EXCEPT !.kept = FALSE]
    <3>3. y \in SessionStates /\ y.node = sessions[s].node
      BY <1>0, <3>2
    <3>4. sessions' = [sessions EXCEPT ![s] = y]
      BY <3>1
    <3>. HIDE DEF y
    <3>. QED  BY <1>0, <3>3, <3>4
  <2>. QED  BY <1>0, <1>linked, <1>15, <2>1, <2>2 DEF Cancels
<1>16. CASE Refreshes
  <2>1. Ask(Request("listen", "open")) /\ CanAsk /\ UNCHANGED <<home, bridge, jobs, saving, sessions, wires, thread, removing>> /\ budget' \in [Kinds -> Nat]
    BY <1>16, <1>spend, <1>kinds DEF Refreshes, Asks
  <2>2. /\ pending' \subseteq [req : Requests, socket : Socket] /\ server' \in Servers
        /\ server'.asked = server.asked \cup {[req |-> Request("listen", "open"), socket |-> bridge.socket]}
    BY <1>0, <2>1, AskIs, RequestsAre DEF CanAsk
  <2>3. hist' \in Histories
    BY <1>0, <1>16 DEF Refreshes, Histories
  <2>4. Asking(server'.asked, sessions')
    BY <1>0, <2>1, <2>2, RequestsAre DEF Asking
  <2>. QED  BY <1>0, <2>1, <2>2, <2>3, <2>4
<1>17. CASE Selects \/ StartFails
  <2>1. UNCHANGED <<hub, wires, server>> /\ budget' \in [Kinds -> Nat]
    BY <1>17, <1>spend, <1>kinds DEF Selects, StartFails
  <2>2. thread' \in Threads /\ hist' \in Histories
    BY <1>0, <1>17 DEF Selects, StartFails, Threads, Histories
  <2>. QED  BY <1>0, <2>1, <2>2 DEF hub
<1>clears. CASE Clears
  <2>1. UNCHANGED <<hub, wires, server, budget>>
    BY <1>clears DEF Clears
  <2>2. thread' \in Threads /\ hist' \in Histories
    BY <1>0, <1>clears DEF Clears, Threads, Histories
  <2>. QED  BY <1>0, <2>1, <2>2 DEF hub
<1>18. CASE Started \/ Unselected
  <2>1. /\ UNCHANGED <<home, pending, jobs, saving, sessions, removing, budget>> /\ \E on \in BOOLEAN : SetUrl(on)
    BY <1>18 DEF Started, Unselected
  <2>2. /\ bridge' \in Bridges /\ wires' \in [Socket -> Wires]
        /\ \A s \in Socket : wires'[s].phase # "none" => bridge'.socket # 0
    BY <1>0, <2>1, SetUrlIs
  <2>3. thread' \in Threads /\ server' \in Servers /\ server'.asked = server.asked /\ hist' \in Histories
    <3>1. thread' \in Threads
      BY <1>0, <1>18 DEF Started, Unselected, Threads
    <3>2. server' \in Servers /\ server'.asked = server.asked
      BY <1>0, <1>18 DEF Started, Unselected, Servers
    <3>3. hist' \in Histories
      BY <1>0, <1>18 DEF Started, Unselected, Histories
    <3>. QED  BY <3>1, <3>2, <3>3
  <2>. QED  BY <1>0, <1>linked, <2>1, <2>2, <2>3
<1>19. CASE Unselects
  <2>1. UNCHANGED hub /\ budget' \in [Kinds -> Nat]
    BY <1>19, <1>spend, <1>kinds DEF Unselects
  <2>2. wires' \in [Socket -> Wires] /\ \A s \in Socket : wires'[s].phase # "none" => wires[s].phase # "none"
    BY <1>0, <1>19, BrokenIs DEF Unselects
  <2>3. thread' \in Threads /\ server' \in Servers /\ server'.asked = {} /\ hist' \in Histories
    <3>1. thread' \in Threads /\ server' \in Servers /\ server'.asked = {}
      BY <1>0, <1>19 DEF Unselects, Stopped, Threads, Servers
    <3>2. hist' \in Histories
      BY <1>19, <1>missed, <1>unread DEF Unselects, Stopped
    <3>. QED  BY <3>1, <3>2
  <2>. QED  BY <1>0, <2>1, <2>2, <2>3 DEF Asking, hub
<1>20. CASE UNCHANGED vars
  BY <1>0, <1>20 DEF vars, hub
<1>. QED  BY <1>1, <1>2, <1>3, <1>4, <1>5, <1>6, <1>7, <1>8, <1>9, <1>10, <1>11, <1>12, <1>13, <1>14, <1>15, <1>16, <1>17, <1>18, <1>19, <1>20, <1>clears DEF Next

(***************************************************************************)
(* The address: a selection under way, like an address, means an adapter   *)
(* is selected, unless a removal overlapped it; a removal that has cleared *)
(* the adapter has yet to take the address.                                *)
(***************************************************************************)
Addressed ==
  /\ thread.select = "starting" => thread.configured \/ hist.overlap
  /\ bridge.url => thread.configured \/ thread.remove = "clearing" \/ hist.overlap

LEMMA AddressStep == TypeOK /\ Addressed /\ [Next]_vars => Addressed'
<1> SUFFICES ASSUME TypeOK, Addressed, [Next]_vars  PROVE Addressed'
  OBVIOUS
<1>0. bridge \in Bridges /\ thread \in Threads /\ hist \in Histories /\ wires \in [Socket -> Wires]
  BY DEF TypeOK, HubTypes, OtherTypes
<1>1. ASSUME thread' = thread, bridge'.url = bridge.url, hist'.overlap = hist.overlap  PROVE Addressed'
  BY <1>1 DEF Addressed
<1>2. ASSUME \/ (\E a \in pending : TimesOut(a)) \/ (\E s \in Socket : Opened(s) \/ Closed(s))
             \/ (\E s \in Session, n \in Node : Starts(s, n))
      PROVE  Addressed'
  <2>1. thread' = thread
    BY <1>2 DEF TimesOut, Opened, Closed, Starts
  <2>2. \/ \E c \in BOOLEAN : bridge' = [bridge EXCEPT !.allow = c] \/ bridge' = [bridge EXCEPT !.connected = c]
        \/ \E t \in Nat, c \in BOOLEAN : bridge' = [bridge EXCEPT !.connected = FALSE, !.timers = t, !.allow = c]
    <3>1. ASSUME NEW R  PROVE RejectedAllow(R) \in BOOLEAN
      BY <1>0 DEF RejectedAllow, Bridges
    <3>2. Retried \in Nat
      BY <1>0 DEF Retried, Bridges
    <3>3. CASE \E a \in pending : TimesOut(a)
      <4>1. PICK a \in pending : bridge' = [bridge EXCEPT !.allow = RejectedAllow({a})]
        BY <3>3 DEF TimesOut
      <4>. QED  BY <3>1, <4>1
    <3>4. CASE \E s \in Socket : Opened(s)
      BY <3>4 DEF Opened
    <3>5. CASE \E s \in Socket : Closed(s)
      <4>1. bridge' = [bridge EXCEPT !.connected = FALSE, !.timers = Retried, !.allow = RejectedAllow(pending)]
        BY <3>5 DEF Closed
      <4>. QED  BY <3>1, <3>2, <4>1
    <3>6. CASE \E s \in Session, n \in Node : Starts(s, n)
      BY <3>6 DEF Starts
    <3>. QED  BY <1>2, <3>3, <3>4, <3>5, <3>6
  <2>3. bridge'.url = bridge.url
    BY <1>0, <2>2 DEF Bridges
  <2>4. hist'.overlap = hist.overlap
    BY <1>0, <1>2 DEF TimesOut, Opened, Listen, Closed, Starts, Histories
  <2>. QED  BY <1>1, <2>1, <2>3, <2>4
<1>3. CASE TimerFires
  <2> DEFINE b == [bridge EXCEPT !.timers = @ - 1]
  <2>1. thread' = thread /\ hist' = hist /\ bridge.timers > 0
    BY <1>3 DEF TimerFires
  <2>2. b \in Bridges /\ b.url = bridge.url
    BY <1>0, <2>1 DEF Bridges
  <2>3. \/ Connecting(b, wires) /\ \E x \in Socket : wires[x].phase = "none"
        \/ bridge' = b
    BY <1>3 DEF TimerFires, Free
  <2> HIDE DEF b
  <2>4. bridge'.url = bridge.url
    BY <1>0, <2>2, <2>3, ConnectingIs
  <2>. QED  BY <1>1, <2>1, <2>4
<1>4. ASSUME NEW s \in Socket, Receives(s)  PROVE Addressed'
  <2> DEFINE m == Head(wires[s].inbox)
  <2>1. thread' = thread
    BY <1>4 DEF Receives
  <2>2. bridge' = bridge \/ \E c \in BOOLEAN : bridge' = [bridge EXCEPT !.allow = c]
    <3>1. RejectedAllow({[req |-> m.req]}) \in BOOLEAN
      BY <1>0 DEF RejectedAllow, Bridges
    <3>. QED  BY <1>4, <3>1 DEF Receives, EventReceived, LateReply, ListingReceived, Commissioned, Removed, RequestEnds
  <2>3. hist'.overlap = hist.overlap
    BY <1>0, <1>4 DEF Receives, EventReceived, LateReply, ListingReceived, Commissioned, Removed, RequestEnds, Fresh, Histories
  <2>4. bridge'.url = bridge.url
    BY <1>0, <2>2 DEF Bridges
  <2>. QED  BY <1>1, <2>1, <2>3, <2>4
<1>5. ASSUME \/ \E s \in Socket : Drops(s)
             \/ \E a \in server.asked : Served(a) \/ Refused(a)
             \/ \E n \in Node : Changes(n) \/ Leaves(n) \/ EventSaved(n) \/ Removes(n) \/ Commands(n) \/ Assign(n)
             \/ \E j \in Jobs : IngestNext(j) \/ IngestSaved(j) \/ IngestEnds(j)
             \/ \E s \in Session : Cancels(s)
             \/ Goes \/ Comes \/ Refreshes
      PROVE  Addressed'
  <2>1. bridge' = bridge /\ thread' = thread
    BY <1>5 DEF Drops, Served, Refused, Changes, Leaves, EventSaved, Removes, Commands, Asks, Assign, IngestNext, IngestSaved, IngestEnds, Cancels, Goes, Comes, Refreshes, hub
  <2>2. hist'.overlap = hist.overlap
    <3>1. CASE \E a \in server.asked : Served(a)
      BY <1>0, <3>1 DEF Served, Heard, Histories
    <3>2. CASE \E n \in Node : Changes(n) \/ Leaves(n)
      BY <1>0, <3>2 DEF Changes, Leaves, Told, Heard, Histories
    <3>3. CASE (\E s \in Socket : Drops(s)) \/ Goes
      BY <1>0, <3>3 DEF Drops, Goes, Stopped, Histories
    <3>4. CASE \E j \in Jobs : IngestNext(j) \/ IngestSaved(j) \/ IngestEnds(j)
      BY <1>0, <3>4 DEF IngestNext, IngestSaved, IngestEnds, Fresh, Histories
    <3>5. CASE \/ \E n \in Node : EventSaved(n) \/ Removes(n) \/ Commands(n) \/ Assign(n)
               \/ (\E a \in server.asked : Refused(a)) \/ (\E s \in Session : Cancels(s)) \/ Comes \/ Refreshes
      BY <1>0, <3>5 DEF EventSaved, Removes, Commands, Assign, Refused, Cancels, Comes, Refreshes, Histories
    <3>. QED  BY <1>5, <3>1, <3>2, <3>3, <3>4, <3>5
  <2>. QED  BY <1>1, <2>1, <2>2
<1>6. CASE Selects
  BY <1>0, <1>6 DEF Selects, Addressed, Threads
<1>7. CASE Started
  <2>1. thread' = [thread EXCEPT !.select = "idle"] /\ hist' = hist /\ thread.select = "starting"
    BY <1>7 DEF Started
  <2>. QED  BY <1>0, <2>1 DEF Addressed, Threads
<1>8. CASE StartFails
  BY <1>0, <1>8 DEF StartFails, Addressed, Threads, hub
<1>9. CASE Unselects
  BY <1>0, <1>9 DEF Unselects, Stopped, Addressed, Threads, Histories, hub
<1>clears. CASE Clears
  BY <1>0, <1>clears DEF Clears, Addressed, Threads, Histories, hub
<1>10. CASE Unselected
  <2>1. thread' = [thread EXCEPT !.remove = "idle"] /\ SetUrl(FALSE) /\ hist' = hist
    BY <1>10 DEF Unselected
  <2>2. bridge'.url = FALSE
    BY <1>0, <2>1, SetUrlIs
  <2>. QED  BY <1>0, <2>1, <2>2 DEF Addressed, Threads, Histories
<1>11. CASE UNCHANGED vars
  BY <1>11 DEF vars, hub, Addressed
<1>. QED  BY <1>2, <1>3, <1>4, <1>5, <1>6, <1>7, <1>8, <1>9, <1>10, <1>11, <1>clears DEF Next

(***************************************************************************)
(* The records.  What a record shows is what the server has, or a message  *)
(* or listing on its way is about its device; the last message of each     *)
(* connection about a device says what the server has; and of the listings *)
(* being stored, one that nothing overtook does, where there is such a     *)
(* one.                                                                    *)
(***************************************************************************)
Hearing == \E s \in Socket : wires[s].listening
Agrees(n, v) == n \in server.nodes /\ (v = server.value[n] \/ ~Hearing)
Astray == hist.missed \cup Unread(wires)
ToStore == {n \in Node : \E j \in Jobs : \E e \in Waiting(jobs[j]) : e.node = n}
Due == {n \in Node : \E j \in Jobs : \E e \in Waiting(jobs[j]) : e.node = n /\ ~e.stale /\ Agrees(n, e.value)}

SoundNow == Sound(wires, server.nodes, server.value)
IdleJobs == \A j \in Jobs : ~jobs[j].on => jobs[j].todo = <<>>
JobsSound == \A j \in Jobs : \A e \in Waiting(jobs[j]) : ~e.stale => e.node \in Astray \cup Due
HomeSound == \A r \in DOMAIN home : r[1] \in Astray \cup hist.overtaken \cup ToStore \/ Agrees(r[1], home[r].value)
News == SoundNow /\ IdleJobs /\ JobsSound /\ One(home) /\ HomeSound

LEMMA DueAre ==
  /\ \A n : n \in Due <=> n \in Node /\ \E j \in Jobs : \E e \in Waiting(jobs[j]) : e.node = n /\ ~e.stale /\ Agrees(n, e.value)
  /\ \A n : n \in ToStore <=> n \in Node /\ \E j \in Jobs : \E e \in Waiting(jobs[j]) : e.node = n
BY DEF Due, ToStore

LEMMA EntriesAre ==
  ASSUME TypeOK
  PROVE  /\ \A j \in Jobs : \A e \in Waiting(jobs[j]) : e \in Entries /\ e.node \in Node /\ e.value \in {0, 1} /\ e.stale \in BOOLEAN
         /\ \A r \in DOMAIN home : r[1] \in Node /\ home[r].value \in {0, 1}
<1>1. \A j \in Jobs : jobs[j] \in JobStates
  BY DEF TypeOK, HubTypes
<1>2. \A j \in Jobs : \A e \in Waiting(jobs[j]) : e \in Entries
  BY <1>1, WaitingAre
<1>3. \A e \in Entries : e.node \in Node /\ e.value \in {0, 1} /\ e.stale \in BOOLEAN
  BY DEF Entries
<1>4. \A r \in DOMAIN home : r[1] \in Node /\ home[r] \in Devices
  BY OfRegistry, NamesAre DEF TypeOK, HubTypes
<1>. QED  BY <1>2, <1>3, <1>4 DEF Devices

(* Where records and listings are left alone, it is enough that a device   *)
(* for which nothing is on its way any more still agrees.                  *)
LEMMA NewsKept ==
  ASSUME TypeOK, JobsSound, HomeSound,
         home' = home, jobs' = jobs, hist'.overtaken = hist.overtaken,
         \A n \in Node : \/ n \in Astray'
                         \/ n \notin Astray /\ \A v \in {0, 1} : Agrees(n, v) => Agrees(n, v)'
                         \/ \A v \in {0, 1} : Agrees(n, v)'
  PROVE  JobsSound' /\ HomeSound'
<1>1. ToStore' = ToStore
  BY DEF ToStore
<1>2. ASSUME NEW j \in Jobs, NEW e \in Waiting(jobs[j]), ~e.stale  PROVE e.node \in Astray' \cup Due'
  <2>1. e.node \in Node /\ e.value \in {0, 1}
    BY EntriesAre
  <2>2. CASE e.node \in Astray'
    BY <2>2
  <2>3. CASE e.node \notin Astray /\ \A v \in {0, 1} : Agrees(e.node, v) => Agrees(e.node, v)'
    <3>1. e.node \in Due
      BY <1>2, <2>3 DEF JobsSound
    <3>2. PICK i \in Jobs : \E x \in Waiting(jobs[i]) : x.node = e.node /\ ~x.stale /\ Agrees(e.node, x.value)
      BY <3>1, DueAre
    <3>3. PICK x \in Waiting(jobs[i]) : x.node = e.node /\ ~x.stale /\ Agrees(e.node, x.value)
      BY <3>2
    <3>4. x.value \in {0, 1}
      BY EntriesAre
    <3>5. Agrees(e.node, x.value)'
      BY <2>3, <3>3, <3>4
    <3>. QED  BY <2>1, <3>3, <3>5 DEF Due
  <2>4. CASE \A v \in {0, 1} : Agrees(e.node, v)'
    <3>1. Agrees(e.node, e.value)'
      BY <2>1, <2>4
    <3>. QED  BY <1>2, <2>1, <3>1 DEF Due
  <2>. QED  BY <2>1, <2>2, <2>3, <2>4
<1>3. ASSUME NEW r \in DOMAIN home
      PROVE  r[1] \in Astray' \cup hist'.overtaken \cup ToStore' \/ Agrees(r[1], home[r].value)'
  <2>1. r[1] \in Node /\ home[r].value \in {0, 1}
    BY EntriesAre
  <2>2. r[1] \in Astray \cup hist.overtaken \cup ToStore \/ Agrees(r[1], home[r].value)
    BY DEF HomeSound
  <2>3. Agrees(r[1], home[r].value) /\ r[1] \notin Astray' /\ r[1] \notin Astray => Agrees(r[1], home[r].value)'
    BY <2>1
  <2>4. r[1] \in Astray /\ r[1] \notin Astray' => Agrees(r[1], home[r].value)'
    BY <2>1
  <2>5. r[1] \notin Astray /\ r[1] \notin Astray' /\ Agrees(r[1], home[r].value) => Agrees(r[1], home[r].value)'
    BY <2>1
  <2>. QED  BY <1>1, <2>1, <2>2, <2>3, <2>4, <2>5
<1>. QED  BY <1>2, <1>3 DEF JobsSound, HomeSound

(* Connections that break take their messages along.                       *)
LEMMA CutNews ==
  ASSUME TypeOK, News, Cuts(wires, wires'),
         home' = home, jobs' = jobs, hist'.overtaken = hist.overtaken,
         server'.nodes = server.nodes, server'.value = server.value,
         Astray \subseteq Astray'
  PROVE  News'
<1>1. SoundNow'
  BY CutsSound DEF News, SoundNow
<1>2. Hearing' => Hearing
  <2>1. wires \in [Socket -> Wires] /\ \A s \in Socket : wires'[s].listening \in {wires[s].listening, FALSE}
    BY DEF TypeOK, OtherTypes, Cuts
  <2>. QED  BY <2>1 DEF Hearing
<1>3. \A n \in Node, v \in {0, 1} : Agrees(n, v) => Agrees(n, v)'
  BY <1>2 DEF Agrees
<1>4. JobsSound' /\ HomeSound'
  BY <1>3, NewsKept DEF News
<1>. QED  BY <1>1, <1>4 DEF News, IdleJobs

LEMMA CutsSame ==
  ASSUME TypeOK, SoundNow
  PROVE  Cuts(wires, wires)
BY DEF Cuts, SoundNow, Sound, TypeOK, OtherTypes

LEMMA CutsMissed ==
  ASSUME TypeOK, NEW S, NEW u, Cuts(wires, u), \A s \in Socket : s \in S \/ u[s].inbox = wires[s].inbox
  PROVE  Unread(wires) \subseteq Unread(Restrict(wires, S \cap Socket)) \cup Unread(u)
<1>1. DOMAIN wires = Socket /\ DOMAIN u = Socket
  BY DEF TypeOK, OtherTypes, Cuts
<1>2. DOMAIN Restrict(wires, S \cap Socket) = S \cap Socket /\ \A s \in S \cap Socket : Restrict(wires, S \cap Socket)[s] = wires[s]
  BY <1>1 DEF Restrict
<1>. QED  BY <1>1, <1>2, UnreadAre

(* The server tells of one device, or of none.                             *)
LEMMA SentNews ==
  ASSUME TypeOK, News, SoundNow', NEW n \in Node,
         home' = home, jobs' = jobs, hist'.overtaken = hist.overtaken,
         Hearing' = Hearing,
         \A o \in Node : o # n => /\ (o \in server'.nodes <=> o \in server.nodes) /\ server'.value[o] = server.value[o]
                                  /\ o \in Astray => o \in Astray',
         n \in Astray' \/ (~Hearing /\ n \in server'.nodes)
  PROVE  News'
<1>1. ASSUME NEW o \in Node
      PROVE  \/ o \in Astray'
             \/ o \notin Astray /\ \A v \in {0, 1} : Agrees(o, v) => Agrees(o, v)'
             \/ \A v \in {0, 1} : Agrees(o, v)'
  <2>1. CASE o # n
    BY <2>1 DEF Agrees
  <2>2. CASE o = n
    BY <2>2 DEF Agrees
  <2>. QED  BY <2>1, <2>2
<1>2. JobsSound' /\ HomeSound'
  BY <1>1, NewsKept DEF News
<1>. QED  BY <1>2 DEF News, IdleJobs

LEMMA HearingSends ==
  ASSUME NEW m, Sends(wires, wires', m)
  PROVE  Hearing' = Hearing
<1>1. \A s \in Socket : wires'[s].listening = wires[s].listening
  BY DEF Sends
<1>. QED  BY <1>1 DEF Hearing

LEMMA NewsAtFirst == Init => News
<1> SUFFICES ASSUME Init  PROVE News
  OBVIOUS
<1>1. PICK nodes \in Homes, configured \in BOOLEAN :
         /\ server = [up |-> configured, nodes |-> nodes, value |-> [n \in Node |-> 0], asked |-> {}]
         /\ home = [r \in nodes \X {"home"} |-> [value |-> 0, area |-> r[1]]]
         /\ wires = [s \in Socket |-> IF configured /\ s = 1 THEN [NoWire EXCEPT !.phase = "connecting"] ELSE NoWire]
  BY DEF Init
<1>2. \A s \in Socket : wires[s].inbox = <<>> /\ wires[s].listening = FALSE /\ wires[s].phase \notin {"open", "closing"}
  BY <1>1 DEF NoWire
<1>3. SoundNow
  BY <1>2, NoneLeft, CorrectEmpty DEF SoundNow, Sound
<1>4. \A j \in Jobs : jobs[j] = NoJob
  BY DEF Init
<1>5. IdleJobs /\ JobsSound
  BY <1>4, EmptyJob, WaitingAre DEF IdleJobs, JobsSound
<1>6. One(home)
  BY <1>1 DEF One
<1>7. HomeSound
  <2>1. nodes \subseteq Node
    BY MatterAssumption
  <2>2. \A r \in DOMAIN home : r[1] \in server.nodes /\ home[r].value = server.value[r[1]]
    BY <1>1, <2>1
  <2>. QED  BY <2>2 DEF HomeSound, Agrees
<1>. QED  BY <1>3, <1>5, <1>6, <1>7 DEF News

LEMMA NewsServed ==
  ASSUME TypeOK, TypeOK', News, NEW a \in server.asked, Served(a)
  PROVE  News'
<1> DEFINE r == a.req
           left == [server EXCEPT !.asked = @ \ {a}]
           ok == Reply(r, TRUE, <<>>)
<1>0. /\ wires \in [Socket -> Wires] /\ wires' \in [Socket -> Wires] /\ server \in Servers /\ server' \in Servers
      /\ hist \in Histories /\ hist' \in Histories /\ Asking(server.asked, sessions) /\ SoundNow
  BY DEF TypeOK, OtherTypes, Linked, News
<1>1. r \in Requests /\ home' = home /\ jobs' = jobs
  BY <1>0 DEF Served, Servers, hub
<1>2. ok \in Replies /\ ok \in Messages /\ About(ok) = {} /\ ok.type = "reply"
  <2>1. <<>> \in Listings
    BY NoneLeft DEF Listings
  <2>2. ok \in Replies /\ ok.nodes = <<>>
    BY <1>1, <2>1, ReplyIs
  <2>. QED  BY <2>2, RepliesAre
<1>3. left \in Servers /\ left.nodes = server.nodes /\ left.value = server.value
  BY <1>0 DEF Servers
(* A message about one device goes to all who listen, the answer to who    *)
(* asked.                                                                  *)
<1>4. ASSUME NEW n \in Node, NEW e \in Events, e.node = n,
             wires' \in {Answer(Tell(wires, e), a.socket, ok), Tell(Answer(wires, a.socket, ok), e)},
             \A o \in Node \ {n} : (o \in server.nodes <=> o \in server'.nodes) /\ server.value[o] = server'.value[o],
             Tells(e, n, server'.nodes, server'.value)
      PROVE  /\ SoundNow' /\ Hearing' = Hearing
             /\ Unread(wires) \subseteq Unread(wires')
             /\ (\E s \in Socket : Hears(wires, s)) => n \in Unread(wires')
             /\ (~\E s \in Socket : Hears(wires, s)) => ~Hearing
  <2> HIDE DEF ok
  <2>1. e \in Messages /\ About(e) = {n}
    BY <1>4, EventsAre
  <2>2. \A s \in Socket : /\ wires[s].phase \notin {"open", "closing"} => ~wires[s].listening
                          /\ wires[s].listening => Live(wires, s) /\ Hears(wires, s)
    BY <1>0 DEF SoundNow, Sound, Live, Hears
  <2>3. (~\E s \in Socket : Hears(wires, s)) => ~Hearing
    BY <2>2 DEF Hearing
  <2>4. CASE wires' = Answer(Tell(wires, e), a.socket, ok)
    <3> DEFINE w == Tell(wires, e)
    <3>1. /\ w \in [Socket -> Wires] /\ Sends(wires, w, e)
          /\ \A s \in Socket : /\ wires[s].listening => w[s].inbox = Append(wires[s].inbox, e)
                               /\ ~wires[s].listening => w[s].inbox = wires[s].inbox
                               /\ w[s].listening = wires[s].listening
      BY <1>0, <2>1, <2>2, ToldSends DEF Sends
    <3> HIDE DEF w
    <3>2. Sound(w, server'.nodes, server'.value)
      BY <1>0, <1>4, <2>1, <3>1, SendsSound DEF SoundNow
    <3>3. Sends(w, wires', ok)
      BY <1>2, <2>4, <3>1, AnswerSends DEF w
    <3>4. Sound(wires', server'.nodes, server'.value)
      BY <1>2, <3>1, <3>2, <3>3, SendsSound
    <3>5. Unread(wires) \subseteq Unread(w) /\ Unread(w) \subseteq Unread(wires')
      BY <1>0, <1>2, <2>1, <3>1, <3>3, SendsUnread
    <3>6. (\E s \in Socket : Hears(wires, s)) => n \in Unread(w)
      BY <1>0, <2>1, <3>1, SendsUnread DEF Hears
    <3>7. Hearing' = Hearing
      BY <3>1, <3>3 DEF Sends, Hearing
    <3>. QED  BY <2>3, <3>4, <3>5, <3>6, <3>7 DEF SoundNow
  <2>5. CASE wires' = Tell(Answer(wires, a.socket, ok), e)
    <3> DEFINE w == Answer(wires, a.socket, ok)
    <3>1. w \in [Socket -> Wires] /\ Sends(wires, w, ok)
      BY <1>0, <1>2, AnswerSends DEF Sends
    <3> HIDE DEF w
    <3>2. Sound(w, server.nodes, server.value)
      BY <1>0, <1>2, <3>1, SendsSound DEF SoundNow
    <3>3. \A s \in Socket : w[s].listening = wires[s].listening /\ w[s].phase = wires[s].phase /\ (w[s].listening => Live(w, s))
      BY <2>2, <3>1 DEF Sends, Live
    <3>4. /\ Sends(w, wires', e)
          /\ \A s \in Socket : /\ w[s].listening => wires'[s].inbox = Append(w[s].inbox, e)
                               /\ ~w[s].listening => wires'[s].inbox = w[s].inbox
      BY <2>1, <2>5, <3>1, <3>3, ToldSends DEF w
    <3>5. Sound(wires', server'.nodes, server'.value)
      BY <1>4, <2>1, <3>1, <3>2, <3>4, SendsSound
    <3>6. Unread(wires) \subseteq Unread(w) /\ Unread(w) \subseteq Unread(wires')
      BY <1>0, <1>2, <2>1, <3>1, <3>4, SendsUnread
    <3>7. (\E s \in Socket : Hears(wires, s)) => n \in Unread(wires')
      <4>1. (\E s \in Socket : Hears(wires, s)) => \E s \in Socket : w[s].listening
        BY <3>3 DEF Hears
      <4>. QED  BY <2>1, <3>1, <3>4, <4>1, SendsUnread
    <3>8. Hearing' = Hearing
      BY <3>1, <3>4 DEF Sends, Hearing
    <3>. QED  BY <2>3, <3>5, <3>6, <3>7, <3>8 DEF SoundNow
  <2>. QED  BY <1>4, <2>4, <2>5
<1>5. CASE r.kind = "listen"
  <2>1. /\ server' = left
        /\ wires' = IF Live(wires, a.socket) THEN Answer([wires EXCEPT ![a.socket].listening = TRUE], a.socket, Reply(r, TRUE, Listed)) ELSE wires
        /\ hist' = IF Live(wires, a.socket) THEN [hist EXCEPT !.missed = @ \ server.nodes] ELSE hist
    BY <1>5 DEF Served
  <2>2. CASE ~Live(wires, a.socket)
    <3>1. wires' = wires /\ hist' = hist
      BY <2>1, <2>2
    <3>2. Cuts(wires, wires') /\ Astray \subseteq Astray'
      BY <1>0, <3>1, CutsSame DEF Astray
    <3>. QED  BY <1>1, <1>3, <2>1, <3>1, <3>2, CutNews
  <2>3. CASE Live(wires, a.socket)
    <3> DEFINE s == a.socket
               w == [wires EXCEPT ![s].listening = TRUE]
               m == Reply(r, TRUE, Listed)
    <3>1. s \in Socket /\ wires[s].phase \in {"open", "closing"}
      BY <2>3 DEF Live
    <3>2. /\ m \in Replies /\ m \in Messages /\ m.nodes = Listed /\ m.type = "reply"
          /\ About(m) = {e.node : e \in Range(Listed)}
      <4>1. Listed \in Listings /\ r \in Requests
        BY <1>0, <1>1, ListedAll
      <4>2. m \in Replies /\ m.nodes = Listed /\ m.type = "reply"
        BY <1>5, <4>1, ReplyIs
      <4> HIDE DEF m
      <4>. QED  BY <4>2, RepliesAre
    <3>3. /\ \A e \in Range(Listed) : e.node \in server.nodes /\ e.value = server.value[e.node]
          /\ \A n \in server.nodes : \E e \in Range(Listed) : e.node = n
      BY <1>0, ListedAll
    <3> HIDE DEF m
    <3>4. About(m) = server.nodes /\ \A n \in About(m) : Tells(m, n, server.nodes, server.value)
      <4>1. About(m) = server.nodes
        BY <3>2, <3>3
      <4>2. m.type = "reply" /\ m.nodes = Listed
        BY <3>2
      <4>. QED  BY <3>3, <4>1, <4>2 DEF Tells
    <3>5. /\ w \in [Socket -> Wires] /\ w[s].listening = TRUE /\ w[s].inbox = wires[s].inbox /\ w[s].phase = wires[s].phase
          /\ \A o \in Socket : o # s => w[o] = wires[o]
      <4> DEFINE x == [wires[s] EXCEPT !.listening = TRUE]
      <4>1. x \in Wires /\ x.listening = TRUE /\ x.inbox = wires[s].inbox /\ x.phase = wires[s].phase
        <5>1. wires[s] \in Wires
          BY <1>0, <3>1
        <5>. QED  BY <5>1 DEF Wires
      <4>2. w = [wires EXCEPT ![s] = x]
        OBVIOUS
      <4> HIDE DEF x
      <4>. QED  BY <1>0, <3>1, <4>1, <4>2
    <3> HIDE DEF w
    <3>6. Sound(w, server.nodes, server.value)
      BY <1>0, <3>1, <3>5 DEF SoundNow, Sound
    <3>7. wires' = Answer(w, s, m)
      BY <2>1, <2>3 DEF w, m
    <3>8. Live(w, s)
      BY <3>1, <3>5 DEF Live
    <3>9. /\ Sends(w, wires', m) /\ wires'[s].inbox = Append(w[s].inbox, m)
          /\ \A o \in Socket : o # s => wires'[o].inbox = w[o].inbox
      <4>1. m \in Messages
        BY <3>2
      <4>. HIDE DEF w, m
      <4>. QED  BY <3>5, <3>7, <3>8, <4>1, AnswerSends
    <3>10. SoundNow'
      <4>1. Sound(wires', server.nodes, server.value)
        BY <3>2, <3>4, <3>5, <3>6, <3>9, SendsSound
      <4>. QED  BY <1>3, <2>1, <4>1 DEF SoundNow
    <3>11. Unread(w) \subseteq Unread(wires') /\ server.nodes \subseteq Unread(wires')
      <4>1. m \in Messages /\ About(m) = server.nodes
        BY <3>2, <3>4
      <4>2. \E o \in Socket : wires'[o].inbox = Append(w[o].inbox, m)
        BY <3>1, <3>9
      <4>3. Unread(w) \subseteq Unread(wires') /\ About(m) \subseteq Unread(wires')
        BY <3>5, <3>9, <4>1, <4>2, SendsUnread
      <4>. QED  BY <4>1, <4>3
    <3>12. Unread(wires) \subseteq Unread(w)
      <4>1. DOMAIN wires = Socket /\ DOMAIN w = Socket /\ \A o \in Socket : w[o].inbox = wires[o].inbox
        BY <1>0, <3>5
      <4>. QED  BY <4>1, UnreadAre
    <3>13. hist'.missed = hist.missed \ server.nodes /\ hist'.overtaken = hist.overtaken
      BY <1>0, <2>1, <2>3 DEF Histories
    <3>14. Astray \subseteq Astray' /\ server.nodes \subseteq Astray'
      BY <3>11, <3>12, <3>13 DEF Astray
    <3>15. ASSUME NEW n \in Node
           PROVE  n \in Astray' \/ (n \notin Astray /\ \A v \in {0, 1} : Agrees(n, v) => Agrees(n, v)')
      BY <3>14 DEF Agrees
    <3>16. JobsSound' /\ HomeSound'
      BY <1>1, <3>13, <3>15, NewsKept DEF News
    <3>. QED  BY <1>1, <3>10, <3>16 DEF News, IdleJobs
  <2>. QED  BY <2>2, <2>3
<1>6. CASE r.kind = "commission"
  <2> DEFINE n == sessions[r.of].node
             v == server.value[n]
  <2>1. PICK kind \in {"node", "attribute"} :
          LET e == Event(kind, n, v)
          IN /\ server' = [left EXCEPT !.nodes = @ \cup {n}]
             /\ wires' \in {Answer(Tell(wires, e), a.socket, ok), Tell(Answer(wires, a.socket, ok), e)}
             /\ hist' = [hist EXCEPT !.strange = @ \/ Active \ {r.of} # {}, !.missed = @ \ {n}]
    BY <1>6 DEF Served
  <2>2. n \in Node /\ v \in {0, 1}
    BY <1>0, <1>6 DEF Asking, Servers
  <2> HIDE DEF n
  <2> DEFINE e == Event(kind, n, v)
  <2>3. e \in Events /\ e.node = n /\ e.type = kind /\ e.value = v /\ Range(e.nodes) = {}
    BY <2>2, EventIs, EventsAre
  <2>4. server'.nodes = server.nodes \cup {n} /\ server'.value = server.value
    BY <1>3, <2>1 DEF Servers
  <2>5. hist'.missed = hist.missed \ {n} /\ hist'.overtaken = hist.overtaken
    BY <1>0, <2>1 DEF Histories
  <2>6. Tells(e, n, server'.nodes, server'.value)
    BY <2>3, <2>4 DEF Tells
  <2>7. wires' \in {Answer(Tell(wires, e), a.socket, ok), Tell(Answer(wires, a.socket, ok), e)}
    BY <2>1
  <2> HIDE DEF e, ok
  <2>8. /\ SoundNow' /\ Hearing' = Hearing /\ Unread(wires) \subseteq Unread(wires')
        /\ (\E s \in Socket : Hears(wires, s)) => n \in Unread(wires')
        /\ (~\E s \in Socket : Hears(wires, s)) => ~Hearing
    BY <1>4, <2>2, <2>3, <2>4, <2>6, <2>7
  <2>. QED  BY <1>1, <2>2, <2>4, <2>5, <2>8, SentNews DEF Astray
<1>7. CASE r.kind \in {"remove", "command"}
  <2> DEFINE n == r.of
             v == IF r.kind = "remove" THEN 0 ELSE 1 - server.value[n]
             e == Event(IF r.kind = "remove" THEN "removed" ELSE "attribute", n, v)
  <2>1. n \in Node
    BY <1>1, <1>7, RequestOf
  <2>2. v \in {0, 1}
    BY <1>0, <2>1 DEF Servers
  <2>3. Heard(e) /\ wires' = Answer(Tell(wires, e), a.socket, ok)
    BY <1>7 DEF Served
  <2>4. /\ \A o \in Node \ {n} : (o \in server.nodes <=> o \in server'.nodes) /\ server.value[o] = server'.value[o]
        /\ IF r.kind = "remove" THEN n \notin server'.nodes ELSE n \in server'.nodes /\ v = server'.value[n]
    <3>1. CASE r.kind = "remove"
      <4>1. server' = [left EXCEPT !.nodes = @ \ {n}]
        BY <3>1 DEF Served
      <4>2. server'.nodes = server.nodes \ {n} /\ server'.value = server.value
        BY <1>3, <4>1 DEF Servers
      <4>. QED  BY <3>1, <4>2
    <3>2. CASE r.kind = "command"
      <4>1. server' = [left EXCEPT !.value[n] = 1 - @] /\ n \in server.nodes
        BY <3>2 DEF Served
      <4>2. left.value \in [Node -> {0, 1}]
        BY <1>3 DEF Servers
      <4>3. server'.nodes = server.nodes /\ server'.value = [server.value EXCEPT ![n] = 1 - server.value[n]]
        BY <1>3, <4>1 DEF Servers
      <4>. QED  BY <1>3, <2>1, <3>2, <4>1, <4>2, <4>3
    <3>. QED  BY <1>7, <3>1, <3>2
  <2>5. /\ e \in Events /\ e.node = n /\ e.value = v /\ Range(e.nodes) = {}
        /\ e.type = IF r.kind = "remove" THEN "removed" ELSE "attribute"
    <3> DEFINE kind == IF r.kind = "remove" THEN "removed" ELSE "attribute"
    <3>1. kind \in {"node", "attribute", "removed"} /\ e = Event(kind, n, v)
      OBVIOUS
    <3> HIDE DEF e, v, kind, n
    <3>2. e \in Events /\ e.node = n /\ e.type = kind /\ e.value = v
      BY <2>1, <2>2, <3>1, EventIs
    <3>3. Range(e.nodes) = {}
      BY <3>2, EventsAre
    <3>. QED  BY <3>2, <3>3 DEF kind
  <2> HIDE DEF e, v, ok
  <2>6. Tells(e, n, server'.nodes, server'.value)
    BY <1>7, <2>4, <2>5 DEF Tells
  <2>7. /\ SoundNow' /\ Hearing' = Hearing /\ Unread(wires) \subseteq Unread(wires')
        /\ (\E s \in Socket : Hears(wires, s)) => n \in Unread(wires')
    BY <1>4, <2>1, <2>3, <2>4, <2>5, <2>6
  <2>8. hist'.missed = (IF \E s \in Socket : Hears(wires, s) THEN hist.missed ELSE hist.missed \cup {n}) /\ hist'.overtaken = hist.overtaken
    BY <1>0, <2>3, <2>5 DEF Heard, Histories
  <2>. QED  BY <1>1, <2>1, <2>4, <2>7, <2>8, SentNews DEF Astray
<1>. QED  BY <1>1, <1>5, <1>6, <1>7, RequestOf

LEMMA NewsTold ==
  ASSUME TypeOK, TypeOK', News, NEW n \in Node, Changes(n) \/ Leaves(n)
  PROVE  News'
<1>0. /\ wires \in [Socket -> Wires] /\ server \in Servers /\ hist \in Histories /\ SoundNow
  BY DEF TypeOK, OtherTypes, News
<1>1. home' = home /\ jobs' = jobs
  BY DEF Changes, Leaves, hub
<1>2. PICK kind \in {"node", "attribute", "removed"}, v \in {0, 1} :
         /\ Told(Event(kind, n, v))
         /\ \A o \in Node \ {n} : (o \in server.nodes <=> o \in server'.nodes) /\ server.value[o] = server'.value[o]
         /\ IF kind = "removed" THEN n \notin server'.nodes ELSE n \in server'.nodes /\ v = server'.value[n]
  <2>1. CASE Changes(n)
    <3>1. server' = [server EXCEPT !.value[n] = 1 - @] /\ n \in server.nodes
      BY <2>1 DEF Changes
    <3>2. server'.nodes = server.nodes /\ server'.value = [server.value EXCEPT ![n] = 1 - server.value[n]] /\ server.value \in [Node -> {0, 1}]
      BY <1>0, <3>1 DEF Servers
    <3>3. 1 - server.value[n] \in {0, 1}
      BY <3>2
    <3>. QED  BY <2>1, <3>1, <3>2, <3>3 DEF Changes
  <2>2. CASE Leaves(n)
    <3>1. server' = [server EXCEPT !.nodes = @ \ {n}]
      BY <2>2 DEF Leaves
    <3>2. server'.nodes = server.nodes \ {n} /\ server'.value = server.value
      BY <1>0, <3>1 DEF Servers
    <3>. QED  BY <2>2, <3>2 DEF Leaves
  <2>. QED  BY <2>1, <2>2
<1> DEFINE e == Event(kind, n, v)
<1>3. /\ e \in Events /\ e \in Messages /\ e.node = n /\ e.value = v /\ e.type = kind /\ Range(e.nodes) = {} /\ About(e) = {n}
  <2>1. e \in Events /\ e.node = n /\ e.type = kind /\ e.value = v
    BY EventIs
  <2> HIDE DEF e
  <2>. QED  BY <2>1, EventsAre
<1>4. wires' = Tell(wires, e) /\ Heard(e)
  BY <1>2 DEF Told
<1> HIDE DEF e
<1>5. Tells(e, n, server'.nodes, server'.value)
  BY <1>2, <1>3 DEF Tells
<1>6. \A s \in Socket : wires[s].listening => Live(wires, s) /\ Hears(wires, s)
  BY <1>0 DEF SoundNow, Sound, Live, Hears
<1>7. /\ Sends(wires, wires', e)
      /\ \A s \in Socket : /\ wires[s].listening => wires'[s].inbox = Append(wires[s].inbox, e)
                           /\ ~wires[s].listening => wires'[s].inbox = wires[s].inbox
  BY <1>0, <1>3, <1>4, <1>6, ToldSends
<1>8. SoundNow'
  BY <1>0, <1>2, <1>3, <1>5, <1>7, SendsSound DEF SoundNow
<1>9. Unread(wires) \subseteq Unread(wires') /\ ((\E s \in Socket : Hears(wires, s)) => n \in Unread(wires'))
  BY <1>0, <1>3, <1>7, SendsUnread DEF Hears
<1>10. hist'.missed = (IF \E s \in Socket : Hears(wires, s) THEN hist.missed ELSE hist.missed \cup {n}) /\ hist'.overtaken = hist.overtaken
  BY <1>0, <1>3, <1>4 DEF Heard, Histories
<1>11. Hearing' = Hearing
  BY <1>7, HearingSends
<1>. QED  BY <1>1, <1>2, <1>8, <1>9, <1>10, <1>11, SentNews DEF Astray

LEMMA NewsRefused ==
  ASSUME TypeOK, TypeOK', News, NEW a \in server.asked, Refused(a)
  PROVE  News'
<1> DEFINE m == Reply(a.req, FALSE, <<>>)
<1>0. /\ wires \in [Socket -> Wires] /\ server \in Servers /\ SoundNow
  BY DEF TypeOK, OtherTypes, News
<1>1. m \in Messages /\ About(m) = {}
  <2>1. a.req \in Requests /\ <<>> \in Listings
    BY <1>0, NoneLeft DEF Listings, Servers
  <2>2. m \in Replies /\ m.nodes = <<>>
    BY <2>1, ReplyIs
  <2>. QED  BY <2>2, RepliesAre
<1>2. /\ wires' = Answer(wires, a.socket, m) /\ server' = [server EXCEPT !.asked = @ \ {a}]
      /\ home' = home /\ jobs' = jobs /\ hist' = hist
  BY DEF Refused, hub
<1>3. server'.nodes = server.nodes /\ server'.value = server.value
  BY <1>0, <1>2 DEF Servers
<1> HIDE DEF m
<1>4. Sends(wires, wires', m)
  BY <1>0, <1>1, <1>2, AnswerSends
<1>5. SoundNow'
  BY <1>0, <1>1, <1>3, <1>4, SendsSound DEF SoundNow
<1>6. Unread(wires) \subseteq Unread(wires')
  BY <1>0, <1>1, <1>4, SendsUnread
<1>7. Hearing' = Hearing
  BY <1>4, HearingSends
<1>8. \A n \in Node, v \in {0, 1} : Agrees(n, v) => Agrees(n, v)'
  BY <1>3, <1>7 DEF Agrees
<1>9. JobsSound' /\ HomeSound'
  BY <1>2, <1>6, <1>8, NewsKept DEF News, Astray
<1>. QED  BY <1>2, <1>5, <1>9 DEF News, IdleJobs

(* Steps of which connections, records and listings see nothing.           *)
LEMMA NewsUnseen ==
  ASSUME TypeOK, News, wires' = wires, home' = home, jobs' = jobs,
         hist'.overtaken = hist.overtaken, hist.missed \subseteq hist'.missed,
         server'.nodes = server.nodes, server'.value = server.value
  PROVE  News'
<1>1. Cuts(wires, wires')
  BY CutsSame DEF News
<1>2. Astray \subseteq Astray'
  BY DEF Astray
<1>. QED  BY <1>1, <1>2, CutNews

(* A user gives a device an area. *)
LEMMA NewsAssigned ==
  ASSUME TypeOK, News, NEW n \in Node, Assign(n)
  PROVE  News'
<1>1. UNCHANGED <<jobs, wires, server, hist>> /\ home' = [r \in DOMAIN home |-> IF r[1] = n THEN [home[r] EXCEPT !.area = n] ELSE home[r]]
  BY DEF Assign
<1>2. \A r \in DOMAIN home : home[r] \in Devices
  BY OfRegistry DEF TypeOK, HubTypes
<1>3. DOMAIN home' = DOMAIN home /\ \A r \in DOMAIN home : home'[r].value = home[r].value
  BY <1>1, <1>2 DEF Devices
<1>4. SoundNow' /\ IdleJobs' /\ JobsSound' /\ One(home') /\ Astray' = Astray /\ ToStore' = ToStore
  BY <1>1, <1>3 DEF News, SoundNow, IdleJobs, JobsSound, One, Astray, ToStore, Due, Agrees, Hearing
<1>5. \A m, v : Agrees(m, v)' <=> Agrees(m, v)
  BY <1>1 DEF Agrees, Hearing
<1>6. HomeSound'
  BY <1>1, <1>3, <1>4, <1>5 DEF News, HomeSound
<1>. QED  BY <1>4, <1>6 DEF News

(* Connections that open, close, break or are given up. *)
OnlyCut ==
  /\ Cuts(wires, wires') /\ home' = home /\ jobs' = jobs
  /\ hist'.overtaken = hist.overtaken /\ Astray \subseteq Astray'
  /\ server'.nodes = server.nodes /\ server'.value = server.value

LEMMA CutsOnly ==
  ASSUME TypeOK, TypeOK', News,
         \/ \E s \in Socket : Opened(s) \/ Closed(s) \/ Drops(s)
         \/ TimerFires \/ Goes \/ Started \/ Unselects \/ Unselected
  PROVE  OnlyCut
<1>0. /\ wires \in [Socket -> Wires] /\ wires' \in [Socket -> Wires] /\ server \in Servers /\ hist \in Histories
      /\ bridge \in Bridges /\ SoundNow
  BY DEF TypeOK, HubTypes, OtherTypes, News
<1>1. \A s \in Socket : wires[s].phase \notin {"open", "closing"} => wires[s].inbox = <<>> /\ ~wires[s].listening
  BY <1>0 DEF SoundNow, Sound
<1>2. ASSUME \A s \in Socket :
               \/ /\ wires'[s].inbox = wires[s].inbox /\ wires'[s].listening = wires[s].listening
                  /\ wires[s].phase \in {"open", "closing"} => wires'[s].phase \in {"open", "closing"}
               \/ wires'[s].inbox = <<>> /\ wires'[s].listening = FALSE
      PROVE  Cuts(wires, wires')
  BY <1>0, <1>1, <1>2 DEF Cuts
<1>3. /\ NoWire.inbox = <<>> /\ NoWire.listening = FALSE
      /\ [NoWire EXCEPT !.phase = "connecting"].inbox = <<>> /\ [NoWire EXCEPT !.phase = "connecting"].listening = FALSE
      /\ [NoWire EXCEPT !.phase = "lost"].inbox = <<>> /\ [NoWire EXCEPT !.phase = "lost"].listening = FALSE
  BY DEF NoWire
<1>4. ASSUME NEW S \in SUBSET Socket, Cuts(wires, wires'), \A s \in Socket : s \in S \/ wires'[s].inbox = wires[s].inbox,
             home' = home, jobs' = jobs, hist'.overtaken = hist.overtaken,
             hist.missed \cup Unread(Restrict(wires, S)) \subseteq hist'.missed,
             server'.nodes = server.nodes, server'.value = server.value
      PROVE  OnlyCut
  <2>1. S \cap Socket = S
    BY <1>4
  <2>2. Unread(wires) \subseteq Unread(Restrict(wires, S)) \cup Unread(wires')
    BY <1>4, <2>1, CutsMissed
  <2>3. Astray \subseteq Astray'
    BY <1>4, <2>2 DEF Astray
  <2>. QED  BY <1>4, <2>3 DEF OnlyCut
<1>nothing. Unread(Restrict(wires, {})) = {}
  <2>1. DOMAIN Restrict(wires, {}) = {}
    BY DEF Restrict
  <2>. QED  BY <2>1, UnreadAre
<1>all. Unread(Restrict(wires, Socket)) = Unread(wires)
  <2>1. Restrict(wires, Socket) = wires
    BY <1>0 DEF Restrict
  <2>. QED  BY <2>1
<1>5. ASSUME NEW s \in Socket, Opened(s)  PROVE OnlyCut
  <2>1. /\ wires' = [wires EXCEPT ![s].phase = "open"] /\ wires[s].phase = "connecting"
        /\ UNCHANGED <<home, jobs>> /\ Listen(s)
    BY <1>5 DEF Opened
  <2>2. \A o \in Socket : wires'[o].inbox = wires[o].inbox /\ wires'[o].listening = wires[o].listening
                          /\ (wires[o].phase \in {"open", "closing"} => wires'[o].phase \in {"open", "closing"})
    BY <1>0, <2>1 DEF Wires
  <2>3. server'.nodes = server.nodes /\ server'.value = server.value /\ hist'.overtaken = hist.overtaken /\ hist'.missed = hist.missed
    BY <1>0, <2>1 DEF Listen, Ask, Servers, Histories
  <2>. QED  BY <1>2, <1>4, <1>nothing, <2>1, <2>2, <2>3
<1>6. ASSUME NEW s \in Socket, Closed(s)  PROVE OnlyCut
  <2>1. /\ wires' = [wires EXCEPT ![s] = NoWire] /\ server' = Orphaned(s) /\ UNCHANGED <<home, jobs>>
        /\ hist' = [hist EXCEPT !.unheard = Unheard(pending), !.missed = @ \cup Unread(Restrict(wires, {s}))]
    BY <1>6 DEF Closed
  <2>2. \A o \in Socket : (o # s /\ wires'[o] = wires[o]) \/ (o = s /\ wires'[o] = NoWire)
    BY <1>0, <2>1
  <2>3. server'.nodes = server.nodes /\ server'.value = server.value
    BY <1>0, <2>1, OrphanedTypes
  <2>4. hist'.overtaken = hist.overtaken /\ hist'.missed = hist.missed \cup Unread(Restrict(wires, {s}))
    BY <1>0, <2>1 DEF Histories
  <2>5. Cuts(wires, wires') /\ \A o \in Socket : o \in {s} \/ wires'[o].inbox = wires[o].inbox
    BY <1>2, <1>3, <2>2
  <2>. QED  BY <1>4, <2>1, <2>3, <2>4, <2>5
<1>7. ASSUME NEW S \in SUBSET Socket, wires' = Broken(wires, S), home' = home, jobs' = jobs, hist'.overtaken = hist.overtaken,
             hist'.missed = hist.missed \cup Unread(Restrict(wires, S)), server'.nodes = server.nodes, server'.value = server.value
      PROVE  OnlyCut
  <2>1. \A s \in Socket : \/ wires'[s] = wires[s]
                          \/ wires'[s] = [NoWire EXCEPT !.phase = "lost"] /\ s \in S
    BY <1>0, <1>7, BrokenIs
  <2>2. Cuts(wires, wires') /\ \A s \in Socket : s \in S \/ wires'[s].inbox = wires[s].inbox
    BY <1>2, <1>3, <2>1
  <2>. QED  BY <1>4, <1>7, <2>2
<1>8. ASSUME NEW s \in Socket, Drops(s)  PROVE OnlyCut
  <2>1. /\ wires' = Broken(wires, {s}) /\ server' = Orphaned(s) /\ UNCHANGED <<home, jobs>>
        /\ hist' = [hist EXCEPT !.missed = @ \cup Unread(Restrict(wires, {s}))]
    BY <1>8 DEF Drops, hub
  <2>2. server'.nodes = server.nodes /\ server'.value = server.value
    BY <1>0, <2>1, OrphanedTypes
  <2>3. hist'.overtaken = hist.overtaken /\ hist'.missed = hist.missed \cup Unread(Restrict(wires, {s}))
    BY <1>0, <2>1 DEF Histories
  <2>. QED  BY <1>7, <2>1, <2>2, <2>3
<1>9. CASE Goes \/ Unselects
  <2>1. wires' = Broken(wires, Socket) /\ UNCHANGED <<home, jobs>> /\ Stopped
    BY <1>9 DEF Goes, Unselects, hub
  <2>2. server'.nodes = server.nodes /\ server'.value = server.value
    BY <1>0, <2>1 DEF Stopped, Servers
  <2>3. hist'.overtaken = hist.overtaken /\ hist'.missed = hist.missed \cup Unread(wires)
    BY <1>0, <2>1 DEF Stopped, Histories
  <2>. QED  BY <1>7, <1>all, <2>1, <2>2, <2>3
<1>10. CASE TimerFires
  <2> DEFINE b == [bridge EXCEPT !.timers = @ - 1]
  <2>1. UNCHANGED <<home, jobs, server, hist>> /\ bridge.timers > 0
    BY <1>10 DEF TimerFires
  <2>2. b \in Bridges
    BY <1>0, <2>1 DEF Bridges
  <2>3. \/ Connecting(b, wires) /\ \E x \in Socket : wires[x].phase = "none"
        \/ wires' = wires
    BY <1>10 DEF TimerFires, Free
  <2> HIDE DEF b
  <2>4. \A s \in Socket : wires'[s] = wires[s] \/ (wires[s].phase = "none" /\ wires'[s] = [NoWire EXCEPT !.phase = "connecting"])
    BY <1>0, <2>2, <2>3, ConnectingIs
  <2>5. \A s \in Socket : wires'[s].inbox = wires[s].inbox
    BY <1>1, <1>3, <2>4
  <2>6. Cuts(wires, wires')
    BY <1>2, <1>3, <2>4
  <2>. QED  BY <1>4, <1>nothing, <2>1, <2>5, <2>6
<1>11. CASE Started \/ Unselected
  <2>1. PICK on \in BOOLEAN : SetUrl(on)
    BY <1>11 DEF Started, Unselected
  <2>2. UNCHANGED <<home, jobs>> /\ server'.nodes = server.nodes /\ server'.value = server.value
    BY <1>0, <1>11 DEF Started, Unselected, Servers
  <2>3. hist'.overtaken = hist.overtaken /\ hist'.missed = hist.missed
    BY <1>0, <1>11 DEF Started, Unselected, Histories
  <2>4. \A s \in Socket : \/ /\ wires'[s].inbox = wires[s].inbox /\ wires'[s].listening = wires[s].listening
                             /\ wires'[s].phase \in {"open", "closing"} <=> wires[s].phase \in {"open", "closing"}
                          \/ wires[s].phase = "none" /\ wires'[s] = [NoWire EXCEPT !.phase = "connecting"]
    BY <1>0, <2>1, SetUrlIs
  <2>5. \A s \in Socket : wires'[s].inbox = wires[s].inbox
    BY <1>1, <1>3, <2>4
  <2>6. Cuts(wires, wires')
    BY <1>2, <1>3, <2>4
  <2>. QED  BY <1>4, <1>nothing, <2>2, <2>3, <2>5, <2>6
<1>. QED  BY <1>5, <1>6, <1>8, <1>9, <1>10, <1>11

(***************************************************************************)
(* A message is read: what it says is true, or another one follows.        *)
(***************************************************************************)
LEMMA ReadNews ==
  ASSUME TypeOK, SoundNow, NEW s \in Socket, wires[s].inbox # <<>>, wires' = [wires EXCEPT ![s].inbox = Tail(@)],
         server'.nodes = server.nodes, server'.value = server.value
  PROVE  /\ Head(wires[s].inbox) \in Messages
         /\ SoundNow' /\ Hearing' = Hearing
         /\ Unread(wires) \subseteq Unread(wires') \cup About(Head(wires[s].inbox))
         /\ \A n \in About(Head(wires[s].inbox)) : n \in Unread(wires') \/ Tells(Head(wires[s].inbox), n, server.nodes, server.value)
<1> DEFINE q == wires[s].inbox
           m == Head(q)
<1>0. wires \in [Socket -> Wires]
  BY DEF TypeOK, OtherTypes
<1>1. /\ m \in Messages /\ Tail(q) \in Seq(Messages) /\ wires' \in [Socket -> Wires]
      /\ wires'[s].inbox = Tail(q) /\ wires'[s].phase = wires[s].phase /\ wires'[s].listening = wires[s].listening
      /\ \A o \in Socket : o # s => wires'[o] = wires[o]
  BY <1>0, ReadsIs
<1>2. q \in Seq(Messages) /\ Range(q) = {m} \cup Range(Tail(q))
  <2>1. q \in Seq(Messages)
    BY <1>0 DEF Wires
  <2>. QED  BY <2>1, HeadAndTail
<1>3. Correct(q, server.nodes, server.value)
  BY DEF SoundNow, Sound
<1>4. /\ Correct(Tail(q), server.nodes, server.value)
      /\ \A n \in About(m) : (\A x \in Range(Tail(q)) : n \notin About(x)) => Tells(m, n, server.nodes, server.value)
  BY <1>2, <1>3, CorrectTail
<1> HIDE DEF q, m
<1>5. SoundNow'
  <2> SUFFICES ASSUME NEW o \in Socket
               PROVE  /\ wires'[o].phase \notin {"open", "closing"} => wires'[o].inbox = <<>> /\ ~wires'[o].listening
                      /\ ~wires'[o].listening => \A x \in Range(wires'[o].inbox) : About(x) = {}
                      /\ Correct(wires'[o].inbox, server.nodes, server.value)
    BY DEF SoundNow, Sound
  <2>1. CASE o # s
    BY <1>1, <2>1 DEF SoundNow, Sound
  <2>2. CASE o = s
    <3>1. /\ wires[s].phase \notin {"open", "closing"} => q = <<>> /\ ~wires[s].listening
          /\ ~wires[s].listening => \A x \in Range(q) : About(x) = {}
      BY DEF SoundNow, Sound, q
    <3>2. wires[s].phase \in {"open", "closing"}
      BY <3>1 DEF q
    <3>. QED  BY <1>1, <1>2, <1>4, <2>2, <3>1, <3>2
  <2>. QED  BY <2>1, <2>2
<1>6. Hearing' = Hearing
  <2>1. \A o \in Socket : wires'[o].listening = wires[o].listening
    BY <1>1
  <2>. QED  BY <2>1 DEF Hearing
<1>7. DOMAIN wires = Socket /\ DOMAIN wires' = Socket
  BY <1>0, <1>1
<1>8. Unread(wires) \subseteq Unread(wires') \cup About(m)
  <2> SUFFICES ASSUME NEW n \in Node, NEW o \in Socket, NEW x \in Range(wires[o].inbox), n \in About(x)
               PROVE  n \in Unread(wires') \cup About(m)
    BY <1>7, UnreadAre
  <2>1. CASE x \in Range(wires'[o].inbox)
    BY <1>7, <2>1, UnreadAre
  <2>2. CASE x \notin Range(wires'[o].inbox)
    <3>1. o = s
      BY <1>1, <2>2
    <3>2. x = m
      BY <1>1, <1>2, <2>2, <3>1 DEF q
    <3>. QED  BY <3>2
  <2>. QED  BY <2>1, <2>2
<1>9. ASSUME NEW n \in About(m)
      PROVE  n \in Unread(wires') \/ Tells(m, n, server.nodes, server.value)
  <2>1. n \in Node
    BY DEF About
  <2>2. CASE \E x \in Range(Tail(q)) : n \in About(x)
    BY <1>1, <1>7, <2>1, <2>2, UnreadAre
  <2>3. CASE \A x \in Range(Tail(q)) : n \notin About(x)
    BY <1>4, <2>3
  <2>. QED  BY <2>2, <2>3
<1>. QED  BY <1>1, <1>5, <1>6, <1>8, <1>9 DEF m, q

(* A device's record is updated, and what is older is marked as such.      *)
LEMMA UpdatedNews ==
  ASSUME TypeOK, News, SoundNow', IdleJobs', NEW n \in Node, Updates(home', n),
         Hearing' = Hearing, server'.nodes = server.nodes, server'.value = server.value,
         \A j \in Jobs : /\ \A e \in Waiting(jobs'[j]) : \E x \in Waiting(jobs[j]) : e = Marked(x, n)
                         /\ \A x \in Waiting(jobs[j]) : x.node # n => x \in Waiting(jobs'[j]),
         \A o \in Node : o # n => /\ o \in Astray => o \in Astray'
                                  /\ o \in hist.overtaken => o \in hist'.overtaken,
         \A r \in DOMAIN home' : r[1] = n => n \in Astray' \cup hist'.overtaken \cup ToStore' \/ Agrees(n, home'[r].value)
  PROVE  News'
<1>1. \A o, v : Agrees(o, v)' <=> Agrees(o, v)
  BY DEF Agrees
<1>2. \A o \in Node : o # n => /\ o \in ToStore => o \in ToStore'
                               /\ o \in Due => o \in Due'
  <2> SUFFICES ASSUME NEW o \in Node, o # n
               PROVE  (o \in ToStore => o \in ToStore') /\ (o \in Due => o \in Due')
    OBVIOUS
  <2>1. ASSUME o \in ToStore  PROVE o \in ToStore'
    <3>1. PICK j \in Jobs : \E x \in Waiting(jobs[j]) : x.node = o
      BY <2>1, DueAre
    <3>2. PICK x \in Waiting(jobs[j]) : x.node = o
      BY <3>1
    <3>3. x \in Waiting(jobs'[j])
      BY <3>2
    <3>. QED  BY <3>2, <3>3 DEF ToStore
  <2>2. ASSUME o \in Due  PROVE o \in Due'
    <3>1. PICK j \in Jobs : \E x \in Waiting(jobs[j]) : x.node = o /\ ~x.stale /\ Agrees(o, x.value)
      BY <2>2, DueAre
    <3>2. PICK x \in Waiting(jobs[j]) : x.node = o /\ ~x.stale /\ Agrees(o, x.value)
      BY <3>1
    <3>3. x \in Waiting(jobs'[j]) /\ Agrees(o, x.value)'
      BY <1>1, <3>2
    <3>. QED  BY <3>2, <3>3 DEF Due
  <2>. QED  BY <2>1, <2>2
<1>3. JobsSound'
  <2> SUFFICES ASSUME NEW j \in Jobs, NEW e \in Waiting(jobs'[j]), ~e.stale  PROVE e.node \in Astray' \cup Due'
    BY DEF JobsSound
  <2>1. PICK x \in Waiting(jobs[j]) : e = Marked(x, n)
    OBVIOUS
  <2>2. x \in Entries /\ x.node \in Node
    BY EntriesAre
  <2>3. x.node # n /\ e = x
    BY <2>1, <2>2, MarkedAre
  <2>4. x.node \in Astray \cup Due
    BY <2>3 DEF News, JobsSound
  <2>. QED  BY <1>2, <2>2, <2>3, <2>4
<1>4. HomeSound'
  <2> SUFFICES ASSUME NEW r \in DOMAIN home'
               PROVE  r[1] \in Astray' \cup hist'.overtaken \cup ToStore' \/ Agrees(r[1], home[r].value)'
    BY DEF HomeSound
  <2>0. Agrees(r[1], home[r].value)' <=> Agrees(r[1], home'[r].value)
    BY DEF Agrees
  <2>1. CASE r[1] = n
    BY <2>0, <2>1
  <2>2. CASE r[1] # n
    <3>1. r \in DOMAIN home /\ home'[r] = home[r]
      BY <2>2 DEF Updates
    <3>2. r[1] \in Astray \cup hist.overtaken \cup ToStore \/ Agrees(r[1], home[r].value)
      BY <3>1 DEF News, HomeSound
    <3>3. r[1] \in Node
      BY <3>1, EntriesAre
    <3>. QED  BY <1>2, <2>0, <2>2, <3>1, <3>2, <3>3
  <2>. QED  BY <2>1, <2>2
<1>5. One(home')
  BY DEF Updates, News
<1>. QED  BY <1>3, <1>4, <1>5 DEF News

(* A listing is taken up, or its storing goes on or ends.                  *)
LEMMA ListedNews ==
  ASSUME TypeOK, News, SoundNow', IdleJobs', home' = home, hist'.overtaken = hist.overtaken,
         Hearing' = Hearing, server'.nodes = server.nodes, server'.value = server.value,
         \A j \in Jobs : /\ \A x \in Waiting(jobs[j]) : x \in Waiting(jobs'[j]) \/ x.node \in Astray'
                         /\ \A e \in Waiting(jobs'[j]) : ~e.stale => e \in Waiting(jobs[j]) \/ e.node \in Astray' \cup Due',
         \A o \in Node : o \in Astray => o \in Astray' \cup Due'
  PROVE  News'
<1>1. \A o, v : Agrees(o, v)' <=> Agrees(o, v)
  BY DEF Agrees
<1>2. Due \subseteq Astray' \cup Due'
  <2> SUFFICES ASSUME NEW o \in Due  PROVE o \in Astray' \cup Due'
    OBVIOUS
  <2>1. o \in Node
    BY DueAre
  <2>2. PICK j \in Jobs : \E x \in Waiting(jobs[j]) : x.node = o /\ ~x.stale /\ Agrees(o, x.value)
    BY DueAre
  <2>3. PICK x \in Waiting(jobs[j]) : x.node = o /\ ~x.stale /\ Agrees(o, x.value)
    BY <2>2
  <2>4. Agrees(o, x.value)'
    BY <1>1, <2>3
  <2>5. x \in Waiting(jobs'[j]) \/ o \in Astray'
    BY <2>3
  <2>. QED  BY <2>1, <2>3, <2>4, <2>5 DEF Due
<1>3. ToStore \subseteq Astray' \cup ToStore'
  <2> SUFFICES ASSUME NEW o \in ToStore  PROVE o \in Astray' \cup ToStore'
    OBVIOUS
  <2>1. o \in Node
    BY DueAre
  <2>2. PICK j \in Jobs : \E x \in Waiting(jobs[j]) : x.node = o
    BY DueAre
  <2>3. PICK x \in Waiting(jobs[j]) : x.node = o
    BY <2>2
  <2>4. x \in Waiting(jobs'[j]) \/ o \in Astray'
    BY <2>3
  <2>. QED  BY <2>1, <2>3, <2>4 DEF ToStore
<1>4. Due' \subseteq ToStore'
  BY DEF Due, ToStore
<1>5. JobsSound'
  <2> SUFFICES ASSUME NEW j \in Jobs, NEW e \in Waiting(jobs'[j]), ~e.stale  PROVE e.node \in Astray' \cup Due'
    BY DEF JobsSound
  <2>1. CASE e \in Waiting(jobs[j])
    <3>1. e.node \in Node /\ e.node \in Astray \cup Due
      BY <2>1, EntriesAre DEF News, JobsSound
    <3>. QED  BY <1>2, <3>1
  <2>. QED  BY <2>1
<1>6. HomeSound'
  <2> SUFFICES ASSUME NEW r \in DOMAIN home
               PROVE  r[1] \in Astray' \cup hist'.overtaken \cup ToStore' \/ Agrees(r[1], home[r].value)'
    BY DEF HomeSound
  <2>1. r[1] \in Node /\ (r[1] \in Astray \cup hist.overtaken \cup ToStore \/ Agrees(r[1], home[r].value))
    BY EntriesAre DEF News, HomeSound
  <2>. QED  BY <1>1, <1>3, <1>4, <2>1
<1>. QED  BY <1>5, <1>6 DEF News

LEMMA OvertakenWaiting ==
  ASSUME TypeOK, News, NEW n \in Node, jobs' = Overtakes(n, jobs)
  PROVE  /\ IdleJobs'
         /\ \A j \in Jobs : /\ \A e \in Waiting(jobs'[j]) : \E x \in Waiting(jobs[j]) : e = Marked(x, n)
                            /\ \A x \in Waiting(jobs[j]) : x.node # n => x \in Waiting(jobs'[j])
<1>0. jobs \in [Jobs -> JobStates]
  BY DEF TypeOK, HubTypes
<1>1. IdleJobs'
  BY <1>0, OvertakesIs DEF News, IdleJobs
<1>2. ASSUME NEW j \in Jobs
      PROVE  /\ \A e \in Waiting(jobs'[j]) : \E x \in Waiting(jobs[j]) : e = Marked(x, n)
             /\ \A x \in Waiting(jobs[j]) : Marked(x, n) \in Waiting(jobs'[j])
  BY <1>0, OvertakesWaiting
<1>3. ASSUME NEW j \in Jobs, NEW x \in Waiting(jobs[j]), x.node # n  PROVE x \in Waiting(jobs'[j])
  <2>1. x \in Entries
    BY EntriesAre
  <2>2. Marked(x, n) = x
    BY <1>3, <2>1, MarkedAre
  <2>. QED  BY <1>2, <2>2
<1>. QED  BY <1>1, <1>2, <1>3

(* What the hub receives. *)
LEMMA NewsReceived ==
  ASSUME TypeOK, TypeOK', News, NEW s \in Socket, Receives(s)
  PROVE  News'
<1> DEFINE m == Head(wires[s].inbox)
<1>0. /\ wires[s].inbox # <<>> /\ wires' = [wires EXCEPT ![s].inbox = Tail(@)]
      /\ EventReceived(m) \/ LateReply(m, s) \/ ListingReceived(m, s) \/ Commissioned(m, s) \/ Removed(m, s) \/ RequestEnds(m, s)
  BY DEF Receives
<1>1. /\ home \in Registries /\ bridge \in Bridges /\ server \in Servers /\ hist \in Histories
      /\ jobs \in [Jobs -> JobStates] /\ pending \subseteq [req : Requests, socket : Socket] /\ SoundNow
  BY DEF TypeOK, HubTypes, OtherTypes, News
<1>2. server'.nodes = server.nodes /\ server'.value = server.value
  <2>1. server' = server \/ \E A : server' = [server EXCEPT !.asked = A]
    BY <1>0 DEF EventReceived, LateReply, ListingReceived, Commissioned, Removed, RequestEnds
  <2>. QED  BY <1>1, <2>1 DEF Servers
<1>3. /\ m \in Messages /\ SoundNow' /\ Hearing' = Hearing /\ Unread(wires) \subseteq Unread(wires') \cup About(m)
      /\ \A n \in About(m) : n \in Unread(wires') \/ Tells(m, n, server.nodes, server.value)
  BY <1>0, <1>1, <1>2, ReadNews
<1> HIDE DEF m
<1>4. (m.type = "reply" => m \in Replies) /\ (m.type # "reply" => m \in Events)
  BY <1>3, MessagesAre
<1>5. CASE EventReceived(m)
  <2> DEFINE n == m.node
  <2>1. m.type \in {"node", "attribute", "removed"} /\ jobs' = Overtakes(n, jobs) /\ hist' = Fresh(n)
    BY <1>5 DEF EventReceived
  <2>2. m \in Events
    BY <1>4, <2>1
  <2>3. n \in Node /\ m.value \in {0, 1} /\ About(m) = {n}
    BY <2>2, EventsAre DEF Events
  <2>4. hist'.missed = hist.missed /\ hist'.overtaken = hist.overtaken \ {n}
    BY <1>1, <2>1 DEF Fresh, Histories
  <2>5. /\ Updates(home', n)
        /\ \A r \in DOMAIN home' : r[1] = n => m.type \in {"node", "attribute"} /\ home'[r].value = m.value
    <3>1. CASE m.type = "node"
      <4>1. home' = Ingested(n, m.value, bridge.allow)
        BY <1>5, <3>1 DEF EventReceived
      <4>. QED  BY <1>1, <2>3, <3>1, <4>1, IngestedUpdates
    <3>2. CASE m.type = "attribute"
      <4>1. home' = Attributed(n, m.value)
        BY <1>5, <3>2 DEF EventReceived
      <4>. QED  BY <1>1, <2>3, <3>2, <4>1, AttributedUpdates DEF News
    <3>3. CASE m.type = "removed"
      <4>1. home' = Without(home, Records(n))
        BY <1>5, <3>3 DEF EventReceived
      <4>. QED  BY <1>1, <2>3, <4>1, WithoutUpdates
    <3>. QED  BY <2>1, <3>1, <3>2, <3>3
  <2>6. /\ IdleJobs'
        /\ \A j \in Jobs : /\ \A e \in Waiting(jobs'[j]) : \E x \in Waiting(jobs[j]) : e = Marked(x, n)
                           /\ \A x \in Waiting(jobs[j]) : x.node # n => x \in Waiting(jobs'[j])
    BY <2>1, <2>3, OvertakenWaiting
  <2>7. \A o \in Node : o # n => (o \in Astray => o \in Astray') /\ (o \in hist.overtaken => o \in hist'.overtaken)
    BY <1>3, <2>3, <2>4 DEF Astray
  <2>8. ASSUME NEW r \in DOMAIN home', r[1] = n  PROVE n \in Astray' \/ Agrees(n, home'[r].value)
    <3>1. m.type \in {"node", "attribute"} /\ home'[r].value = m.value
      BY <2>5, <2>8
    <3>2. n \in Unread(wires') \/ Tells(m, n, server.nodes, server.value)
      BY <1>3, <2>3
    <3>. QED  BY <3>1, <3>2 DEF Tells, Agrees, Astray
  <2>. QED  BY <1>2, <1>3, <2>3, <2>5, <2>6, <2>7, <2>8, UpdatedNews
(* A listing taken up: what it brings was right when it was sent.          *)
<1>6. ASSUME NEW k \in Jobs, ~jobs[k].on, NEW allow \in BOOLEAN, jobs' = [jobs EXCEPT ![k] = Ingesting(allow, m.nodes)],
             m.type = "reply", home' = home, hist' = hist
      PROVE  News'
  <2>1. m \in Replies /\ m.nodes \in Listings /\ About(m) = {e.node : e \in Range(m.nodes)}
    BY <1>4, <1>6, RepliesAre
  <2>2. /\ Ingesting(allow, m.nodes) \in JobStates /\ Ingesting(allow, m.nodes).todo = m.nodes
        /\ Ingesting(allow, m.nodes).on /\ Ingesting(allow, m.nodes).saving = FALSE /\ m.nodes \in Seq(Entries)
    BY <2>1, IngestingIs
  <2> HIDE DEF m
  <2>3. Waiting(jobs[k]) = {}
    BY <1>1, <1>6, WaitingAre DEF News, IdleJobs
  <2>4. Waiting(jobs'[k]) = Range(m.nodes)
    BY <1>1, <1>6, <2>2 DEF Waiting, Rest
  <2>5. \A j \in Jobs : j # k => jobs'[j] = jobs[j]
    BY <1>1, <1>6
  <2>6. IdleJobs'
    BY <1>1, <1>6, <2>2, <2>5 DEF News, IdleJobs
  <2>7. ASSUME NEW e \in Range(m.nodes)  PROVE e.node \in Astray' \cup Due' /\ e.node \in About(m)
    <3>1. e \in [node : Node, value : {0, 1}, stale : {FALSE}]
      <4> DEFINE E == [node : Node, value : {0, 1}, stale : {FALSE}]
      <4>1. m.nodes \in Seq(E)
        BY <2>1 DEF Listings
      <4> HIDE DEF E
      <4>2. e \in E
        BY <2>7, <4>1, InRange
      <4>. QED  BY <4>2 DEF E
    <3>2. e.node \in About(m) /\ e.node \in Node /\ ~e.stale
      BY <2>1, <2>7, <3>1
    <3>3. CASE e.node \in Unread(wires')
      BY <3>2, <3>3 DEF Astray
    <3>4. CASE Tells(m, e.node, server.nodes, server.value)
      <4>1. e.node \in server'.nodes /\ e.value = server'.value[e.node]
        BY <1>2, <2>7, <3>4 DEF Tells
      <4>2. e \in Waiting(jobs'[k])
        BY <2>4, <2>7
      <4>3. Agrees(e.node, e.value)'
        BY <4>1 DEF Agrees
      <4>. QED  BY <3>2, <4>2, <4>3 DEF Due
    <3>. QED  BY <1>3, <3>2, <3>3, <3>4
  <2>8. \A o \in Node : o \in Astray => o \in Astray' \cup Due'
    <3> SUFFICES ASSUME NEW o \in Node, o \in Astray, o \notin Astray'  PROVE o \in Due'
      OBVIOUS
    <3>1. o \in About(m)
      BY <1>3, <1>6 DEF Astray
    <3>2. PICK e \in Range(m.nodes) : e.node = o
      BY <2>1, <3>1
    <3>. QED  BY <2>7, <3>2
  <2>9. \A j \in Jobs : /\ \A x \in Waiting(jobs[j]) : x \in Waiting(jobs'[j]) \/ x.node \in Astray'
                        /\ \A e \in Waiting(jobs'[j]) : ~e.stale => e \in Waiting(jobs[j]) \/ e.node \in Astray' \cup Due'
    BY <2>3, <2>4, <2>5, <2>7
  <2>. QED  BY <1>2, <1>3, <1>6, <2>6, <2>8, <2>9, ListedNews
<1>7. ASSUME About(m) = {}, home' = home, jobs' = jobs, hist'.overtaken = hist.overtaken, hist'.missed = hist.missed
      PROVE  News'
  <2>1. \A n \in Node, v \in {0, 1} : Agrees(n, v) => Agrees(n, v)'
    BY <1>2, <1>3 DEF Agrees
  <2>2. Astray \subseteq Astray'
    BY <1>3, <1>7 DEF Astray
  <2>3. JobsSound' /\ HomeSound'
    BY <1>7, <2>1, <2>2, NewsKept DEF News
  <2>. QED  BY <1>3, <1>7, <2>3 DEF News, IdleJobs
<1>8. CASE LateReply(m, s)
  <2>1. m.type = "reply" /\ home' = home /\ hist' = hist
    BY <1>8 DEF LateReply
  <2>2. m \in Replies
    BY <1>4, <2>1
  <2>3. CASE m.nodes # <<>>
    <3>1. ~jobs["late"].on /\ jobs' = [jobs EXCEPT !["late"] = Ingesting(bridge.allow, m.nodes)]
      BY <1>8, <2>3 DEF LateReply
    <3>2. "late" \in Jobs /\ bridge.allow \in BOOLEAN
      BY <1>1 DEF Jobs, Bridges
    <3>. QED  BY <1>6, <2>1, <3>1, <3>2
  <2>4. CASE m.nodes = <<>>
    <3>1. jobs' = jobs /\ About(m) = {}
      BY <1>8, <2>2, <2>4, RepliesAre DEF LateReply
    <3>. QED  BY <1>7, <2>1, <3>1
  <2>. QED  BY <2>3, <2>4
<1>9. ASSUME Awaited(m, s)
      PROVE  m \in Replies /\ m.type = "reply" /\ m.req \in Requests /\ (m.nodes = <<>> => About(m) = {}) /\ (m.nodes # <<>> => m.ok /\ m.req.kind = "listen")
  BY <1>4, <1>9, RepliesAre DEF Awaited
<1>10. CASE ListingReceived(m, s)
  <2>1. /\ Awaited(m, s) /\ m.req.kind = "listen" /\ ~jobs[m.req.of].on /\ home' = home /\ hist' = hist
        /\ jobs' = [jobs EXCEPT ![m.req.of] = Ingesting(m.req.of \in Session, m.nodes)]
    BY <1>10 DEF ListingReceived
  <2>2. m.req.of \in Jobs
    BY <1>9, <2>1, RequestOf DEF Jobs
  <2> DEFINE k == m.req.of
             allow == k \in Session
  <2>3. /\ k \in Jobs /\ allow \in BOOLEAN /\ ~jobs[k].on /\ m.type = "reply" /\ home' = home /\ hist' = hist
        /\ jobs' = [jobs EXCEPT ![k] = Ingesting(allow, m.nodes)]
    BY <1>9, <2>1, <2>2
  <2> HIDE DEF k, allow
  <2>. QED  BY <1>6, <2>3
<1>11. CASE Commissioned(m, s)
  <2>1. Awaited(m, s) /\ m.req.kind = "commission" /\ UNCHANGED <<home, jobs, hist>>
    BY <1>11 DEF Commissioned
  <2>2. About(m) = {}
    BY <1>9, <2>1
  <2>. QED  BY <1>7, <2>1, <2>2
<1>12. CASE RequestEnds(m, s)
  <2>1. /\ Awaited(m, s) /\ (~m.ok \/ m.req.kind = "command") /\ UNCHANGED <<home, jobs>>
        /\ hist' = [hist EXCEPT !.unheard = Unheard({[req |-> m.req]})]
    BY <1>12 DEF RequestEnds
  <2>2. About(m) = {}
    BY <1>9, <2>1
  <2>3. hist'.overtaken = hist.overtaken /\ hist'.missed = hist.missed
    BY <1>1, <2>1 DEF Histories
  <2>. QED  BY <1>7, <2>1, <2>2, <2>3
<1>13. CASE Removed(m, s)
  <2> DEFINE n == m.req.of
  <2>1. /\ Awaited(m, s) /\ m.req.kind = "remove" /\ home' = Without(home, Records(n))
        /\ jobs' = Overtakes(n, jobs) /\ hist' = Fresh(n)
    BY <1>13 DEF Removed
  <2>2. About(m) = {} /\ n \in Node
    BY <1>9, <2>1, RequestOf
  <2>3. hist'.missed = hist.missed /\ hist'.overtaken = hist.overtaken \ {n}
    BY <1>1, <2>1 DEF Fresh, Histories
  <2>4. Updates(home', n) /\ \A r \in DOMAIN home' : r[1] # n
    BY <1>1, <2>1, <2>2, WithoutUpdates
  <2>5. /\ IdleJobs'
        /\ \A j \in Jobs : /\ \A e \in Waiting(jobs'[j]) : \E x \in Waiting(jobs[j]) : e = Marked(x, n)
                           /\ \A x \in Waiting(jobs[j]) : x.node # n => x \in Waiting(jobs'[j])
    BY <2>1, <2>2, OvertakenWaiting
  <2>6. \A o \in Node : o # n => (o \in Astray => o \in Astray') /\ (o \in hist.overtaken => o \in hist'.overtaken)
    BY <1>3, <2>2, <2>3 DEF Astray
  <2>. QED  BY <1>2, <1>3, <2>2, <2>4, <2>5, <2>6, UpdatedNews
<1>. QED  BY <1>0, <1>5, <1>8, <1>10, <1>11, <1>12, <1>13

(* The next node of a listing: an older entry leaves a device that         *)
(* something newer overtook, a current one what the server has.            *)
LEMMA NewsIngested ==
  ASSUME TypeOK, TypeOK', News, NEW j \in Jobs, IngestNext(j)
  PROVE  News'
<1> DEFINE e == Head(jobs[j].todo)
           n == e.node
           mid == [jobs EXCEPT ![j].todo = Tail(@)]
           rest == Overtakes(n, mid)
           stored == n \in Known \/ jobs[j].allow \/ bridge.allow
<1>0. /\ home \in Registries /\ bridge \in Bridges /\ hist \in Histories /\ jobs \in [Jobs -> JobStates]
      /\ jobs' \in [Jobs -> JobStates] /\ jobs[j] \in JobStates
  BY DEF TypeOK, HubTypes, OtherTypes
<1>1. /\ jobs[j].todo # <<>> /\ ~jobs[j].saving
      /\ home' = Ingested(n, e.value, jobs[j].allow \/ bridge.allow)
      /\ jobs' = IF stored THEN [rest EXCEPT ![j].todo = <<e>> \o @, ![j].saving = TRUE] ELSE rest
      /\ hist' = (IF ~stored THEN hist
                  ELSE IF e.stale THEN [hist EXCEPT !.overtaken = @ \cup {e.node}]
                  ELSE Fresh(e.node))
      /\ UNCHANGED <<wires, server>>
  BY DEF IngestNext
<1>2. /\ jobs[j].todo \in Seq(Entries) /\ e \in Entries /\ Tail(jobs[j].todo) \in Seq(Entries)
      /\ Range(jobs[j].todo) = {e} \cup Range(Tail(jobs[j].todo))
  <2>1. jobs[j].todo \in Seq(Entries)
    BY <1>0 DEF JobStates
  <2>. QED  BY <1>1, <2>1, HeadAndTail
<1>3. n \in Node /\ e.value \in {0, 1} /\ e.stale \in BOOLEAN
  BY <1>2 DEF Entries
<1> HIDE DEF e, stored
<1>4. /\ mid \in [Jobs -> JobStates] /\ \A i \in Jobs : i # j => mid[i] = jobs[i]
      /\ mid[j].todo = Tail(jobs[j].todo) /\ mid[j].saving = FALSE /\ mid[j].on = jobs[j].on
  <2> DEFINE x == [jobs[j] EXCEPT !.todo = Tail(@)]
  <2>1. /\ x \in JobStates /\ x.todo = Tail(jobs[j].todo) /\ x.saving = FALSE /\ x.on = jobs[j].on
    BY <1>0, <1>1, <1>2 DEF JobStates
  <2>2. mid = [jobs EXCEPT ![j] = x]
    OBVIOUS
  <2> HIDE DEF x
  <2>. QED  BY <1>0, <2>1, <2>2
<1> HIDE DEF mid
<1>5. /\ Waiting(jobs[j]) = {e} \cup Waiting(mid[j])
      /\ \A i \in Jobs : i # j => Waiting(mid[i]) = Waiting(jobs[i])
  BY <1>1, <1>2, <1>4 DEF Waiting, Rest
<1>6. /\ rest \in [Jobs -> JobStates]
      /\ \A i \in Jobs : /\ rest[i].on = mid[i].on /\ rest[i].saving = mid[i].saving
                         /\ rest[i].todo \in Seq(Entries) /\ (rest[i].todo = <<>> <=> mid[i].todo = <<>>)
  BY <1>3, <1>4, OvertakesIs
<1>7. \A i \in Jobs : /\ \A y \in Waiting(rest[i]) : \E x \in Waiting(mid[i]) : y = Marked(x, n)
                      /\ \A x \in Waiting(mid[i]) : Marked(x, n) \in Waiting(rest[i])
  BY <1>3, <1>4, OvertakesWaiting
<1> HIDE DEF rest
<1>8. \A i \in Jobs : Waiting(jobs'[i]) = Waiting(rest[i]) /\ jobs'[i].on = rest[i].on /\ (i # j => jobs'[i].todo = rest[i].todo)
  <2>1. CASE ~stored
    BY <1>1, <2>1
  <2>2. CASE stored
    <3> DEFINE x == [rest[j] EXCEPT !.todo = <<e>> \o @, !.saving = TRUE]
    <3>1. <<e>> \o rest[j].todo \in Seq(Entries) /\ Tail(<<e>> \o rest[j].todo) = rest[j].todo
      BY <1>2, <1>6, Consed
    <3>2. rest[j] \in JobStates /\ rest[j].saving = FALSE
      BY <1>4, <1>6
    <3>3. x.todo = <<e>> \o rest[j].todo /\ x.saving = TRUE /\ x.on = rest[j].on
      BY <3>2 DEF JobStates
    <3>4. jobs' = [rest EXCEPT ![j] = x]
      BY <1>1, <1>6, <2>2
    <3> HIDE DEF x
    <3>5. jobs'[j] = x /\ \A i \in Jobs : i # j => jobs'[i] = rest[i]
      BY <1>6, <3>4
    <3>6. Waiting(x) = Waiting(rest[j])
      BY <3>1, <3>2, <3>3 DEF Waiting, Rest
    <3>. QED  BY <3>3, <3>5, <3>6
  <2>. QED  BY <2>1, <2>2
<1>9. IdleJobs'
  <2> SUFFICES ASSUME NEW i \in Jobs, ~jobs'[i].on  PROVE jobs'[i].todo = <<>>
    BY DEF IdleJobs
  <2>1. ~jobs[i].on
    BY <1>4, <1>6, <1>8
  <2>2. jobs[i].todo = <<>> /\ i # j
    BY <1>1, <2>1 DEF News, IdleJobs
  <2>. QED  BY <1>4, <1>6, <1>8, <2>2
<1>10. \A i \in Jobs : /\ \A y \in Waiting(jobs'[i]) : \E x \in Waiting(jobs[i]) : y = Marked(x, n)
                       /\ \A x \in Waiting(jobs[i]) : x.node # n => x \in Waiting(jobs'[i])
  <2> SUFFICES ASSUME NEW i \in Jobs
               PROVE  /\ \A y \in Waiting(jobs'[i]) : \E x \in Waiting(jobs[i]) : y = Marked(x, n)
                      /\ \A x \in Waiting(jobs[i]) : x.node # n => x \in Waiting(jobs'[i])
    OBVIOUS
  <2>1. \A x \in Waiting(jobs[i]) : x \in Entries
    BY EntriesAre
  <2>2. Waiting(mid[i]) \subseteq Waiting(jobs[i]) /\ \A x \in Waiting(jobs[i]) : x = e \/ x \in Waiting(mid[i])
    BY <1>5
  <2>3. \A x \in Waiting(jobs[i]) : x.node # n => Marked(x, n) = x
    BY <1>3, <2>1, MarkedAre
  <2>4. \A x \in Waiting(jobs[i]) : x.node # n => x # e
    OBVIOUS
  <2>. QED  BY <1>7, <1>8, <2>2, <2>3, <2>4
<1>11. Updates(home', n) /\ \A r \in DOMAIN home' : r[1] = n => home'[r].value = e.value
  BY <1>0, <1>1, <1>3, IngestedUpdates
<1>12. /\ hist'.missed = hist.missed /\ Astray' = Astray
       /\ \A o \in Node : o # n /\ o \in hist.overtaken => o \in hist'.overtaken
       /\ stored /\ e.stale => n \in hist'.overtaken
  BY <1>0, <1>1 DEF Fresh, Histories, Astray
<1>13. SoundNow' /\ Hearing' = Hearing
  BY <1>1 DEF News, SoundNow, Hearing
<1>14. ASSUME NEW r \in DOMAIN home', r[1] = n
       PROVE  n \in Astray' \cup hist'.overtaken \cup ToStore' \/ Agrees(n, home'[r].value)
  <2>1. stored
    <3>1. SUFFICES ASSUME ~stored  PROVE FALSE
      OBVIOUS
    <3>2. Records(n) = {} /\ ~(jobs[j].allow \/ bridge.allow)
      BY <3>1, RecordsAre DEF stored, Known, Records
    <3>3. home' = home
      BY <1>1, <3>2 DEF Ingested
    <3>. QED  BY <1>3, <1>14, <3>2, <3>3, RecordsAre
  <2>2. CASE e.stale
    BY <1>12, <2>1, <2>2
  <2>3. CASE ~e.stale
    <3>1. n \in Astray \cup Due
      BY <1>5, <2>3 DEF News, JobsSound
    <3>2. CASE n \in Astray
      BY <1>12, <3>2
    <3>3. CASE n \in Due
      <4>1. PICK i \in Jobs : \E y \in Waiting(jobs[i]) : y.node = n /\ ~y.stale /\ Agrees(n, y.value)
        BY <3>3, DueAre
      <4>2. PICK y \in Waiting(jobs[i]) : y.node = n /\ ~y.stale /\ Agrees(n, y.value)
        BY <4>1
      <4>3. CASE y = e
        BY <1>11, <1>14, <4>2, <4>3
      <4>4. CASE y # e
        <5>1. y \in Waiting(mid[i]) /\ y \in Entries
          BY <1>5, <4>2, <4>4, EntriesAre
        <5>2. Marked(y, n) \in Waiting(jobs'[i]) /\ Marked(y, n).node = n
          BY <1>3, <1>7, <1>8, <4>2, <5>1, MarkedAre
        <5>. QED  BY <1>3, <5>2 DEF ToStore
      <4>. QED  BY <4>3, <4>4
    <3>. QED  BY <3>1, <3>2, <3>3
  <2>. QED  BY <1>3, <2>2, <2>3
<1>15. server'.nodes = server.nodes /\ server'.value = server.value
  BY <1>1
<1>. QED  BY <1>3, <1>9, <1>10, <1>11, <1>12, <1>13, <1>14, <1>15, UpdatedNews

(* A save that ends, or a listing that does. *)
LEMMA NewsSaved ==
  ASSUME TypeOK, TypeOK', News, NEW j \in Jobs, IngestSaved(j) \/ IngestEnds(j)
  PROVE  News'
<1>0. /\ hist \in Histories /\ jobs \in [Jobs -> JobStates] /\ jobs[j] \in JobStates
  BY DEF TypeOK, HubTypes, OtherTypes
<1>1. UNCHANGED <<home, wires, server>> /\ hist'.overtaken = hist.overtaken /\ hist.missed \subseteq hist'.missed
  BY <1>0 DEF IngestSaved, IngestEnds, Histories
<1>2. SoundNow' /\ Hearing' = Hearing /\ Astray \subseteq Astray' /\ hist'.missed \subseteq Astray'
  BY <1>1 DEF News, SoundNow, Hearing, Astray
<1>3. ASSUME IdleJobs',
             \A i \in Jobs : i # j => jobs'[i] = jobs[i],
             \A x \in Waiting(jobs[j]) : x \in Waiting(jobs'[j]) \/ x.node \in Astray',
             \A e \in Waiting(jobs'[j]) : e \in Waiting(jobs[j])
      PROVE  News'
  BY <1>1, <1>2, <1>3, ListedNews
<1>4. ASSUME NEW x \in JobStates, jobs' = [jobs EXCEPT ![j] = x], ~x.on => x.todo = <<>>
      PROVE  IdleJobs' /\ jobs'[j] = x /\ \A i \in Jobs : i # j => jobs'[i] = jobs[i]
  BY <1>0, <1>4 DEF News, IdleJobs
<1>5. Waiting(NoJob) = {} /\ NoJob \in JobStates /\ NoJob.todo = <<>>
  BY EmptyJob, WaitingAre
<1>6. CASE IngestEnds(j)
  <2>1. jobs' = [jobs EXCEPT ![j] = NoJob] /\ jobs[j].todo = <<>>
    BY <1>6 DEF IngestEnds
  <2>2. Waiting(jobs[j]) = {}
    BY <1>0, <2>1, WaitingAre
  <2>. QED  BY <1>3, <1>4, <1>5, <2>1, <2>2
<1>7. CASE IngestSaved(j) /\ Head(jobs[j].todo).node \in Known
  <2> DEFINE x == [jobs[j] EXCEPT !.todo = Tail(@), !.saving = FALSE]
  <2>1. jobs' = [jobs EXCEPT ![j].todo = Tail(@), ![j].saving = FALSE] /\ jobs[j].saving
    BY <1>7 DEF IngestSaved
  <2>2. jobs[j].todo \in Seq(Entries) /\ jobs[j].todo # <<>>
    BY <1>0, <2>1 DEF JobStates
  <2>3. Tail(jobs[j].todo) \in Seq(Entries)
    BY <2>2, HeadAndTail
  <2>4. x \in JobStates /\ x.todo = Tail(jobs[j].todo) /\ x.saving = FALSE /\ x.on = jobs[j].on
    BY <1>0, <2>3 DEF JobStates
  <2>5. jobs' = [jobs EXCEPT ![j] = x]
    BY <1>0, <2>1
  <2>6. jobs[j].on
    BY <2>2, <1>0 DEF News, IdleJobs, JobStates
  <2> HIDE DEF x
  <2>7. Waiting(x) = Waiting(jobs[j])
    BY <2>1, <2>4 DEF Waiting, Rest
  <2>. QED  BY <1>3, <1>4, <2>4, <2>5, <2>6, <2>7
<1>8. CASE IngestSaved(j) /\ Head(jobs[j].todo).node \notin Known
  <2>1. jobs' = [jobs EXCEPT ![j] = NoJob] /\ hist' = [hist EXCEPT !.missed = @ \cup {e.node : e \in Range(jobs[j].todo)}]
    BY <1>8 DEF IngestSaved
  <2>2. hist'.missed = hist.missed \cup {e.node : e \in Range(jobs[j].todo)}
    BY <1>0, <2>1 DEF Histories
  <2>3. \A x \in Waiting(jobs[j]) : x.node \in Astray'
    BY <1>0, <1>2, <2>2, WaitingAre
  <2>. QED  BY <1>3, <1>4, <1>5, <2>1, <2>3
<1>. QED  BY <1>6, <1>7, <1>8 DEF IngestSaved

LEMMA NewsStep == TypeOK /\ TypeOK' /\ News /\ [Next]_vars => News'
<1> SUFFICES ASSUME TypeOK, TypeOK', News, [Next]_vars  PROVE News'
  OBVIOUS
<1>0. hist \in Histories /\ server \in Servers
  BY DEF TypeOK, OtherTypes
<1>1. CASE \/ \E a \in pending : TimesOut(a)
           \/ \E n \in Node : EventSaved(n) \/ Removes(n) \/ Commands(n)
           \/ \E s \in Session : Cancels(s) \/ \E n \in Node : Starts(s, n)
           \/ Comes \/ Refreshes \/ Selects \/ StartFails \/ Clears
           \/ UNCHANGED vars
  <2>1. wires' = wires /\ home' = home /\ jobs' = jobs
    BY <1>1 DEF TimesOut, EventSaved, Removes, Commands, Refreshes, Asks, Cancels, Starts, Comes, Selects, StartFails, Clears, vars, hub
  <2>2. hist'.overtaken = hist.overtaken /\ hist'.missed = hist.missed
    BY <1>0, <1>1 DEF TimesOut, EventSaved, Removes, Commands, Refreshes, Cancels, Starts, Comes, Selects, StartFails, Clears, vars, hub, Histories
  <2>3. server'.nodes = server.nodes /\ server'.value = server.value
    BY <1>0, <1>1 DEF TimesOut, EventSaved, Removes, Commands, Refreshes, Asks, Ask, Cancels, Starts, Comes, Selects, StartFails, Clears, vars, hub, Servers
  <2>. QED  BY <2>1, <2>2, <2>3, NewsUnseen
<1>2. CASE \/ \E s \in Socket : Opened(s) \/ Closed(s) \/ Drops(s)
           \/ TimerFires \/ Goes \/ Started \/ Unselects \/ Unselected
  BY <1>2, CutsOnly, CutNews DEF OnlyCut
<1>3. CASE \E a \in server.asked : Served(a) \/ Refused(a)
  BY <1>3, NewsServed, NewsRefused
<1>4. CASE \E n \in Node : Changes(n) \/ Leaves(n)
  BY <1>4, NewsTold
<1>5. CASE \E s \in Socket : Receives(s)
  BY <1>5, NewsReceived
<1>6. CASE \E j \in Jobs : IngestNext(j) \/ IngestSaved(j) \/ IngestEnds(j)
  BY <1>6, NewsIngested, NewsSaved
<1>7. CASE \E n \in Node : Assign(n)
  BY <1>7, NewsAssigned
<1>. QED  BY <1>1, <1>2, <1>3, <1>4, <1>5, <1>6, <1>7 DEF Next

(***************************************************************************)
(* The devices around: those of the server, of the registry, and those     *)
(* that a message or listing on its way may bring.  Only a commissioning   *)
(* that is served adds one.                                                *)
(***************************************************************************)
Around == server.nodes \cup Coming \cup Known

LEMMA ToIngestAre == \A n, all : n \in ToIngest(all) <=> \E j \in Jobs : \E e \in Range(all[j].todo) : e.node = n
BY DEF ToIngest

LEMMA BroughtFewer ==
  ASSUME NEW w, NEW u, \A s \in Socket : Range(u[s].inbox) \subseteq Range(w[s].inbox)
  PROVE  Brought(u) \subseteq Brought(w)
BY BroughtAre

LEMMA UpdatedKnown ==
  ASSUME NEW n \in Node, Updates(home', n)
  PROVE  Known' \subseteq Known \cup {n}
BY DEF Updates, Known

LEMMA RemovedKnown ==
  ASSUME home \in Registries, NEW n \in Node, home' = Without(home, Records(n))
  PROVE  Known' \subseteq Known
<1>1. Updates(home', n) /\ \A r \in DOMAIN home' : r[1] # n
  BY WithoutUpdates
<1>. QED  BY <1>1 DEF Updates, Known

LEMMA OvertakenIngest ==
  ASSUME NEW all \in [Jobs -> JobStates], NEW n \in Node
  PROVE  ToIngest(Overtakes(n, all)) \subseteq ToIngest(all)
<1> SUFFICES ASSUME NEW j \in Jobs, NEW e \in Range(Overtakes(n, all)[j].todo)
             PROVE  \E x \in Range(all[j].todo) : x.node = e.node
  BY ToIngestAre
<1>1. all[j].todo \in Seq(Entries)
  BY DEF JobStates
<1>2. Overtakes(n, all)[j].todo = [i \in DOMAIN all[j].todo |-> Marked(all[j].todo[i], n)]
  BY OvertakesIs
<1>3. PICK x \in Range(all[j].todo) : e = Marked(x, n)
  BY <1>1, <1>2, MarkedSequence
<1>4. x \in Entries
  BY <1>1, InRange
<1>. QED  BY <1>3, <1>4, MarkedAre

LEMMA JobIngest ==
  ASSUME jobs \in [Jobs -> JobStates], NEW j \in Jobs, NEW x, jobs' = [jobs EXCEPT ![j] = x]
  PROVE  \A n \in ToIngest(jobs') : n \in ToIngest(jobs) \/ \E e \in Range(x.todo) : e.node = n
<1>1. jobs'[j] = x /\ \A i \in Jobs : i # j => jobs'[i] = jobs[i]
  OBVIOUS
<1> SUFFICES ASSUME NEW n \in ToIngest(jobs')  PROVE n \in ToIngest(jobs) \/ \E e \in Range(x.todo) : e.node = n
  OBVIOUS
<1>2. PICK i \in Jobs : \E e \in Range(jobs'[i].todo) : e.node = n
  BY ToIngestAre
<1>3. CASE i = j
  BY <1>1, <1>2, <1>3
<1>4. CASE i # j
  <2>1. \E e \in Range(jobs[i].todo) : e.node = n
    BY <1>1, <1>2, <1>4
  <2>. QED  BY <2>1, ToIngestAre
<1>. QED  BY <1>3, <1>4

(* A commissioning is served: the session's device joins. *)
Joins(a) == a \in server.asked /\ Served(a) /\ a.req.kind = "commission"

LEMMA AroundServed ==
  ASSUME TypeOK, TypeOK', NEW a \in server.asked, Served(a)
  PROVE  /\ a.req.kind # "commission" => Around' \subseteq Around
         /\ a.req.kind = "commission" => Around' \subseteq Around \cup {sessions[a.req.of].node}
<1> DEFINE r == a.req
           left == [server EXCEPT !.asked = @ \ {a}]
           ok == Reply(r, TRUE, <<>>)
<1>0. /\ wires \in [Socket -> Wires] /\ server \in Servers /\ Asking(server.asked, sessions)
  BY DEF TypeOK, OtherTypes, Linked
<1>1. r \in Requests /\ home' = home /\ jobs' = jobs /\ Known' = Known
  BY <1>0 DEF Served, Servers, hub, Known
<1>2. ok \in Messages /\ About(ok) = {}
  <2>1. <<>> \in Listings
    BY NoneLeft DEF Listings
  <2>2. ok \in Replies /\ ok.nodes = <<>>
    BY <1>1, <2>1, ReplyIs
  <2> HIDE DEF ok
  <2>. QED  BY <2>2, RepliesAre
<1>3. left \in Servers /\ left.nodes = server.nodes /\ left.value = server.value
  BY <1>0 DEF Servers
<1>4. ASSUME NEW e \in Events, wires' \in {Answer(Tell(wires, e), a.socket, ok), Tell(Answer(wires, a.socket, ok), e)}
      PROVE  Brought(wires') \subseteq Brought(wires) \cup (IF e.type = "removed" THEN {} ELSE {e.node})
  <2> HIDE DEF ok
  <2>1. e \in Messages /\ About(e) = {e.node}
    BY EventsAre
  <2>2. CASE wires' = Answer(Tell(wires, e), a.socket, ok)
    <3> DEFINE w == Tell(wires, e)
    <3>1. Sends(wires, w, e) /\ w \in [Socket -> Wires]
      BY <1>0, <2>1, ToldSends DEF Sends
    <3> HIDE DEF w
    <3>2. Sends(w, wires', ok)
      BY <1>2, <2>2, <3>1, AnswerSends DEF w
    <3>3. Brought(w) \subseteq Brought(wires) \cup (IF e.type = "removed" THEN {} ELSE {e.node})
      BY <1>0, <2>1, <3>1, SendsUnread
    <3>4. Brought(wires') \subseteq Brought(w)
      BY <1>2, <3>1, <3>2, SendsUnread
    <3>. QED  BY <3>3, <3>4
  <2>3. CASE wires' = Tell(Answer(wires, a.socket, ok), e)
    <3> DEFINE w == Answer(wires, a.socket, ok)
    <3>1. Sends(wires, w, ok) /\ w \in [Socket -> Wires]
      BY <1>0, <1>2, AnswerSends DEF Sends
    <3> HIDE DEF w
    <3>2. Sends(w, wires', e)
      BY <2>1, <2>3, <3>1, ToldSends DEF w
    <3>3. Brought(w) \subseteq Brought(wires)
      BY <1>0, <1>2, <3>1, SendsUnread
    <3>4. Brought(wires') \subseteq Brought(w) \cup (IF e.type = "removed" THEN {} ELSE {e.node})
      BY <2>1, <3>1, <3>2, SendsUnread
    <3>. QED  BY <3>3, <3>4
  <2>. QED  BY <1>4, <2>2, <2>3
<1>5. CASE r.kind = "listen"
  <2>1. /\ server' = left
        /\ wires' = IF Live(wires, a.socket) THEN Answer([wires EXCEPT ![a.socket].listening = TRUE], a.socket, Reply(r, TRUE, Listed)) ELSE wires
    BY <1>5 DEF Served
  <2>2. CASE ~Live(wires, a.socket)
    BY <1>1, <1>3, <1>5, <2>1, <2>2 DEF Around, Coming
  <2>3. CASE Live(wires, a.socket)
    <3> DEFINE s == a.socket
               w == [wires EXCEPT ![s].listening = TRUE]
               m == Reply(r, TRUE, Listed)
    <3>1. s \in Socket
      BY <2>3 DEF Live
    <3>2. m \in Messages /\ About(m) \subseteq server.nodes
      <4>1. Listed \in Listings /\ \A e \in Range(Listed) : e.node \in server.nodes
        BY <1>0, ListedAll
      <4>2. m \in Replies /\ m.nodes = Listed
        BY <1>1, <1>5, <4>1, ReplyIs
      <4> HIDE DEF m
      <4>. QED  BY <4>1, <4>2, RepliesAre
    <3>3. w \in [Socket -> Wires] /\ \A o \in Socket : w[o].inbox = wires[o].inbox
      <4> DEFINE x == [wires[s] EXCEPT !.listening = TRUE]
      <4>1. wires[s] \in Wires
        BY <1>0, <3>1
      <4>2. x \in Wires /\ x.inbox = wires[s].inbox
        BY <4>1 DEF Wires
      <4>3. w = [wires EXCEPT ![s] = x]
        OBVIOUS
      <4> HIDE DEF x
      <4>. QED  BY <1>0, <3>1, <4>2, <4>3
    <3> HIDE DEF w, m
    <3>4. Sends(w, wires', m)
      BY <2>1, <2>3, <3>2, <3>3, AnswerSends DEF w, m
    <3>5. Brought(wires') \subseteq Brought(w) \cup About(m)
      BY <3>2, <3>3, <3>4, SendsUnread
    <3>6. Brought(w) \subseteq Brought(wires)
      BY <3>3, BroughtFewer
    <3>. QED  BY <1>1, <1>3, <1>5, <2>1, <3>2, <3>5, <3>6 DEF Around, Coming
  <2>. QED  BY <2>2, <2>3
<1>6. CASE r.kind = "commission"
  <2> DEFINE n == sessions[r.of].node
             v == server.value[n]
  <2>1. PICK kind \in {"node", "attribute"} :
          LET e == Event(kind, n, v)
          IN /\ server' = [left EXCEPT !.nodes = @ \cup {n}]
             /\ wires' \in {Answer(Tell(wires, e), a.socket, ok), Tell(Answer(wires, a.socket, ok), e)}
    BY <1>6 DEF Served
  <2>2. n \in Node /\ v \in {0, 1}
    BY <1>0, <1>6 DEF Asking, Servers
  <2> DEFINE e == Event(kind, n, v)
  <2>3. server'.nodes = server.nodes \cup {n}
    BY <1>3, <2>1 DEF Servers
  <2>4. wires' \in {Answer(Tell(wires, e), a.socket, ok), Tell(Answer(wires, a.socket, ok), e)}
    BY <2>1
  <2> HIDE DEF n, v, ok
  <2>5. e \in Events /\ e.node = n
    BY <2>2, EventIs
  <2> HIDE DEF e
  <2>6. Brought(wires') \subseteq Brought(wires) \cup {n}
    BY <1>4, <2>4, <2>5
  <2>. QED  BY <1>1, <1>6, <2>3, <2>6 DEF Around, Coming, n
<1>7. CASE r.kind \in {"remove", "command"}
  <2> DEFINE n == r.of
             kind == IF r.kind = "remove" THEN "removed" ELSE "attribute"
             v == IF r.kind = "remove" THEN 0 ELSE 1 - server.value[n]
             e == Event(kind, n, v)
  <2>1. n \in Node
    BY <1>1, <1>7, RequestOf
  <2>2. v \in {0, 1}
    BY <1>0, <2>1 DEF Servers
  <2>3. wires' = Answer(Tell(wires, e), a.socket, ok)
    BY <1>7 DEF Served
  <2>4. server'.nodes \subseteq server.nodes /\ (r.kind = "command" => n \in server.nodes)
    <3>1. CASE r.kind = "remove"
      <4>1. server' = [left EXCEPT !.nodes = @ \ {n}]
        BY <3>1 DEF Served
      <4>. QED  BY <1>3, <3>1, <4>1 DEF Servers
    <3>2. CASE r.kind = "command"
      <4>1. server' = [left EXCEPT !.value[n] = 1 - @] /\ n \in server.nodes
        BY <3>2 DEF Served
      <4>. QED  BY <1>3, <4>1 DEF Servers
    <3>. QED  BY <1>7, <3>1, <3>2
  <2>5. kind \in {"node", "attribute", "removed"} /\ (kind = "removed" <=> r.kind = "remove")
    BY <1>7
  <2> HIDE DEF kind, n, v, ok
  <2>6. e \in Events /\ e.node = n /\ e.type = kind
    BY <2>1, <2>2, <2>5, EventIs
  <2> HIDE DEF e
  <2>7. Brought(wires') \subseteq Brought(wires) \cup (IF e.type = "removed" THEN {} ELSE {e.node})
    BY <1>4, <2>3, <2>6
  <2>. QED  BY <1>1, <1>7, <2>4, <2>5, <2>6, <2>7 DEF Around, Coming
<1>. QED  BY <1>1, <1>5, <1>6, <1>7, RequestOf

LEMMA AroundStep ==
  ASSUME TypeOK, TypeOK', News, [Next]_vars
  PROVE  \/ Around' \subseteq Around
         \/ \E a \in server.asked : Joins(a) /\ Around' \subseteq Around \cup {sessions[a.req.of].node}
<1>0. /\ home \in Registries /\ bridge \in Bridges /\ server \in Servers /\ wires \in [Socket -> Wires]
      /\ jobs \in [Jobs -> JobStates] /\ pending \subseteq [req : Requests, socket : Socket]
  BY DEF TypeOK, HubTypes, OtherTypes
<1>1. CASE \/ \E a \in pending : TimesOut(a)
           \/ \E n \in Node : EventSaved(n) \/ Removes(n) \/ Commands(n) \/ Assign(n)
           \/ \E s \in Session : Cancels(s) \/ \E n \in Node : Starts(s, n)
           \/ Comes \/ Refreshes \/ Selects \/ StartFails \/ Clears
           \/ UNCHANGED vars
  <2>1. wires' = wires /\ DOMAIN home' = DOMAIN home /\ jobs' = jobs
    BY <1>1 DEF TimesOut, EventSaved, Removes, Commands, Assign, Refreshes, Asks, Cancels, Starts, Comes, Selects, StartFails, Clears, vars, hub
  <2>2. server'.nodes = server.nodes
    BY <1>0, <1>1 DEF TimesOut, EventSaved, Removes, Commands, Assign, Refreshes, Asks, Ask, Cancels, Starts, Comes, Selects, StartFails, Clears, vars, hub, Servers
  <2>. QED  BY <2>1, <2>2 DEF Around, Coming, Known
<1>2. CASE \/ \E s \in Socket : Opened(s) \/ Closed(s) \/ Drops(s)
           \/ TimerFires \/ Goes \/ Started \/ Unselects \/ Unselected
  <2>1. Cuts(wires, wires') /\ home' = home /\ jobs' = jobs /\ server'.nodes = server.nodes
    BY <1>2, CutsOnly DEF OnlyCut
  <2>2. Brought(wires') \subseteq Brought(wires)
    BY <1>0, <2>1, CutsUnread
  <2>. QED  BY <2>1, <2>2 DEF Around, Coming, Known
<1>3. ASSUME NEW a \in server.asked, Served(a)
      PROVE  \/ Around' \subseteq Around
             \/ \E x \in server.asked : Joins(x) /\ Around' \subseteq Around \cup {sessions[x.req.of].node}
  BY <1>3, AroundServed DEF Joins
<1>4. ASSUME NEW a \in server.asked, Refused(a)  PROVE Around' \subseteq Around
  <2> DEFINE m == Reply(a.req, FALSE, <<>>)
  <2>1. m \in Messages /\ About(m) = {}
    <3>1. a.req \in Requests /\ <<>> \in Listings
      BY <1>0, NoneLeft DEF Listings, Servers
    <3>2. m \in Replies /\ m.nodes = <<>>
      BY <3>1, ReplyIs
    <3> HIDE DEF m
    <3>. QED  BY <3>2, RepliesAre
  <2>2. wires' = Answer(wires, a.socket, m) /\ server' = [server EXCEPT !.asked = @ \ {a}] /\ home' = home /\ jobs' = jobs
    BY <1>4 DEF Refused, hub
  <2>3. server'.nodes = server.nodes
    BY <1>0, <2>2 DEF Servers
  <2> HIDE DEF m
  <2>4. Brought(wires') \subseteq Brought(wires)
    BY <1>0, <2>1, <2>2, AnswerSends, SendsUnread
  <2>. QED  BY <2>2, <2>3, <2>4 DEF Around, Coming, Known
<1>5. ASSUME NEW n \in Node, NEW kind \in {"node", "attribute", "removed"}, NEW v \in {0, 1},
             wires' = Tell(wires, Event(kind, n, v)), home' = home, jobs' = jobs,
             server'.nodes \subseteq server.nodes, kind = "removed" \/ n \in server.nodes
      PROVE  Around' \subseteq Around
  <2> DEFINE e == Event(kind, n, v)
  <2>1. e \in Events /\ e.node = n /\ e.type = kind
    BY EventIs
  <2>2. wires' = Tell(wires, e)
    BY <1>5
  <2> HIDE DEF e
  <2>3. e \in Messages /\ About(e) = {n}
    BY <2>1, EventsAre
  <2>4. Brought(wires') \subseteq Brought(wires) \cup (IF kind = "removed" THEN {} ELSE {n})
    BY <1>0, <2>1, <2>2, <2>3, ToldSends, SendsUnread
  <2>. QED  BY <1>5, <2>4 DEF Around, Coming, Known
<1>6. ASSUME NEW n \in Node, Changes(n)  PROVE Around' \subseteq Around
  <2>1. /\ server' = [server EXCEPT !.value[n] = 1 - @] /\ n \in server.nodes /\ home' = home /\ jobs' = jobs
    BY <1>6 DEF Changes, hub
  <2>2. server'.nodes = server.nodes /\ 1 - server.value[n] \in {0, 1}
    BY <1>0, <2>1 DEF Servers
  <2>3. PICK kind \in {"attribute", "node"} : wires' = Tell(wires, Event(kind, n, 1 - server.value[n]))
    BY <1>6 DEF Changes, Told
  <2>. QED  BY <1>5, <2>1, <2>2, <2>3
<1>7. ASSUME NEW n \in Node, Leaves(n)  PROVE Around' \subseteq Around
  <2>1. /\ server' = [server EXCEPT !.nodes = @ \ {n}] /\ home' = home /\ jobs' = jobs
        /\ wires' = Tell(wires, Event("removed", n, 0))
    BY <1>7 DEF Leaves, Told, hub
  <2>2. server'.nodes \subseteq server.nodes
    BY <1>0, <2>1 DEF Servers
  <2>. QED  BY <1>5, <2>1, <2>2
<1>8. ASSUME NEW s \in Socket, Receives(s)  PROVE Around' \subseteq Around
  <2> DEFINE m == Head(wires[s].inbox)
  <2>1. /\ wires[s].inbox # <<>> /\ wires' = [wires EXCEPT ![s].inbox = Tail(@)]
        /\ EventReceived(m) \/ LateReply(m, s) \/ ListingReceived(m, s) \/ Commissioned(m, s) \/ Removed(m, s) \/ RequestEnds(m, s)
    BY <1>8 DEF Receives
  <2>2. server'.nodes = server.nodes
    <3>1. server' = server \/ \E A : server' = [server EXCEPT !.asked = A]
      BY <2>1 DEF EventReceived, LateReply, ListingReceived, Commissioned, Removed, RequestEnds
    <3>. QED  BY <1>0, <3>1 DEF Servers
  <2>3. /\ m \in Messages /\ wires'[s].inbox = Tail(wires[s].inbox)
        /\ \A o \in Socket : o # s => wires'[o] = wires[o]
    BY <1>0, <2>1, ReadsIs
  <2>4. wires[s].inbox \in Seq(Messages)
    BY <1>0 DEF Wires
  <2>5. Range(wires[s].inbox) = {m} \cup Range(Tail(wires[s].inbox))
    BY <2>1, <2>4, HeadAndTail
  <2>6. Brought(wires') \subseteq Brought(wires)
    BY <2>3, <2>5, BroughtFewer
  <2>7. m.type # "removed" => About(m) \subseteq Brought(wires)
    <3>1. m \in Range(wires[s].inbox)
      BY <2>5
    <3> HIDE DEF m
    <3>. QED  BY <3>1, BroughtAre DEF About
  <2>8. (m.type = "reply" => m \in Replies) /\ (m.type # "reply" => m \in Events)
    BY <2>3, MessagesAre
  <2> HIDE DEF m
  <2>9. CASE EventReceived(m)
    <3>1. m.type \in {"node", "attribute", "removed"} /\ jobs' = Overtakes(m.node, jobs)
      BY <2>9 DEF EventReceived
    <3>2. m.node \in Node /\ m.value \in {0, 1} /\ About(m) = {m.node}
      BY <2>8, <3>1, EventsAre DEF Events
    <3>3. ToIngest(jobs') \subseteq ToIngest(jobs)
      BY <1>0, <3>1, <3>2, OvertakenIngest
    <3>4. Known' \subseteq Known \cup (IF m.type = "removed" THEN {} ELSE {m.node})
      <4>1. CASE m.type = "node"
        <5>1. home' = Ingested(m.node, m.value, bridge.allow)
          BY <2>9, <4>1 DEF EventReceived
        <5>2. Updates(home', m.node)
          BY <1>0, <3>2, <5>1, IngestedUpdates
        <5>. QED  BY <3>2, <4>1, <5>2, UpdatedKnown
      <4>2. CASE m.type = "attribute"
        <5>1. home' = Attributed(m.node, m.value)
          BY <2>9, <4>2 DEF EventReceived
        <5>2. Updates(home', m.node)
          BY <1>0, <3>2, <5>1, AttributedUpdates
        <5>. QED  BY <3>2, <4>2, <5>2, UpdatedKnown
      <4>3. CASE m.type = "removed"
        <5>1. home' = Without(home, Records(m.node))
          BY <2>9, <4>3 DEF EventReceived
        <5>. QED  BY <1>0, <3>2, <5>1, RemovedKnown
      <4>. QED  BY <3>1, <4>1, <4>2, <4>3
    <3>. QED  BY <2>2, <2>6, <2>7, <3>2, <3>3, <3>4 DEF Around, Coming
  <2>10. ASSUME NEW k \in Jobs, NEW allow \in BOOLEAN, jobs' = [jobs EXCEPT ![k] = Ingesting(allow, m.nodes)],
                m.type = "reply", home' = home
         PROVE  Around' \subseteq Around
    <3>1. m \in Replies /\ m.nodes \in Listings /\ About(m) = {e.node : e \in Range(m.nodes)}
      BY <2>8, <2>10, RepliesAre
    <3>2. Ingesting(allow, m.nodes).todo = m.nodes
      BY <3>1, IngestingIs
    <3>3. ToIngest(jobs') \subseteq ToIngest(jobs) \cup About(m)
      <4> DEFINE x == Ingesting(allow, m.nodes)
      <4>1. jobs' = [jobs EXCEPT ![k] = x] /\ x.todo = m.nodes
        BY <2>10, <3>2
      <4> HIDE DEF x
      <4>2. \A n \in ToIngest(jobs') : n \in ToIngest(jobs) \/ \E e \in Range(x.todo) : e.node = n
        BY <1>0, <4>1, JobIngest
      <4>3. \A n \in ToIngest(jobs') : n \in ToIngest(jobs) \/ \E e \in Range(m.nodes) : e.node = n
        BY <4>1, <4>2
      <4>. QED  BY <3>1, <4>3
    <3>4. Known' = Known
      BY <2>10 DEF Known
    <3>. QED  BY <2>2, <2>6, <2>7, <2>10, <3>3, <3>4 DEF Around, Coming
  <2>11. ASSUME home' = home, jobs' = jobs  PROVE Around' \subseteq Around
    BY <2>2, <2>6, <2>11 DEF Around, Coming, Known
  <2>12. CASE LateReply(m, s)
    <3>1. /\ m.type = "reply" /\ home' = home
          /\ jobs' = jobs \/ jobs' = [jobs EXCEPT !["late"] = Ingesting(bridge.allow, m.nodes)]
      BY <2>12 DEF LateReply
    <3>2. "late" \in Jobs /\ bridge.allow \in BOOLEAN
      BY <1>0 DEF Jobs, Bridges
    <3>. QED  BY <2>10, <2>11, <3>1, <3>2
  <2>13. CASE ListingReceived(m, s)
    <3> DEFINE k == m.req.of
               allow == k \in Session
    <3>1. /\ m.type = "reply" /\ m.req.kind = "listen" /\ home' = home
          /\ jobs' = [jobs EXCEPT ![k] = Ingesting(allow, m.nodes)]
      BY <2>13 DEF ListingReceived, Awaited
    <3>2. m.req \in Requests
      BY <2>8, <3>1, RepliesAre
    <3>3. k \in Jobs /\ allow \in BOOLEAN
      BY <3>1, <3>2, RequestOf DEF Jobs
    <3> HIDE DEF k, allow
    <3>. QED  BY <2>10, <3>1, <3>3
  <2>14. CASE Commissioned(m, s) \/ RequestEnds(m, s)
    BY <2>11, <2>14 DEF Commissioned, RequestEnds
  <2>15. CASE Removed(m, s)
    <3>1. /\ m.type = "reply" /\ m.req.kind = "remove" /\ home' = Without(home, Records(m.req.of)) /\ jobs' = Overtakes(m.req.of, jobs)
      BY <2>15 DEF Removed, Awaited
    <3>2. m.req.of \in Node
      BY <2>8, <3>1, RepliesAre, RequestOf
    <3>3. Known' \subseteq Known
      BY <1>0, <3>1, <3>2, RemovedKnown
    <3>4. ToIngest(jobs') \subseteq ToIngest(jobs)
      BY <1>0, <3>1, <3>2, OvertakenIngest
    <3>. QED  BY <2>2, <2>6, <3>3, <3>4 DEF Around, Coming
  <2>. QED  BY <2>1, <2>9, <2>12, <2>13, <2>14, <2>15
<1>9. ASSUME NEW j \in Jobs, IngestNext(j)  PROVE Around' \subseteq Around
  <2> DEFINE e == Head(jobs[j].todo)
             n == e.node
             mid == [jobs EXCEPT ![j].todo = Tail(@)]
             rest == Overtakes(n, mid)
  <2>0. jobs[j] \in JobStates
    BY <1>0
  <2>1. /\ jobs[j].todo # <<>> /\ UNCHANGED <<wires, server>>
        /\ home' = Ingested(n, e.value, jobs[j].allow \/ bridge.allow)
        /\ jobs' = rest \/ jobs' = [rest EXCEPT ![j].todo = <<e>> \o @, ![j].saving = TRUE]
    BY <1>9 DEF IngestNext
  <2>2. /\ jobs[j].todo \in Seq(Entries) /\ e \in Entries /\ Tail(jobs[j].todo) \in Seq(Entries)
        /\ Range(jobs[j].todo) = {e} \cup Range(Tail(jobs[j].todo))
    <3>1. jobs[j].todo \in Seq(Entries)
      BY <2>0 DEF JobStates
    <3>. QED  BY <2>1, <3>1, HeadAndTail
  <2>3. n \in Node /\ e.value \in {0, 1} /\ n \in ToIngest(jobs)
    BY <2>2, ToIngestAre DEF Entries
  <2> HIDE DEF e
  <2>4. Updates(home', n)
    BY <1>0, <2>1, <2>3, IngestedUpdates
  <2>5. Known' \subseteq Known \cup {n}
    BY <2>3, <2>4, UpdatedKnown
  <2>6. mid \in [Jobs -> JobStates] /\ ToIngest(mid) \subseteq ToIngest(jobs)
    <3> DEFINE x == [jobs[j] EXCEPT !.todo = Tail(@)]
    <3>1. ~jobs[j].saving
      BY <1>9 DEF IngestNext
    <3>2. x \in JobStates /\ x.todo = Tail(jobs[j].todo)
      BY <2>0, <2>2, <3>1 DEF JobStates
    <3>3. mid = [jobs EXCEPT ![j] = x]
      OBVIOUS
    <3> HIDE DEF x
    <3>4. mid[j] = x /\ mid \in [Jobs -> JobStates] /\ \A i \in Jobs : i # j => mid[i] = jobs[i]
      BY <1>0, <3>2, <3>3
    <3> HIDE DEF mid
    <3>5. \A i \in Jobs : Range(mid[i].todo) \subseteq Range(jobs[i].todo)
      BY <2>2, <3>2, <3>4
    <3>. QED  BY <3>4, <3>5, ToIngestAre
  <2> HIDE DEF mid
  <2>7. rest \in [Jobs -> JobStates] /\ ToIngest(rest) \subseteq ToIngest(jobs)
    BY <2>3, <2>6, OvertakesIs, OvertakenIngest
  <2> HIDE DEF rest
  <2>8. ToIngest(jobs') \subseteq ToIngest(jobs)
    <3>1. CASE jobs' = rest
      BY <2>7, <3>1
    <3>2. CASE jobs' = [rest EXCEPT ![j].todo = <<e>> \o @, ![j].saving = TRUE]
      <4> DEFINE x == [rest[j] EXCEPT !.todo = <<e>> \o @, !.saving = TRUE]
      <4>1. rest[j] \in JobStates
        BY <2>7
      <4>2. rest[j].todo \in Seq(Entries)
        BY <4>1 DEF JobStates
      <4>3. Range(<<e>> \o rest[j].todo) = {e} \cup Range(rest[j].todo)
        BY <2>2, <4>2, Consed
      <4>4. x.todo = <<e>> \o rest[j].todo
        BY <4>1 DEF JobStates
      <4>5. jobs' = [rest EXCEPT ![j] = x]
        BY <2>7, <3>2
      <4> HIDE DEF x
      <4>6. jobs'[j] = x /\ \A i \in Jobs : i # j => jobs'[i] = rest[i]
        BY <2>7, <4>5
      <4>7. ASSUME NEW i \in Jobs, NEW y \in Range(jobs'[i].todo)  PROVE y.node \in ToIngest(jobs)
        <5>1. CASE y = e
          BY <2>3, <5>1
        <5>2. CASE y # e
          <6>1. y \in Range(rest[i].todo)
            BY <4>3, <4>4, <4>6, <4>7, <5>2
          <6>2. y.node \in ToIngest(rest)
            BY <6>1, ToIngestAre
          <6>. QED  BY <2>7, <6>2
        <5>. QED  BY <5>1, <5>2
      <4>8. \A o \in ToIngest(jobs') : \E i \in Jobs : \E y \in Range(jobs'[i].todo) : y.node = o
        BY ToIngestAre
      <4>. QED  BY <4>7, <4>8
    <3>. QED  BY <2>1, <3>1, <3>2
  <2>. QED  BY <2>1, <2>3, <2>5, <2>8 DEF Around, Coming
<1>10. ASSUME NEW j \in Jobs, IngestSaved(j) \/ IngestEnds(j)  PROVE Around' \subseteq Around
  <2>0. jobs[j] \in JobStates
    BY <1>0
  <2>1. UNCHANGED <<home, wires, server>>
    BY <1>10 DEF IngestSaved, IngestEnds
  <2>2. PICK x : jobs' = [jobs EXCEPT ![j] = x] /\ (x = NoJob \/ (jobs[j].saving /\ x.todo = Tail(jobs[j].todo)))
    <3>1. CASE jobs' = [jobs EXCEPT ![j] = NoJob]
      BY <3>1
    <3>2. CASE jobs[j].saving /\ jobs' = [jobs EXCEPT ![j].todo = Tail(@), ![j].saving = FALSE]
      <4> DEFINE x == [jobs[j] EXCEPT !.todo = Tail(@), !.saving = FALSE]
      <4>1. x.todo = Tail(jobs[j].todo)
        BY <2>0 DEF JobStates
      <4>2. jobs' = [jobs EXCEPT ![j] = x]
        BY <1>0, <3>2
      <4>. QED  BY <3>2, <4>1, <4>2
    <3>. QED  BY <1>10, <3>1, <3>2 DEF IngestSaved, IngestEnds
  <2>3. Range(x.todo) \subseteq Range(jobs[j].todo)
    <3>1. jobs[j].todo \in Seq(Entries) /\ (jobs[j].saving => jobs[j].todo # <<>>)
      BY <2>0 DEF JobStates
    <3>2. NoJob.todo = <<>> /\ Range(<<>>) = {}
      BY EmptyJob, NoneLeft
    <3>. QED  BY <2>2, <3>1, <3>2, HeadAndTail
  <2>4. ToIngest(jobs') \subseteq ToIngest(jobs)
    <3>1. \A n \in ToIngest(jobs') : n \in ToIngest(jobs) \/ \E e \in Range(x.todo) : e.node = n
      BY <1>0, <2>2, JobIngest
    <3>2. \A e \in Range(x.todo) : e.node \in ToIngest(jobs)
      BY <2>3, ToIngestAre
    <3>. QED  BY <3>1, <3>2
  <2>. QED  BY <2>1, <2>4 DEF Around, Coming, Known
<1>. QED  BY <1>1, <1>2, <1>3, <1>4, <1>6, <1>7, <1>8, <1>9, <1>10 DEF Next

(***************************************************************************)
(* Sessions.  A request of a session that is pending is the only one, and  *)
(* the session is where it waits for it; a listing for it is being stored  *)
(* only after its answer came.                                             *)
(***************************************************************************)
Paired ==
  /\ \A a \in pending, s \in Session : a.req = Request("commission", s) => sessions[s].pc = "commissioning"
  /\ \A a \in pending, s \in Session : a.req = Request("listen", s) => sessions[s].pc = "refreshing" /\ ~jobs[s].on
  /\ \A a, b \in pending, s \in Session : a.req = b.req /\ a.req \in {Request("commission", s), Request("listen", s)} => a = b
  /\ \A s \in Session : jobs[s].on => sessions[s].pc = "refreshing"
Calm == \A s \in Session : /\ sessions[s].pc = "idle" => ~sessions[s].kept
                           /\ sessions[s].pc = "done" => sessions[s].stage # "commissioning"

(* While sessions do not overlap, and where nothing strange was around     *)
(* when the session began, only its own device can be new.                 *)
Alone ==
  \/ hist.strange
  \/ /\ \A s, t \in Active : s = t
     /\ \A s \in Active : Around \subseteq sessions[s].base \cup {sessions[s].node}
Own == hist.strange \/ \A s \in Session : sessions[s].kept /\ sessions[s].stage \in Stages => sessions[s].device = sessions[s].node

(* What may happen to a session that has begun. *)
Moves(x, y) ==
  \/ y = x \/ y = [x EXCEPT !.kept = FALSE]
  \/ x.pc \in {"commissioning", "refreshing"} /\ (y = Failed(x) \/ y = Finished(x))
  \/ x.pc = "commissioning" /\ y = [x EXCEPT !.pc = "refreshing"]
  \/ /\ x.kept /\ x.stage = "commissioning" /\ y.device \in Known \ x.base /\ y.stage \in Stages
     /\ y.pc = x.pc /\ y.node = x.node /\ y.base = x.base /\ y.kept = x.kept

LEMMA ActiveAre == \A s : s \in Active <=> s \in Session /\ sessions[s].pc \in {"commissioning", "refreshing"}
BY DEF Active

LEMMA MovesOn ==
  ASSUME home \in Registries, NEW x \in SessionStates, NEW y, Moves(x, y),
         x.pc = "idle" => ~x.kept, x.pc = "done" => x.stage # "commissioning"
  PROVE  /\ y.base = x.base /\ y.node = x.node
         /\ y.pc \in {"commissioning", "refreshing"} => x.pc \in {"commissioning", "refreshing"}
         /\ y.pc = "idle" => ~y.kept
         /\ y.pc = "done" => y.stage # "commissioning"
         /\ y.kept /\ y.stage \in Stages => \/ x.kept /\ x.stage = y.stage /\ x.device = y.device
                                            \/ x.pc \in {"commissioning", "refreshing"} /\ y.device \in Known \ x.base
<1>1. CASE y = x
  BY <1>1
<1>2. CASE y = [x EXCEPT !.kept = FALSE]
  BY <1>2 DEF SessionStates
<1>3. CASE x.pc \in {"commissioning", "refreshing"} /\ y = Failed(x)
  BY <1>3, FailedIs DEF Stages
<1>4. CASE x.pc \in {"commissioning", "refreshing"} /\ y = Finished(x)
  BY <1>4, FinishedIs
<1>5. CASE x.pc = "commissioning" /\ y = [x EXCEPT !.pc = "refreshing"]
  BY <1>5 DEF SessionStates
<1>6. CASE /\ x.kept /\ x.stage = "commissioning" /\ y.device \in Known \ x.base /\ y.stage \in Stages
           /\ y.pc = x.pc /\ y.node = x.node /\ y.base = x.base /\ y.kept = x.kept
  <2>1. x.pc \in {"commissioning", "refreshing"}
    BY <1>6 DEF SessionStates
  <2>. QED  BY <1>6, <2>1 DEF Stages
<1>. QED  BY <1>1, <1>2, <1>3, <1>4, <1>5, <1>6 DEF Moves

LEMMA Moved ==
  ASSUME TypeOK, Calm, Alone, Own, hist.strange => hist'.strange, \A s \in Session : Moves(sessions[s], sessions'[s])
  PROVE  /\ Calm' /\ Own' /\ Active' \subseteq Active
         /\ \A s \in Session : sessions'[s].base = sessions[s].base /\ sessions'[s].node = sessions[s].node
<1>0. home \in Registries /\ sessions \in [Session -> SessionStates]
  BY DEF TypeOK, HubTypes
<1>1. ASSUME NEW s \in Session
      PROVE  LET x == sessions[s]
                 y == sessions'[s]
             IN /\ y.base = x.base /\ y.node = x.node
                /\ y.pc \in {"commissioning", "refreshing"} => x.pc \in {"commissioning", "refreshing"}
                /\ y.pc = "idle" => ~y.kept
                /\ y.pc = "done" => y.stage # "commissioning"
                /\ y.kept /\ y.stage \in Stages => (x.kept /\ x.stage = y.stage /\ x.device = y.device) \/ (s \in Active /\ y.device \in Known \ x.base)
  <2>1. /\ sessions[s] \in SessionStates /\ Moves(sessions[s], sessions'[s])
        /\ (sessions[s].pc = "idle" => ~sessions[s].kept) /\ (sessions[s].pc = "done" => sessions[s].stage # "commissioning")
    BY <1>0 DEF Calm
  <2>. QED  BY <1>0, <2>1, MovesOn, ActiveAre
<1>2. Calm'
  BY <1>1 DEF Calm
<1>3. Active' \subseteq Active
  BY <1>1 DEF Active
<1>4. Own'
  <2> SUFFICES ASSUME ~hist'.strange, NEW s \in Session, sessions'[s].kept, sessions'[s].stage \in Stages
               PROVE  sessions'[s].device = sessions'[s].node
    BY DEF Own
  <2>1. CASE sessions[s].kept /\ sessions[s].stage = sessions'[s].stage /\ sessions[s].device = sessions'[s].device
    BY <1>1, <2>1 DEF Own
  <2>2. CASE s \in Active /\ sessions'[s].device \in Known \ sessions[s].base
    <3>1. Around \subseteq sessions[s].base \cup {sessions[s].node}
      BY <2>2 DEF Alone
    <3>. QED  BY <1>1, <2>2, <3>1 DEF Around
  <2>. QED  BY <1>1, <2>1, <2>2
<1>. QED  BY <1>1, <1>2, <1>3, <1>4

LEMMA PairedSame ==
  ASSUME Paired, pending' \subseteq pending,
         \A s \in Session : sessions'[s].pc = sessions[s].pc /\ jobs'[s].on = jobs[s].on
  PROVE  Paired'
BY DEF Paired

LEMMA SessionRequests ==
  /\ \A s, t \in Session : /\ Request("commission", s) # Request("listen", t)
                           /\ Request("commission", s) = Request("commission", t) => s = t
                           /\ Request("listen", s) = Request("listen", t) => s = t
                           /\ Request("listen", s) # Request("listen", "open")
                           /\ \A n : Request("commission", s) \notin {Request("listen", n), Request("remove", n), Request("command", n)}
                           /\ \A n : Request("listen", s) \notin {Request("remove", n), Request("command", n)}
  /\ \A s \in Session : s \in Jobs /\ s # "late" /\ s # "open"
BY MatterAssumption DEF Request, Jobs

(* Requests that are rejected are not pending any more. *)
LEMMA PairedRejected ==
  ASSUME TypeOK, Paired, NEW R, Rejected(R), jobs' = jobs, pending' \subseteq pending,
         \A a \in R : \E b \in pending : a.req = b.req,
         \A s \in Session, a \in R, b \in pending' : b.req \in {Request("commission", s), Request("listen", s)} => a.req # b.req
  PROVE  /\ Paired'
         /\ \A s \in Session : Moves(sessions[s], sessions'[s])
<1>0. home \in Registries /\ sessions \in [Session -> SessionStates] /\ removing \subseteq Node
  BY DEF TypeOK, HubTypes
<1>1. \A s \in Session :
        \/ sessions'[s] = Failed(sessions[s]) /\ \E a \in R : a.req = Request("commission", s)
        \/ sessions'[s] = Finished(sessions[s]) /\ \E a \in R : a.req = Request("listen", s)
        \/ sessions'[s] = sessions[s] /\ \A a \in R : a.req \notin {Request("commission", s), Request("listen", s)}
  BY <1>0, RejectedIs
<1>2. ASSUME NEW s \in Session  PROVE Moves(sessions[s], sessions'[s])
  <2>1. \A a \in R : a.req = Request("commission", s) => sessions[s].pc = "commissioning"
    BY DEF Paired
  <2>2. \A a \in R : a.req = Request("listen", s) => sessions[s].pc = "refreshing"
    BY DEF Paired
  <2>. QED  BY <1>1, <2>1, <2>2 DEF Moves
<1>3. ASSUME NEW s \in Session, NEW b \in pending', b.req \in {Request("commission", s), Request("listen", s)}
      PROVE  sessions'[s] = sessions[s]
  <2>1. \A a \in R : a.req # b.req
    BY <1>3
  <2>2. CASE \E a \in R : a.req = Request("commission", s)
    <3>1. sessions[s].pc = "commissioning" /\ b.req = Request("listen", s)
      BY <1>3, <2>1, <2>2 DEF Paired
    <3>2. sessions[s].pc = "refreshing"
      BY <1>3, <3>1 DEF Paired
    <3>. QED  BY <3>1, <3>2
  <2>3. CASE \E a \in R : a.req = Request("listen", s)
    <3>1. sessions[s].pc = "refreshing" /\ b.req = Request("commission", s)
      BY <1>3, <2>1, <2>3 DEF Paired
    <3>2. sessions[s].pc = "commissioning"
      BY <1>3, <3>1 DEF Paired
    <3>. QED  BY <3>1, <3>2
  <2>. QED  BY <1>1, <2>2, <2>3
<1>4. ASSUME NEW s \in Session, jobs[s].on  PROVE sessions'[s] = sessions[s]
  <2>1. sessions[s].pc = "refreshing"
    BY <1>4 DEF Paired
  <2>2. \A a \in R : a.req \notin {Request("commission", s), Request("listen", s)}
    BY <1>4, <2>1 DEF Paired
  <2>. QED  BY <1>1, <2>2
<1>5. Paired'
  <2>1. ASSUME NEW b \in pending', NEW s \in Session  PROVE (b.req = Request("commission", s) => sessions'[s].pc = "commissioning")
    BY <1>3, <2>1 DEF Paired
  <2>2. ASSUME NEW b \in pending', NEW s \in Session  PROVE (b.req = Request("listen", s) => sessions'[s].pc = "refreshing" /\ ~jobs'[s].on)
    BY <1>3, <2>2 DEF Paired
  <2>3. \A a, b \in pending', s \in Session : a.req = b.req /\ a.req \in {Request("commission", s), Request("listen", s)} => a = b
    BY DEF Paired
  <2>4. \A s \in Session : jobs'[s].on => sessions'[s].pc = "refreshing"
    BY <1>4 DEF Paired
  <2>. QED  BY <2>1, <2>2, <2>3, <2>4 DEF Paired
<1>. QED  BY <1>2, <1>5

LEMMA ObservedMoves ==
  ASSUME TypeOK, NEW n \in Known, sessions' = Observed(n, sessions)
  PROVE  \A s \in Session : Moves(sessions[s], sessions'[s]) /\ sessions'[s].pc = sessions[s].pc
<1>1. sessions \in [Session -> SessionStates] /\ n \in Node
  BY KnownAre DEF TypeOK, HubTypes
<1>2. ASSUME NEW s \in Session
      PROVE  /\ sessions'[s].pc = sessions[s].pc /\ sessions'[s].node = sessions[s].node
             /\ sessions'[s].base = sessions[s].base /\ sessions'[s].kept = sessions[s].kept
             /\ \/ sessions'[s] = sessions[s]
                \/ /\ sessions'[s].device = n /\ sessions'[s].stage \in Stages /\ sessions[s].kept
                   /\ n \notin sessions[s].base /\ sessions[s].stage = "commissioning"
  BY <1>1, ObservedIs
<1>. QED  BY <1>2 DEF Moves

(* What jobs are on is changed by listings that are taken up, and that     *)
(* end.                                                                    *)
LEMMA OvertakesOn ==
  ASSUME NEW all \in [Jobs -> JobStates], NEW n \in Node
  PROVE  \A j \in Jobs : Overtakes(n, all)[j].on = all[j].on
BY OvertakesIs

LEMMA SessionReceives ==
  ASSUME TypeOK, Paired, NEW s \in Socket, Receives(s)
  PROVE  Paired' /\ \A o \in Session : Moves(sessions[o], sessions'[o])
<1> DEFINE m == Head(wires[s].inbox)
<1>0. /\ home \in Registries /\ bridge \in Bridges /\ server \in Servers /\ wires \in [Socket -> Wires]
      /\ jobs \in [Jobs -> JobStates] /\ pending \subseteq [req : Requests, socket : Socket]
      /\ sessions \in [Session -> SessionStates]
  BY DEF TypeOK, HubTypes, OtherTypes
<1>1. /\ wires[s].inbox # <<>>
      /\ EventReceived(m) \/ LateReply(m, s) \/ ListingReceived(m, s) \/ Commissioned(m, s) \/ Removed(m, s) \/ RequestEnds(m, s)
  BY DEF Receives
<1>2. m \in Messages
  BY <1>0, <1>1, ReadsIs
<1>3. (m.type = "reply" => m \in Replies) /\ (m.type # "reply" => m \in Events)
  BY <1>2, MessagesAre
<1> HIDE DEF m
<1>4. \A o \in Session : o \in Jobs /\ o # "late" /\ o # "open"
  BY SessionRequests
<1>5. ASSUME sessions' = sessions  PROVE \A o \in Session : Moves(sessions[o], sessions'[o]) /\ sessions'[o].pc = sessions[o].pc
  BY <1>5 DEF Moves
<1>6. ASSUME Awaited(m, s)  PROVE m.req \in Requests /\ [req |-> m.req, socket |-> s] \in pending
  BY <1>3, <1>6, RepliesAre DEF Awaited
<1>7. CASE EventReceived(m)
  <2>1. /\ m.type \in {"node", "attribute", "removed"} /\ jobs' = Overtakes(m.node, jobs) /\ sessions' = sessions /\ pending' = pending
    BY <1>7 DEF EventReceived
  <2>2. m.node \in Node
    BY <1>3, <2>1, EventsAre
  <2>3. \A o \in Session : jobs'[o].on = jobs[o].on
    BY <1>0, <1>4, <2>1, <2>2, OvertakesOn
  <2>. QED  BY <1>5, <2>1, <2>3, PairedSame
<1>8. CASE LateReply(m, s)
  <2>1. /\ jobs' = jobs \/ jobs' = [jobs EXCEPT !["late"] = Ingesting(bridge.allow, m.nodes)]
        /\ sessions' = sessions /\ pending' = pending
    BY <1>8 DEF LateReply
  <2>2. \A o \in Session : jobs'[o].on = jobs[o].on
    BY <1>0, <1>4, <2>1
  <2>. QED  BY <1>5, <2>1, <2>2, PairedSame
<1>9. CASE ListingReceived(m, s)
  <2> DEFINE k == m.req.of
             x == Ingesting(k \in Session, m.nodes)
             a == [req |-> m.req, socket |-> s]
  <2>1. /\ Awaited(m, s) /\ m.req.kind = "listen" /\ jobs' = [jobs EXCEPT ![k] = x]
        /\ sessions' = sessions /\ pending' = pending \ {a}
    BY <1>9 DEF ListingReceived, Answered
  <2>2. m.req = Request("listen", k) /\ a \in pending /\ a.req = m.req
    BY <1>6, <2>1, RequestOf
  <2> HIDE DEF k, x, a
  <2>3. ASSUME NEW o \in Session  PROVE (o # k => jobs'[o] = jobs[o]) /\ (o = k => sessions[o].pc = "refreshing" /\ \A b \in pending' : b.req # Request("listen", o))
    <3>1. o # k => jobs'[o] = jobs[o]
      BY <1>0, <1>4, <2>1
    <3>2. ASSUME o = k  PROVE sessions[o].pc = "refreshing" /\ \A b \in pending' : b.req # Request("listen", o)
      BY <2>1, <2>2, <3>2 DEF Paired
    <3>. QED  BY <3>1, <3>2
  <2>4. ASSUME NEW b \in pending', NEW o \in Session, b.req = Request("listen", o)
        PROVE  sessions[o].pc = "refreshing" /\ ~jobs'[o].on
    <3>1. o # k
      BY <2>3, <2>4
    <3>. QED  BY <2>1, <2>3, <2>4, <3>1 DEF Paired
  <2>5. \A o \in Session : jobs'[o].on => sessions[o].pc = "refreshing"
    BY <2>3 DEF Paired
  <2>6. Paired'
    BY <2>1, <2>4, <2>5 DEF Paired
  <2>. QED  BY <1>5, <2>1, <2>6
<1>10. CASE Commissioned(m, s)
  <2> DEFINE k == m.req.of
             a == [req |-> m.req, socket |-> s]
             l == Listing(m)
  <2>1. /\ Awaited(m, s) /\ m.req.kind = "commission" /\ jobs' = jobs
        /\ \/ /\ sessions' = [sessions EXCEPT ![k].pc = "refreshing"]
              /\ pending' = (pending \ {a}) \cup {l}
           \/ /\ sessions' = [sessions EXCEPT ![k] = Finished(@)]
              /\ pending' = pending \ {a}
    BY <1>10 DEF Commissioned, Answered
  <2>2. k \in Session /\ m.req = Request("commission", k) /\ a \in pending /\ a.req = m.req /\ l.req = Request("listen", k)
    BY <1>6, <2>1, RequestOf DEF Listing
  <2> HIDE DEF k, a, l
  <2>3. sessions[k].pc = "commissioning"
    BY <2>2 DEF Paired
  <2>4. /\ ~jobs[k].on
        /\ \A b \in pending \ {a} : b.req # Request("commission", k) /\ b.req # Request("listen", k)
    BY <2>2, <2>3 DEF Paired
  <2>5. CASE /\ sessions' = [sessions EXCEPT ![k].pc = "refreshing"]
             /\ pending' = (pending \ {a}) \cup {l}
    <3>1. sessions'[k] = [sessions[k] EXCEPT !.pc = "refreshing"] /\ \A o \in Session : o # k => sessions'[o] = sessions[o]
      BY <1>0, <2>2, <2>5
    <3>2. sessions'[k].pc = "refreshing"
      <4>1. sessions[k] \in SessionStates
        BY <1>0, <2>2
      <4>. QED  BY <3>1, <4>1 DEF SessionStates
    <3>3. \A o \in Session : Moves(sessions[o], sessions'[o])
      BY <2>3, <3>1 DEF Moves
    <3>4. ASSUME NEW b \in pending', NEW o \in Session, b.req = Request("commission", o)  PROVE sessions'[o].pc = "commissioning"
      <4>1. b # l
        BY <2>2, <3>4, SessionRequests
      <4>2. b \in pending \ {a} /\ o # k
        BY <2>4, <2>5, <3>4, <4>1
      <4>. QED  BY <3>1, <3>4, <4>2 DEF Paired
    <3>5. ASSUME NEW b \in pending', NEW o \in Session, b.req = Request("listen", o)  PROVE sessions'[o].pc = "refreshing" /\ ~jobs[o].on
      <4>1. CASE o = k
        BY <2>4, <3>2, <4>1
      <4>2. CASE o # k
        <5>1. b # l
          BY <2>2, <3>5, <4>2, SessionRequests
        <5>. QED  BY <2>5, <3>1, <3>5, <4>2, <5>1 DEF Paired
      <4>. QED  BY <4>1, <4>2
    <3>6. ASSUME NEW b \in pending', NEW c \in pending', NEW o \in Session, b.req = c.req, b.req \in {Request("commission", o), Request("listen", o)}
          PROVE  b = c
      <4>1. CASE b = l \/ c = l
        <5>1. b.req = Request("listen", k) /\ c.req = Request("listen", k)
          BY <2>2, <3>6, <4>1
        <5>. QED  BY <2>4, <2>5, <5>1
      <4>2. CASE b # l /\ c # l
        BY <2>5, <3>6, <4>2 DEF Paired
      <4>. QED  BY <4>1, <4>2
    <3>7. \A o \in Session : jobs[o].on => sessions'[o].pc = "refreshing"
      BY <2>4, <3>1 DEF Paired
    <3>8. Paired'
      BY <2>1, <3>4, <3>5, <3>6, <3>7 DEF Paired
    <3>. QED  BY <3>3, <3>8
  <2>6. CASE /\ sessions' = [sessions EXCEPT ![k] = Finished(@)]
             /\ pending' = pending \ {a}
    <3>1. sessions'[k] = Finished(sessions[k]) /\ \A o \in Session : o # k => sessions'[o] = sessions[o]
      BY <1>0, <2>2, <2>6
    <3>2. \A o \in Session : Moves(sessions[o], sessions'[o])
      BY <2>3, <3>1 DEF Moves
    <3>3. \A b \in pending', o \in Session : b.req \in {Request("commission", o), Request("listen", o)} => o # k
      BY <2>4, <2>6
    <3>4. \A o \in Session : jobs[o].on => o # k
      BY <2>4
    <3>5. Paired'
      BY <2>1, <2>6, <3>1, <3>3, <3>4 DEF Paired
    <3>. QED  BY <3>2, <3>5
  <2>. QED  BY <2>1, <2>5, <2>6
<1>11. CASE Removed(m, s)
  <2>1. /\ Awaited(m, s) /\ m.req.kind = "remove" /\ sessions' = Forgotten(m.req.of)
        /\ jobs' = Overtakes(m.req.of, jobs) /\ pending' \subseteq pending
    BY <1>11 DEF Removed, Answered
  <2>2. m.req.of \in Node
    BY <1>6, <2>1, RequestOf
  <2>3. \A o \in Session : jobs'[o].on = jobs[o].on
    BY <1>0, <1>4, <2>1, <2>2, OvertakesOn
  <2>4. \A o \in Session : sessions'[o] = sessions[o] \/ sessions'[o] = [sessions[o] EXCEPT !.kept = FALSE]
    BY <2>1 DEF Forgotten
  <2>5. \A o \in Session : sessions'[o].pc = sessions[o].pc
    BY <1>0, <2>4 DEF SessionStates
  <2>. QED  BY <2>1, <2>3, <2>4, <2>5, PairedSame DEF Moves
<1>12. CASE RequestEnds(m, s)
  <2> DEFINE R == {[req |-> m.req]}
             a == [req |-> m.req, socket |-> s]
  <2>1. Awaited(m, s) /\ Rejected(R) /\ jobs' = jobs /\ pending' = pending \ {a}
    BY <1>12 DEF RequestEnds, Answered
  <2>2. a \in pending /\ a.req = m.req /\ \A x \in R : x.req = a.req
    BY <1>6, <2>1
  <2> HIDE DEF R, a
  <2>3. \A o \in Session, x \in R, b \in pending' : b.req \in {Request("commission", o), Request("listen", o)} => x.req # b.req
    BY <2>1, <2>2 DEF Paired
  <2>. QED  BY <2>1, <2>2, <2>3, PairedRejected
<1>. QED  BY <1>1, <1>7, <1>8, <1>9, <1>10, <1>11, <1>12

LEMMA SessionIngests ==
  ASSUME TypeOK, IdleJobs, Paired, NEW j \in Jobs, IngestNext(j) \/ IngestSaved(j) \/ IngestEnds(j)
  PROVE  Paired' /\ \A o \in Session : Moves(sessions[o], sessions'[o])
<1>0. /\ home \in Registries /\ jobs \in [Jobs -> JobStates] /\ jobs[j] \in JobStates /\ sessions \in [Session -> SessionStates]
      /\ \A o \in Session : o \in Jobs
  BY SessionRequests DEF TypeOK, HubTypes
<1>1. pending' = pending
  BY DEF IngestNext, IngestSaved, IngestEnds
<1>2. CASE IngestNext(j)
  <2> DEFINE e == Head(jobs[j].todo)
             mid == [jobs EXCEPT ![j].todo = Tail(@)]
             rest == Overtakes(e.node, mid)
  <2>1. /\ jobs[j].todo # <<>> /\ ~jobs[j].saving /\ sessions' = sessions
        /\ jobs' = rest \/ jobs' = [rest EXCEPT ![j].todo = <<e>> \o @, ![j].saving = TRUE]
    BY <1>2 DEF IngestNext
  <2>2. e.node \in Node /\ Tail(jobs[j].todo) \in Seq(Entries)
    <3>1. jobs[j].todo \in Seq(Entries)
      BY <1>0 DEF JobStates
    <3>2. e \in Entries /\ Tail(jobs[j].todo) \in Seq(Entries)
      BY <2>1, <3>1, HeadAndTail
    <3> HIDE DEF e
    <3>. QED  BY <3>2 DEF Entries
  <2>3. mid \in [Jobs -> JobStates] /\ \A i \in Jobs : mid[i].on = jobs[i].on
    <3> DEFINE x == [jobs[j] EXCEPT !.todo = Tail(@)]
    <3>1. x \in JobStates /\ x.on = jobs[j].on
      BY <1>0, <2>1, <2>2 DEF JobStates
    <3>2. mid = [jobs EXCEPT ![j] = x]
      OBVIOUS
    <3> HIDE DEF x
    <3>. QED  BY <1>0, <3>1, <3>2
  <2> HIDE DEF mid
  <2>4. rest \in [Jobs -> JobStates] /\ \A i \in Jobs : rest[i].on = jobs[i].on
    BY <2>2, <2>3, OvertakesIs
  <2> HIDE DEF rest, e
  <2>5. \A i \in Jobs : jobs'[i].on = jobs[i].on
    <3>1. CASE jobs' = rest
      BY <2>4, <3>1
    <3>2. CASE jobs' = [rest EXCEPT ![j].todo = <<e>> \o @, ![j].saving = TRUE]
      <4> DEFINE x == [rest[j] EXCEPT !.todo = <<e>> \o @, !.saving = TRUE]
      <4>1. x.on = rest[j].on
        BY <2>4 DEF JobStates
      <4>2. jobs' = [rest EXCEPT ![j] = x]
        BY <2>4, <3>2
      <4> HIDE DEF x
      <4>. QED  BY <2>4, <4>1, <4>2
    <3>. QED  BY <2>1, <3>1, <3>2
  <2>. QED  BY <1>0, <1>1, <2>1, <2>5, PairedSame DEF Moves
(* A listing that ends, ends its session's pairing. *)
<1>3. ASSUME jobs[j].on, jobs' = [jobs EXCEPT ![j] = NoJob],
             sessions' = (IF j \in Session THEN [sessions EXCEPT ![j] = Finished(@)] ELSE sessions)
      PROVE  Paired' /\ \A o \in Session : Moves(sessions[o], sessions'[o])
  <2>1. ~NoJob.on
    BY EmptyJob
  <2>2. \A o \in Session : o # j => sessions'[o] = sessions[o] /\ jobs'[o] = jobs[o]
    BY <1>0, <1>3
  <2>3. ASSUME j \in Session
        PROVE  /\ sessions'[j] = Finished(sessions[j]) /\ ~jobs'[j].on /\ sessions[j].pc = "refreshing"
               /\ \A a \in pending : a.req \notin {Request("commission", j), Request("listen", j)}
    <3>1. sessions'[j] = Finished(sessions[j]) /\ ~jobs'[j].on
      BY <1>0, <1>3, <2>1, <2>3
    <3>2. sessions[j].pc = "refreshing"
      BY <1>3, <2>3 DEF Paired
    <3>3. \A a \in pending : a.req \notin {Request("commission", j), Request("listen", j)}
      BY <1>3, <2>3, <3>2 DEF Paired
    <3>. QED  BY <3>1, <3>2, <3>3
  <2>4. \A o \in Session : Moves(sessions[o], sessions'[o])
    BY <2>2, <2>3 DEF Moves
  <2>5. Paired'
    BY <1>1, <2>2, <2>3 DEF Paired
  <2>. QED  BY <2>4, <2>5
<1>4. CASE IngestEnds(j)
  BY <1>3, <1>4 DEF IngestEnds
<1>5. CASE IngestSaved(j) /\ Head(jobs[j].todo).node \notin Known
  <2>1. jobs[j].on
    BY <1>0, <1>5 DEF IngestSaved, IdleJobs, JobStates
  <2>. QED  BY <1>3, <1>5, <2>1 DEF IngestSaved
<1>6. CASE IngestSaved(j) /\ Head(jobs[j].todo).node \in Known
  <2> DEFINE n == Head(jobs[j].todo).node
             x == [jobs[j] EXCEPT !.todo = Tail(@), !.saving = FALSE]
  <2>1. /\ jobs' = [jobs EXCEPT ![j].todo = Tail(@), ![j].saving = FALSE] /\ sessions' = Observed(n, sessions) /\ n \in Known
    BY <1>6 DEF IngestSaved
  <2>2. jobs' = [jobs EXCEPT ![j] = x] /\ x.on = jobs[j].on
    BY <1>0, <2>1 DEF JobStates
  <2> HIDE DEF x, n
  <2>3. \A i \in Jobs : jobs'[i].on = jobs[i].on
    BY <1>0, <2>2
  <2>4. \A o \in Session : Moves(sessions[o], sessions'[o]) /\ sessions'[o].pc = sessions[o].pc
    BY <2>1, ObservedMoves
  <2>. QED  BY <1>0, <1>1, <2>3, <2>4, PairedSame
<1>. QED  BY <1>2, <1>4, <1>5, <1>6 DEF IngestSaved

(* A request of another kind is asked for. *)
LEMMA PairedAsks ==
  ASSUME Paired, NEW r, \A s \in Session : r \notin {Request("commission", s), Request("listen", s)},
         \A b \in pending' : b \in pending \/ b.req = r, sessions' = sessions, jobs' = jobs
  PROVE  Paired' /\ \A o \in Session : Moves(sessions[o], sessions'[o])
<1>1. \A b \in pending', s \in Session : b.req \in {Request("commission", s), Request("listen", s)} => b \in pending
  OBVIOUS
<1>. QED  BY <1>1 DEF Paired, Moves

(* A session starts. *)
LEMMA SessionStarts ==
  ASSUME TypeOK, Paired, NEW s \in Session, NEW n \in Node, Starts(s, n)
  PROVE  /\ Paired' /\ \A o \in Session : o # s => sessions'[o] = sessions[o]
         /\ sessions'[s].node = n /\ sessions'[s].base = Known
         /\ sessions'[s].pc \in {"commissioning", "done"} /\ sessions'[s].stage \in {"commissioning", "failed"}
         /\ sessions'[s].pc = "done" => sessions'[s].stage = "failed"
<1> DEFINE x == [NoSession EXCEPT !.pc = "commissioning", !.node = n, !.base = Known, !.kept = TRUE]
<1>0. /\ home \in Registries /\ bridge \in Bridges /\ server \in Servers /\ sessions \in [Session -> SessionStates]
      /\ pending \subseteq [req : Requests, socket : Socket]
  BY DEF TypeOK, HubTypes, OtherTypes
<1>1. /\ x \in SessionStates /\ x.pc = "commissioning" /\ x.stage = "commissioning" /\ x.node = n /\ x.base = Known
  <2>1. Known \subseteq Node
    BY <1>0, KnownAre
  <2>. QED  BY <2>1 DEF NoSession, SessionStates
<1>2. /\ sessions[s].pc = "idle" /\ jobs' = jobs
      /\ \/ CanAsk /\ sessions' = [sessions EXCEPT ![s] = x] /\ Ask(Request("commission", s))
         \/ sessions' = [sessions EXCEPT ![s] = Failed(x)] /\ pending' = pending
  BY DEF Starts
<1> HIDE DEF x
<1>3. ~jobs[s].on /\ \A a \in pending : a.req \notin {Request("commission", s), Request("listen", s)}
  BY <1>2 DEF Paired
<1>4. CASE CanAsk /\ sessions' = [sessions EXCEPT ![s] = x] /\ Ask(Request("commission", s))
  <2> DEFINE c == [req |-> Request("commission", s), socket |-> bridge.socket]
  <2>1. pending' = pending \cup {c} /\ c.req = Request("commission", s)
    BY <1>4 DEF Ask
  <2> HIDE DEF c
  <2>2. sessions'[s] = x /\ \A o \in Session : o # s => sessions'[o] = sessions[o]
    BY <1>0, <1>4
  <2>3. ASSUME NEW b \in pending', NEW o \in Session, b.req \in {Request("commission", o), Request("listen", o)}
        PROVE  (b = c /\ o = s /\ b.req = Request("commission", s)) \/ (b \in pending /\ b # c /\ o # s)
    <3>1. CASE b = c
      BY <2>1, <2>3, <3>1, SessionRequests
    <3>2. CASE b # c
      BY <1>3, <2>1, <2>3, <3>2
    <3>. QED  BY <3>1, <3>2
  <2>4. \A b \in pending', o \in Session : b.req = Request("commission", o) => sessions'[o].pc = "commissioning"
    BY <1>1, <2>2, <2>3 DEF Paired
  <2>5. \A b \in pending', o \in Session : b.req = Request("listen", o) => sessions'[o].pc = "refreshing" /\ ~jobs[o].on
    BY <1>1, <2>2, <2>3, SessionRequests DEF Paired
  <2>6. \A b, d \in pending', o \in Session : b.req = d.req /\ b.req \in {Request("commission", o), Request("listen", o)} => b = d
    BY <2>3 DEF Paired
  <2>7. \A o \in Session : jobs[o].on => sessions'[o].pc = "refreshing"
    BY <1>3, <2>2 DEF Paired
  <2>8. Paired'
    BY <1>2, <2>4, <2>5, <2>6, <2>7 DEF Paired
  <2>. QED  BY <1>1, <2>2, <2>8
<1>5. CASE sessions' = [sessions EXCEPT ![s] = Failed(x)] /\ pending' = pending
  <2>1. sessions'[s] = Failed(x) /\ \A o \in Session : o # s => sessions'[o] = sessions[o]
    BY <1>0, <1>5
  <2>2. Failed(x).pc = "done" /\ Failed(x).stage = "failed" /\ Failed(x).node = n /\ Failed(x).base = Known
    BY <1>1, FailedIs
  <2>3. Paired'
    BY <1>2, <1>3, <1>5, <2>1 DEF Paired
  <2>. QED  BY <2>1, <2>2, <2>3
<1>. QED  BY <1>2, <1>4, <1>5

LEMMA SessionStep ==
  ASSUME TypeOK, IdleJobs, Paired, [Next]_vars
  PROVE  \/ \E s \in Session, n \in Node : Starts(s, n)
         \/ Paired' /\ \A o \in Session : Moves(sessions[o], sessions'[o])
<1>0. pending \subseteq [req : Requests, socket : Socket] /\ saving \subseteq Node /\ sessions \in [Session -> SessionStates]
  BY DEF TypeOK, HubTypes
<1>1. CASE \/ \E s \in Socket : Drops(s)
           \/ TimerFires \/ Goes \/ Comes
           \/ \E a \in server.asked : Served(a) \/ Refused(a)
           \/ \E n \in Node : Changes(n) \/ Leaves(n) \/ Assign(n)
           \/ Selects \/ Started \/ StartFails \/ Unselects \/ Clears \/ Unselected
           \/ UNCHANGED vars
  <2>1. pending' = pending /\ sessions' = sessions /\ jobs' = jobs
    BY <1>1 DEF Drops, TimerFires, Goes, Comes, Served, Refused, Changes, Leaves, Assign, Selects, Started, StartFails, Unselects, Clears, Unselected, vars, hub
  <2>. QED  BY <2>1, PairedSame DEF Moves
<1>2. CASE \/ \E s \in Socket : Opened(s)
           \/ \E n \in Node : Removes(n) \/ Commands(n)
           \/ Refreshes
  <2>1. sessions' = sessions /\ jobs' = jobs
    BY <1>2 DEF Opened, Removes, Commands, Refreshes, Asks
  <2>2. PICK r : /\ r = Request("listen", "open") \/ \E n \in Node : r \in {Request("remove", n), Request("command", n)}
                 /\ pending' = pending \/ Ask(r)
    BY <1>2 DEF Opened, Listen, Removes, Commands, Refreshes, Asks
  <2>3. \A b \in pending' : b \in pending \/ b.req = r
    BY <2>2 DEF Ask
  <2>4. \A s \in Session : r \notin {Request("commission", s), Request("listen", s)}
    BY <2>2, SessionRequests
  <2>. QED  BY <2>1, <2>3, <2>4, PairedAsks
<1>3. CASE \E a \in pending : TimesOut(a)
  <2>1. PICK a \in pending : pending' = pending \ {a} /\ Rejected({a}) /\ jobs' = jobs
    BY <1>3 DEF TimesOut
  <2>2. \A s \in Session, x \in {a}, b \in pending' : b.req \in {Request("commission", s), Request("listen", s)} => x.req # b.req
    BY <2>1 DEF Paired
  <2>. QED  BY <2>1, <2>2, PairedRejected
<1>4. CASE \E s \in Socket : Closed(s)
  <2>1. pending' = {} /\ Rejected(pending) /\ jobs' = jobs
    BY <1>4 DEF Closed
  <2>. QED  BY <2>1, PairedRejected
<1>5. CASE \E s \in Socket : Receives(s)
  BY <1>5, SessionReceives
<1>6. CASE \E n \in Node : EventSaved(n)
  <2>1. PICK n \in Node : sessions' = ObservedIfThere(n) /\ pending' = pending /\ jobs' = jobs
    BY <1>6 DEF EventSaved
  <2>2. \A o \in Session : Moves(sessions[o], sessions'[o]) /\ sessions'[o].pc = sessions[o].pc
    <3>1. CASE n \in Known
      BY <2>1, <3>1, ObservedMoves DEF ObservedIfThere
    <3>2. CASE n \notin Known
      BY <2>1, <3>2 DEF ObservedIfThere, Moves
    <3>. QED  BY <3>1, <3>2
  <2>. QED  BY <2>1, <2>2, PairedSame
<1>7. CASE \E s \in Session : Cancels(s)
  <2>1. PICK s \in Session : sessions' = [sessions EXCEPT ![s].kept = FALSE] /\ pending' = pending /\ jobs' = jobs
    BY <1>7 DEF Cancels
  <2>2. \A o \in Session : sessions'[o] = sessions[o] \/ sessions'[o] = [sessions[o] EXCEPT !.kept = FALSE]
    BY <1>0, <2>1
  <2>3. \A o \in Session : sessions'[o].pc = sessions[o].pc
    <3>1. \A y \in SessionStates : [y EXCEPT !.kept = FALSE].pc = y.pc
      BY DEF SessionStates
    <3>2. \A o \in Session : sessions[o] \in SessionStates
      BY <1>0
    <3>. QED  BY <2>2, <3>1, <3>2
  <2>. QED  BY <2>1, <2>2, <2>3, PairedSame DEF Moves
<1>8. CASE \E j \in Jobs : IngestNext(j) \/ IngestSaved(j) \/ IngestEnds(j)
  BY <1>8, SessionIngests
<1>9. CASE \E s \in Session : \E n \in Node : Starts(s, n)
  BY <1>9
<1>. QED  BY <1>1, <1>2, <1>3, <1>4, <1>5, <1>6, <1>7, <1>8, <1>9 DEF Next

(* What was strange once stays so. *)
LEMMA StrangeStays ==
  ASSUME TypeOK, [Next]_vars, hist.strange
  PROVE  hist'.strange
<1>0. hist \in Histories
  BY DEF TypeOK, OtherTypes
<1>1. CASE \E a \in server.asked : Served(a)
  BY <1>0, <1>1 DEF Served, Heard, Histories
<1>2. CASE \E n \in Node : Changes(n) \/ Leaves(n)
  BY <1>0, <1>2 DEF Changes, Leaves, Told, Heard, Histories
<1>3. CASE \E s \in Socket : Receives(s)
  BY <1>0, <1>3 DEF Receives, EventReceived, LateReply, ListingReceived, Commissioned, Removed, RequestEnds, Fresh, Histories
<1>4. CASE \E j \in Jobs : IngestNext(j) \/ IngestSaved(j) \/ IngestEnds(j)
  BY <1>0, <1>4 DEF IngestNext, IngestSaved, IngestEnds, Fresh, Histories
<1>5. CASE (\E a \in pending : TimesOut(a)) \/ \E s \in Socket : Opened(s) \/ Closed(s) \/ Drops(s)
  BY <1>0, <1>5 DEF TimesOut, Opened, Listen, Closed, Drops, Histories
<1>6. CASE \/ TimerFires \/ Goes \/ Comes \/ \E a \in server.asked : Refused(a)
           \/ \E n \in Node : EventSaved(n) \/ Removes(n) \/ Commands(n) \/ Assign(n)
  BY <1>0, <1>6 DEF TimerFires, Goes, Comes, Stopped, Refused, EventSaved, Removes, Commands, Assign, Histories
<1>7. CASE \/ \E s \in Session : Cancels(s) \/ \E n \in Node : Starts(s, n)
           \/ Refreshes \/ Selects \/ Started \/ StartFails \/ Unselects \/ Clears \/ Unselected
  BY <1>0, <1>7 DEF Cancels, Starts, Refreshes, Selects, Started, StartFails, Unselects, Clears, Unselected, Stopped, Histories
<1>8. CASE UNCHANGED vars
  BY <1>8 DEF vars
<1>. QED  BY <1>1, <1>2, <1>3, <1>4, <1>5, <1>6, <1>7, <1>8 DEF Next

Pairing == Paired /\ Calm /\ Alone /\ Own

LEMMA PairingAtFirst == Init => Pairing
<1> SUFFICES ASSUME Init  PROVE Pairing
  OBVIOUS
<1>1. pending = {} /\ \A s \in Session : sessions[s] = NoSession
  BY DEF Init
<1>2. \A s \in Session : ~jobs[s].on
  BY EmptyJob, SessionRequests DEF Init
<1>3. NoSession.pc = "idle" /\ ~NoSession.kept /\ NoSession.stage = "commissioning"
  BY DEF NoSession
<1>. QED  BY <1>1, <1>2, <1>3 DEF Pairing, Paired, Calm, Alone, Own, Active, Stages

LEMMA PairingStep == TypeOK /\ TypeOK' /\ News /\ Pairing /\ [Next]_vars => Pairing'
<1> SUFFICES ASSUME TypeOK, TypeOK', News, Pairing, [Next]_vars  PROVE Pairing'
  OBVIOUS
<1>0. Paired /\ Calm /\ Alone /\ Own /\ IdleJobs /\ (hist.strange => hist'.strange)
  BY StrangeStays DEF Pairing, News
<1>1. ASSUME NEW s \in Session, NEW n \in Node, Starts(s, n)  PROVE Pairing'
  <2>1. /\ Paired' /\ \A o \in Session : o # s => sessions'[o] = sessions[o]
        /\ sessions'[s].node = n /\ sessions'[s].base = Known
        /\ sessions'[s].pc \in {"commissioning", "done"} /\ sessions'[s].stage \in {"commissioning", "failed"}
        /\ sessions'[s].pc = "done" => sessions'[s].stage = "failed"
    BY <1>0, <1>1, SessionStarts
  <2>2. Calm'
    BY <1>0, <2>1 DEF Calm
  <2>3. Own'
    BY <1>0, <2>1 DEF Own, Stages
  <2>4. hist'.strange = (hist.strange \/ (server.nodes \cup Coming) \ Known # {} \/ Active # {})
    BY <1>1 DEF Starts, TypeOK, OtherTypes, Histories
  <2>5. Around' = Around
    <3>1. wires' = wires /\ home' = home /\ jobs' = jobs
      BY <1>1 DEF Starts
    <3>2. server'.nodes = server.nodes
      BY <1>1 DEF Starts, Ask, TypeOK, OtherTypes, Servers
    <3>. QED  BY <3>1, <3>2 DEF Around, Coming, Known
  <2>6. Alone'
    <3> SUFFICES ASSUME ~hist'.strange
                 PROVE  (\A o, t \in Active' : o = t) /\ \A o \in Active' : Around' \subseteq sessions'[o].base \cup {sessions'[o].node}
      BY DEF Alone
    <3>1. Around \subseteq Known /\ Active = {}
      BY <2>4 DEF Around
    <3>2. Active' \subseteq {s}
      BY <2>1, <3>1 DEF Active
    <3>. QED  BY <2>1, <2>5, <3>1, <3>2
  <2>. QED  BY <2>1, <2>2, <2>3, <2>6 DEF Pairing
<1>2. ASSUME Paired', \A o \in Session : Moves(sessions[o], sessions'[o])  PROVE Pairing'
  <2>1. /\ Calm' /\ Own' /\ Active' \subseteq Active
        /\ \A s \in Session : sessions'[s].base = sessions[s].base /\ sessions'[s].node = sessions[s].node
    BY <1>0, <1>2, Moved
  <2>2. Active \subseteq Session
    BY DEF Active
  <2>3. CASE Around' \subseteq Around
    BY <1>0, <1>2, <2>1, <2>2, <2>3 DEF Pairing, Alone
  <2>4. ASSUME NEW a \in server.asked, Joins(a), Around' \subseteq Around \cup {sessions[a.req.of].node}
        PROVE  Pairing'
    <3>1. hist'.strange = (hist.strange \/ Active \ {a.req.of} # {})
      BY <2>4 DEF Joins, Served, TypeOK, OtherTypes, Histories
    <3>2. ASSUME ~hist'.strange
          PROVE  (\A o, t \in Active' : o = t) /\ \A o \in Active' : Around' \subseteq sessions'[o].base \cup {sessions'[o].node}
      <4>1. ~hist.strange /\ Active' \subseteq {a.req.of}
        BY <2>1, <3>1, <3>2
      <4>2. \A o \in Active' : o = a.req.of /\ Around \subseteq sessions[o].base \cup {sessions[o].node}
        BY <1>0, <2>1, <4>1 DEF Pairing, Alone
      <4>. QED  BY <2>1, <2>2, <2>4, <4>2
    <3>3. Alone'
      BY <3>2 DEF Alone
    <3>. QED  BY <1>2, <2>1, <3>3 DEF Pairing
  <2>. QED  BY <2>3, <2>4, AroundStep
<1>. QED  BY <1>0, <1>1, <1>2, SessionStep

(***************************************************************************)
(* The theorems.                                                           *)
(***************************************************************************)
(* Every variable keeps its type, an open connection has a place in the    *)
(* bridge, and a commissioning that was asked for is that of a device.     *)
THEOREM TypeCorrect == Spec => []TypeOK
<1>1. Init => TypeOK
  BY TypesAtFirst
<1>2. TypeOK /\ [Next]_vars => TypeOK'
  BY TypesStep
<1>. QED  BY <1>1, <1>2, PTL DEF Spec

LEMMA NewsAlways == Spec => []News
<1>1. Init => News
  BY NewsAtFirst
<1>2. TypeOK /\ TypeOK' /\ News /\ [Next]_vars => News'
  BY NewsStep
<1>. QED  BY <1>1, <1>2, TypeCorrect, PTL DEF Spec

LEMMA AgreesThen == TypeOK /\ News => RecordsAgree
<1> SUFFICES ASSUME TypeOK, News  PROVE RecordsAgree
  OBVIOUS
<1>1. ASSUME NEW n \in Node  PROVE Cardinality(Records(n)) <= 1
  <2>1. CASE Records(n) = {}
    <3>1. Cardinality({}) = 0
      BY FS_EmptySet
    <3>2. Cardinality(Records(n)) = 0
      BY <2>1, <3>1, Zenon
    <3>. QED  BY <3>2
  <2>2. CASE Records(n) # {}
    <3>1. PICK r : r \in Records(n)
      BY <2>2
    <3>2. Records(n) = {r}
      BY <3>1, RecordsAre DEF News, One
    <3>3. Cardinality({r}) = 1
      BY FS_Singleton
    <3>4. Cardinality(Records(n)) = 1
      BY <3>2, <3>3, Zenon
    <3>. QED  BY <3>4
  <2>. QED  BY <2>1, <2>2
<1>2. ASSUME Quiet, NEW r \in DOMAIN home
      PROVE  r[1] \in hist.missed \cup hist.overtaken \/ (r[1] \in server.nodes /\ home[r].value = server.value[r[1]])
  <2>1. r[1] \in Astray \cup hist.overtaken \cup ToStore \/ Agrees(r[1], home[r].value)
    BY DEF News, HomeSound
  <2>2. Unread(wires) = {}
    <3>1. \A s \in Socket : Range(wires[s].inbox) = {}
      BY <1>2, NoneLeft DEF Quiet
    <3>2. DOMAIN wires = Socket
      BY DEF TypeOK, OtherTypes
    <3>. QED  BY <3>1, <3>2, UnreadAre
  <2>3. ToStore = {}
    <3>1. \A j \in Jobs : jobs[j] \in JobStates /\ jobs[j].todo = <<>>
      BY <1>2 DEF Quiet, News, IdleJobs, TypeOK, HubTypes
    <3>2. \A j \in Jobs : Waiting(jobs[j]) = {}
      BY <3>1, WaitingAre
    <3>. QED  BY <3>2 DEF ToStore
  <2>4. Hearing
    <3>1. bridge.socket \in Socket
      BY <1>2, MatterAssumption DEF Quiet, CanAsk, TypeOK, HubTypes, Bridges, Socket
    <3>. QED  BY <1>2, <3>1 DEF Quiet, Hearing
  <2>. QED  BY <2>1, <2>2, <2>3, <2>4 DEF Astray, Agrees
<1>. QED  BY <1>1, <1>2 DEF RecordsAgree

(* A physical device never has two records, and once everything that is on *)
(* its way has been handled a record shows what the server has, except for *)
(* the devices whose events were lost or overtaken; and the bridge has an  *)
(* address only while an adapter is selected, or its removal awaits the    *)
(* save that clears it, unless a removal overlapped a selection.           *)
THEOREM SettingsAlways == Spec => []Settings
<1>1. Init => Addressed
  BY DEF Init, Addressed
<1>2. TypeOK /\ Addressed /\ [Next]_vars => Addressed'
  BY AddressStep
<1>3. TypeOK /\ News /\ Addressed => Settings
  BY AgreesThen DEF Settings, UrlFollows, Addressed
<1>. QED  BY <1>1, <1>2, <1>3, TypeCorrect, NewsAlways, PTL DEF Spec

(* A session that names a device names the one whose code it was given.    *)
THEOREM OwnDeviceAlways == Spec => []OwnDevice
<1>1. Init => Pairing
  BY PairingAtFirst
<1>2. TypeOK /\ TypeOK' /\ News /\ Pairing /\ [Next]_vars => Pairing'
  BY PairingStep
<1>3. Pairing => OwnDevice
  BY DEF Pairing, Own, OwnDevice, Stages
<1>. QED  BY <1>1, <1>2, <1>3, TypeCorrect, NewsAlways, PTL DEF Spec

-----------------------------------------------------------------------------
(***************************************************************************)
(* HiveHome: the account, the zones and what users did that the poll in    *)
(* flight has not seen.                                                    *)
(***************************************************************************)

(***************************************************************************)
(* The registry: what its helpers do to a function from zones to devices.  *)
(***************************************************************************)

LEMMA ZonesOf == \A S \in SUBSET Zone : \A f \in [S -> ZoneDevices] : f \in ZoneRegistries /\ DOMAIN f = S
BY DEF ZoneRegistries

LEMMA OfZones == \A f \in ZoneRegistries : DOMAIN f \subseteq Zone /\ f \in [DOMAIN f -> ZoneDevices]
BY DEF ZoneRegistries

LEMMA NoZones == Empty \in ZoneRegistries /\ DOMAIN Empty = {}
BY DEF Empty, ZoneRegistries

LEMMA ZonePutTypes ==
  ASSUME NEW f \in ZoneRegistries, NEW z \in Zone, NEW r \in ZoneDevices
  PROVE  /\ PutZone(f, z, r) \in ZoneRegistries /\ DOMAIN PutZone(f, z, r) = DOMAIN f \cup {z}
         /\ PutZone(f, z, r)[z] = r /\ \A x \in DOMAIN f : x # z => PutZone(f, z, r)[x] = f[x]
<1>1. DOMAIN f \subseteq Zone /\ \A x \in DOMAIN f : f[x] \in ZoneDevices
  BY OfZones
<1>2. PutZone(f, z, r) \in [DOMAIN f \cup {z} -> ZoneDevices]
  BY <1>1 DEF PutZone
<1>. QED  BY <1>1, <1>2, ZonesOf DEF PutZone

LEMMA RestrictTypes ==
  ASSUME NEW f \in ZoneRegistries, NEW S \in SUBSET DOMAIN f
  PROVE  /\ Restrict(f, S) \in ZoneRegistries /\ DOMAIN Restrict(f, S) = S
         /\ \A x \in S : Restrict(f, S)[x] = f[x]
<1>1. DOMAIN f \subseteq Zone /\ \A x \in DOMAIN f : f[x] \in ZoneDevices
  BY OfZones
<1>2. Restrict(f, S) \in [S -> ZoneDevices]
  BY <1>1 DEF Restrict
<1>. QED  BY <1>1, <1>2, ZonesOf DEF Restrict

LEMMA DropTypes ==
  ASSUME NEW f \in ZoneRegistries, NEW S
  PROVE  /\ Drop(f, S) \in ZoneRegistries /\ DOMAIN Drop(f, S) = DOMAIN f \ S
         /\ \A x \in DOMAIN f \ S : Drop(f, S)[x] = f[x]
BY RestrictTypes DEF Drop

LEMMA DeviceTypes ==
  /\ NewZone \in ZoneDevices /\ NewZone.area = NoArea /\ NewZone.ready = FALSE
  /\ \A r \in ZoneDevices : /\ [r EXCEPT !.available = TRUE] \in ZoneDevices /\ Unavailable(r) \in ZoneDevices
                        /\ [r EXCEPT !.available = TRUE].area = r.area /\ [r EXCEPT !.available = TRUE].ready = r.ready
                        /\ Unavailable(r).area = r.area /\ Unavailable(r).ready = r.ready
  /\ \A r \in ZoneDevices, a \in Area : /\ [r EXCEPT !.area = a, !.ready = TRUE] \in ZoneDevices
                                    /\ WithoutArea(r, a) \in ZoneDevices
                                    /\ r.area # a => WithoutArea(r, a) = r
BY DEF ZoneDevices, NewZone, Unavailable, WithoutArea

(***************************************************************************)
(* The types, and what the updates of the records do to their fields.      *)
(***************************************************************************)
Hives == [configured : BOOLEAN, status : Statuses, ignored : SUBSET Zone, entry : BOOLEAN]
Phases == {"idle", "asking", "tokens", "ingest", "sweep", "status", "degraded", "reauth_required"}
PollStates == [phase : Phases, incoming : SUBSET Zone, todo : SUBSET Zone, listed : ZoneRegistries]
Removals == [phase : {"idle", "asked", "hidden"}, zone : Zone \cup {NoArea}]
SetupPhases == {"none", "login", "mfa", "code", "discover", "open"}
Setups == [phase : SetupPhases, failed : 0..MaxAttempts, cooling : BOOLEAN]
CallStates == [restore : BOOLEAN, start : BOOLEAN]
HiveHistories == [late : SUBSET Zone, edited : SUBSET Zone, left : BOOLEAN, outlived : BOOLEAN]

StoreTypes == zones \in ZoneRegistries /\ areas \subseteq Area /\ hive \in Hives
BridgeTypes == account \in BOOLEAN /\ timer \in BOOLEAN /\ worker \in {"none", "bare", "signed"} /\ poll \in PollStates
UserTypes == removal \in Removals /\ leaving \in {"idle", "asking", "clearing"} /\ setup \in Setups /\ calls \in CallStates
CloudTypes == cloud \subseteq Zone /\ unseen \in HiveHistories /\ events \in 0..MaxEvents
Phased ==
  /\ poll.phase = "ingest" => poll.todo \subseteq poll.incoming
  /\ setup.phase = "discover" => poll.phase # "idle"
  /\ removal.phase # "idle" => removal.zone \in Zone
Typed == StoreTypes /\ BridgeTypes /\ UserTypes /\ CloudTypes /\ Phased

LEMMA TypesAre == Typed => HiveTypeOK
BY DEF Typed, HiveTypeOK, StoreTypes, BridgeTypes, UserTypes, CloudTypes, Phased, Hives, Phases, PollStates, Removals, SetupPhases, Setups, CallStates, HiveHistories

LEMMA HiveTypes ==
  /\ Disconnected \in Hives /\ Disconnected.configured = FALSE /\ Disconnected.ignored = {}
  /\ \A h \in Hives :
       /\ h.configured \in BOOLEAN /\ h.ignored \subseteq Zone
       /\ [h EXCEPT !.entry = TRUE] \in Hives
       /\ [h EXCEPT !.entry = TRUE].configured = h.configured /\ [h EXCEPT !.entry = TRUE].ignored = h.ignored
       /\ \A s \in Statuses : /\ [h EXCEPT !.status = s] \in Hives
                              /\ [h EXCEPT !.status = s].configured = h.configured
                              /\ [h EXCEPT !.status = s].ignored = h.ignored
                              /\ [h EXCEPT !.configured = TRUE, !.status = s] \in Hives
                              /\ [h EXCEPT !.configured = TRUE, !.status = s].ignored = h.ignored
       /\ \A S \in SUBSET Zone : /\ [h EXCEPT !.ignored = S] \in Hives
                                 /\ [h EXCEPT !.ignored = S].configured = h.configured
                                 /\ [h EXCEPT !.ignored = S].ignored = S
<1>1. Disconnected \in Hives /\ Disconnected.configured = FALSE /\ Disconnected.ignored = {}
  BY DEF Disconnected, Hives, Statuses
<1>2. ASSUME NEW h \in Hives, NEW s \in Statuses
      PROVE  /\ h.configured \in BOOLEAN /\ h.ignored \subseteq Zone
             /\ [h EXCEPT !.entry = TRUE] \in Hives
             /\ [h EXCEPT !.entry = TRUE].configured = h.configured /\ [h EXCEPT !.entry = TRUE].ignored = h.ignored
             /\ [h EXCEPT !.status = s] \in Hives
             /\ [h EXCEPT !.status = s].configured = h.configured
             /\ [h EXCEPT !.status = s].ignored = h.ignored
             /\ [h EXCEPT !.configured = TRUE, !.status = s] \in Hives
             /\ [h EXCEPT !.configured = TRUE, !.status = s].ignored = h.ignored
  BY DEF Hives
<1>3. ASSUME NEW h \in Hives, NEW S \in SUBSET Zone
      PROVE  /\ [h EXCEPT !.ignored = S] \in Hives
             /\ [h EXCEPT !.ignored = S].configured = h.configured
             /\ [h EXCEPT !.ignored = S].ignored = S
  BY DEF Hives
<1>4. "connected" \in Statuses
  BY DEF Statuses
<1>. QED  BY <1>1, <1>2, <1>3, <1>4

LEMMA HiveStays ==
  ASSUME hive \in Hives,
         \/ hive' = hive \/ hive' = Disconnected \/ hive' = [hive EXCEPT !.entry = TRUE]
         \/ \E s \in Statuses : hive' = [hive EXCEPT !.status = s] \/ hive' = [hive EXCEPT !.configured = TRUE, !.status = s]
         \/ \E S \in SUBSET Zone : hive' = [hive EXCEPT !.ignored = S]
  PROVE  hive' \in Hives
<1>1. CASE hive' = hive \/ hive' = Disconnected
  BY <1>1, HiveTypes
<1>2. CASE hive' = [hive EXCEPT !.entry = TRUE]
  BY <1>2 DEF Hives
<1>3. CASE \E s \in Statuses : hive' = [hive EXCEPT !.status = s]
  BY <1>3 DEF Hives
<1>4. CASE \E s \in Statuses : hive' = [hive EXCEPT !.configured = TRUE, !.status = s]
  BY <1>4 DEF Hives
<1>5. CASE \E S \in SUBSET Zone : hive' = [hive EXCEPT !.ignored = S]
  BY <1>5 DEF Hives
<1>. QED  BY <1>1, <1>2, <1>3, <1>4, <1>5

LEMMA HistStays ==
  ASSUME unseen \in HiveHistories,
         \/ unseen' = unseen
         \/ \E S \in SUBSET Zone : unseen' = [unseen EXCEPT !.late = S] \/ unseen' = [unseen EXCEPT !.edited = S]
  PROVE  unseen' \in HiveHistories
BY DEF HiveHistories

LEMMA PollTypes ==
  /\ NoPoll \in PollStates /\ NoPoll.phase = "idle"
  /\ \A p \in Phases : [NoPoll EXCEPT !.phase = p] \in PollStates /\ [NoPoll EXCEPT !.phase = p].phase = p
                       /\ [NoPoll EXCEPT !.phase = p].todo = {}
BY NoZones DEF NoPoll, PollStates, Phases

LEMMA SetupTypes ==
  /\ NoSetup \in Setups /\ NoSetup.phase = "none"
  /\ \A u \in Setups, p \in SetupPhases : [u EXCEPT !.phase = p] \in Setups /\ [u EXCEPT !.phase = p].phase = p
  /\ \A u \in Setups, n \in 0..MaxAttempts : /\ [u EXCEPT !.phase = "none", !.failed = n] \in Setups
                                             /\ [u EXCEPT !.phase = "none", !.failed = n].phase = "none"
  /\ \A u \in Setups : [u EXCEPT !.cooling = FALSE] \in Setups /\ [u EXCEPT !.cooling = FALSE].phase = u.phase
<1>1. 0 \in 0..MaxAttempts
  BY HiveAssumption
<1>2. NoSetup \in Setups /\ NoSetup.phase = "none"
  BY <1>1 DEF NoSetup, Setups, SetupPhases
<1>. DEFINE N == 0..MaxAttempts
<1>. HIDE DEF N
<1>3. ASSUME NEW u \in [phase : SetupPhases, failed : N, cooling : BOOLEAN], NEW p \in SetupPhases, NEW n \in N
      PROVE  /\ [u EXCEPT !.phase = p] \in [phase : SetupPhases, failed : N, cooling : BOOLEAN]
             /\ [u EXCEPT !.phase = p].phase = p
             /\ [u EXCEPT !.phase = p, !.failed = n] \in [phase : SetupPhases, failed : N, cooling : BOOLEAN]
             /\ [u EXCEPT !.phase = p, !.failed = n].phase = p
             /\ [u EXCEPT !.cooling = FALSE] \in [phase : SetupPhases, failed : N, cooling : BOOLEAN]
             /\ [u EXCEPT !.cooling = FALSE].phase = u.phase
  OBVIOUS
<1>4. Setups = [phase : SetupPhases, failed : N, cooling : BOOLEAN] /\ "none" \in SetupPhases /\ 0 \in N
  BY <1>1 DEF Setups, N, SetupPhases
<1>5. \A n \in 0..MaxAttempts : n \in N
  BY DEF N
<1>. QED  BY <1>2, <1>3, <1>4, <1>5

LEMMA SetupStays ==
  ASSUME setup \in Setups,
         \/ setup' = setup \/ setup' = [setup EXCEPT !.cooling = FALSE]
         \/ \E p \in SetupPhases \ {"discover"} : setup' = [setup EXCEPT !.phase = p]
  PROVE  setup' \in Setups /\ (setup'.phase = "discover" => setup.phase = "discover")
<1>. DEFINE N == 0..MaxAttempts
<1>. HIDE DEF N
<1>1. setup \in [phase : SetupPhases, failed : N, cooling : BOOLEAN]
  BY DEF Setups, N
<1>2. setup' \in [phase : SetupPhases, failed : N, cooling : BOOLEAN] /\ (setup'.phase = "discover" => setup.phase = "discover")
  BY <1>1
<1>. QED  BY <1>2 DEF Setups, N

LEMMA FailureTypes ==
  ASSUME UserTypes, NEW p \in SetupPhases
  PROVE  Failure(p) \in Setups /\ Failure(p).phase \in {p, "none"}
<1>1. MaxAttempts \in Nat /\ setup.failed \in 0..MaxAttempts /\ setup.cooling \in BOOLEAN
  BY HiveAssumption DEF UserTypes, Setups
<1>2. CASE setup.failed + 1 >= MaxAttempts
  BY <1>1, <1>2 DEF Failure, Setups, SetupPhases
<1>3. CASE ~(setup.failed + 1 >= MaxAttempts)
  <2>1. setup.failed + 1 \in 0..MaxAttempts
    BY <1>1, <1>3
  <2>2. Failure(p) = [phase |-> p, failed |-> setup.failed + 1, cooling |-> setup.cooling]
    BY <1>3 DEF Failure
  <2>. QED  BY <1>1, <2>1, <2>2 DEF Setups
<1>. QED  BY <1>2, <1>3

LEMMA OtherRecords ==
  /\ NoRemoval \in Removals /\ NoCalls \in CallStates
  /\ \A z \in Zone : [phase |-> "asked", zone |-> z] \in Removals
  /\ \A r \in Removals : [r EXCEPT !.phase = "hidden"] \in Removals
  /\ \A c \in CallStates, b \in BOOLEAN : [c EXCEPT !.restore = b] \in CallStates /\ [c EXCEPT !.start = b] \in CallStates
  /\ \A h \in HiveHistories, S \in SUBSET Zone :
       /\ [h EXCEPT !.late = S] \in HiveHistories /\ [h EXCEPT !.edited = S] \in HiveHistories
       /\ [h EXCEPT !.left = FALSE] \in HiveHistories
       /\ [h EXCEPT !.late = S].left = h.left /\ [h EXCEPT !.late = S].outlived = h.outlived
       /\ [h EXCEPT !.late = S].edited = h.edited /\ [h EXCEPT !.late = S].late = S
       /\ [h EXCEPT !.edited = S].left = h.left /\ [h EXCEPT !.edited = S].outlived = h.outlived
       /\ [h EXCEPT !.edited = S].late = h.late /\ [h EXCEPT !.edited = S].edited = S
       /\ [h EXCEPT !.left = FALSE].left = FALSE
       /\ [h EXCEPT !.left = FALSE].late = h.late /\ [h EXCEPT !.left = FALSE].edited = h.edited
BY DEF NoRemoval, Removals, NoCalls, CallStates, HiveHistories

LEMMA IngestedTypes ==
  ASSUME StoreTypes, NEW z \in Zone
  PROVE  /\ IngestedZone(z) \in ZoneDevices
         /\ z \in DOMAIN zones => IngestedZone(z).area = zones[z].area /\ IngestedZone(z).ready = zones[z].ready
<1>1. z \in DOMAIN zones => zones[z] \in ZoneDevices
  BY OfZones DEF StoreTypes
<1>. QED  BY <1>1, DeviceTypes DEF IngestedZone

LEMMA BeginTypes ==
  ASSUME BridgeTypes, BeginOrJoin
  PROVE  /\ poll' \in PollStates /\ worker' \in {"none", "bare", "signed"}
         /\ poll' = poll \/ (poll.phase = "idle" /\ poll'.phase = "asking")
         /\ poll'.phase # "idle"
BY PollTypes DEF BeginOrJoin, BridgeTypes, Phases

LEMMA BoundedTypes == ASSUME events \in 0..MaxEvents, Bounded PROVE events' \in 0..MaxEvents
BY HiveAssumption DEF Bounded

LEMMA TypesStay == ASSUME Typed, [HiveNext]_hiveVars PROVE Typed'
<1>. USE HiveAssumption DEF Typed, StoreTypes, BridgeTypes, UserTypes, CloudTypes
<1>1. CASE PollTimerFires \/ Refresh
  BY <1>1, BeginTypes DEF Phased, PollTimerFires, Refresh, store, users, polling
<1>2. CASE PollAnswered
  <2>1. poll' \in PollStates /\ poll'.phase = "tokens"
    BY <1>2 DEF PollAnswered, PollStates, Phases
  <2>. QED  BY <1>2, <2>1 DEF Phased, PollAnswered, store, users
<1>3. CASE PollReads
  <2>1. Filtered(poll.incoming) \in SUBSET Zone
    BY DEF Filtered, PollStates
  <2>2. poll' \in PollStates /\ poll'.phase = "ingest" /\ poll'.todo \subseteq poll'.incoming
    BY <1>3, <2>1 DEF PollReads, PollStates, Phases
  <2>. QED  BY <1>3, <2>2, HiveTypes, OtherRecords DEF Phased, PollReads, users
<1>4. CASE \E b \in BOOLEAN : Publish(b)
  <2>1. poll' \in PollStates /\ poll'.phase = "status"
    BY <1>4, PollTypes DEF Publish, Phases
  <2>2. hive' \in Hives
    <3>1. hive' = hive \/ hive' = [hive EXCEPT !.configured = TRUE, !.status = "connected"]
      BY <1>4 DEF Publish
    <3>. QED  BY <3>1, HiveStays DEF Statuses
  <2>3. events' \in 0..MaxEvents
    BY <1>4, BoundedTypes DEF Publish
  <2>. QED  BY <1>4, <2>1, <2>2, <2>3 DEF Phased, Publish, users
<1>5. CASE PollEnds \/ FailureSaved
  <2>1. setup.failed \in 0..MaxAttempts /\ 0 \in 0..MaxAttempts
    BY HiveAssumption DEF Setups
  <2>2. \A n \in 0..MaxAttempts : Discovered(n) \in Setups /\ Discovered(n).phase # "discover"
    BY SetupTypes DEF Discovered
  <2>3. timer' \in BOOLEAN /\ poll' = NoPoll /\ setup' \in Setups /\ setup'.phase # "discover"
    BY <1>5, <2>1, <2>2 DEF PollEnds, FailureSaved
  <2>. QED  BY <1>5, <2>3, PollTypes DEF Phased, PollEnds, FailureSaved, store
<1>6. ASSUME NEW z \in Zone, Ingest(z)  PROVE Typed'
  <2>1. poll' \in PollStates /\ poll'.phase = poll.phase /\ poll'.todo \subseteq poll.todo /\ poll'.incoming = poll.incoming
    BY <1>6 DEF Ingest, PollStates
  <2>2. zones' \in ZoneRegistries
    BY <1>6, IngestedTypes, ZonePutTypes DEF Ingest
  <2>. QED  BY <1>6, <2>1, <2>2 DEF Phased, Ingest, users
<1>7. ASSUME NEW z \in Zone, SweepStarts(z)  PROVE Typed'
  <2>1. zones[z] \in ZoneDevices /\ Swept \ {z} \subseteq DOMAIN zones
    BY <1>7, OfZones DEF SweepStarts, Swept
  <2>2. zones' \in ZoneRegistries /\ Restrict(zones, Swept \ {z}) \in ZoneRegistries
    BY <1>7, <2>1, ZonePutTypes, RestrictTypes, DeviceTypes DEF SweepStarts
  <2>3. poll' \in PollStates /\ poll'.phase = "sweep"
    BY <1>7, <2>2 DEF SweepStarts, PollStates, Phases
  <2>. QED  BY <1>7, <2>2, <2>3, OtherRecords DEF Phased, SweepStarts, users
<1>8. ASSUME NEW z \in Zone, Sweep(z)  PROVE Typed'
  <2>1. poll.listed \in ZoneRegistries /\ poll.listed[z] \in ZoneDevices
    BY <1>8, OfZones DEF Sweep, PollStates
  <2>2. zones' \in ZoneRegistries /\ Drop(poll.listed, {z}) \in ZoneRegistries
    BY <1>8, <2>1, ZonePutTypes, DropTypes, DeviceTypes DEF Sweep
  <2>3. poll' \in PollStates /\ poll'.phase = "sweep"
    BY <1>8, <2>2 DEF Sweep, PollStates, Phases
  <2>. QED  BY <1>8, <2>2, <2>3 DEF Phased, Sweep, users
<1>9. CASE PollFails
  <2>1. PICK status \in {"degraded", "reauth_required"} : hive' = [hive EXCEPT !.status = status] /\ poll' = [NoPoll EXCEPT !.phase = status]
    BY <1>9 DEF PollFails, Failing
  <2>2. hive' \in Hives /\ poll' \in PollStates /\ poll'.phase = status
    BY <2>1, PollTypes, HiveTypes DEF Phases, Statuses
  <2>3. events' \in 0..MaxEvents
    BY <1>9, BoundedTypes DEF PollFails
  <2>. QED  BY <1>9, <2>2, <2>3 DEF Phased, PollFails, users
<1>10. ASSUME NEW z \in Zone, CommandDone(z)  PROVE Typed'
  BY <1>10, BeginTypes DEF Phased, CommandDone, store, users
<1>11. ASSUME NEW z \in Zone, CommandFails(z)  PROVE Typed'
  <2>1. hive' \in Hives /\ timer' \in BOOLEAN
    <3>1. \E status \in {"degraded", "reauth_required"} : hive' = [hive EXCEPT !.status = status] /\ timer' = (timer /\ status = "degraded")
      BY <1>11 DEF CommandFails, Failing
    <3>. QED  BY <3>1, HiveStays DEF Statuses
  <2>. QED  BY <1>11, <2>1, BoundedTypes DEF Phased, CommandFails, users
<1>12. ASSUME NEW z \in Zone, RemoveAsked(z)  PROVE Typed'
  <2>1. removal' \in Removals /\ removal'.zone \in Zone
    BY <1>12 DEF RemoveAsked, Removals
  <2>. QED  BY <1>12, <2>1, BoundedTypes DEF Phased, RemoveAsked, store, polling
<1>13. CASE \E b \in BOOLEAN : RemoveHides(b)
  <2>1. /\ removal.zone \in DOMAIN zones => removal.zone \in Zone
        /\ hive.ignored \subseteq Zone /\ unseen.late \subseteq Zone
    BY OfZones DEF Hives, HiveHistories
  <2>2. removal.zone \in DOMAIN zones => hive.ignored \cup {removal.zone} \in SUBSET Zone /\ unseen.late \cup {removal.zone} \in SUBSET Zone
    BY <2>1
  <2>3. hive' \in Hives
    <3>1. hive' = hive \/ (removal.zone \in DOMAIN zones /\ hive' = [hive EXCEPT !.ignored = hive.ignored \cup {removal.zone}])
      BY <1>13 DEF RemoveHides
    <3>. QED  BY <2>2, <3>1, HiveStays
  <2>4. unseen' \in HiveHistories
    <3>1. unseen' = unseen \/ (removal.zone \in DOMAIN zones /\ unseen' = [unseen EXCEPT !.late = unseen.late \cup {removal.zone}])
      BY <1>13 DEF RemoveHides
    <3>. QED  BY <2>2, <3>1, HistStays
  <2>5. removal' \in Removals /\ (removal'.phase # "idle" => removal'.zone \in Zone)
    BY <1>13, <2>1 DEF RemoveHides, NoRemoval, Removals
  <2>6. events' \in 0..MaxEvents
    BY <1>13, BoundedTypes DEF RemoveHides
  <2>. QED  BY <1>13, <2>3, <2>4, <2>5, <2>6 DEF Phased, RemoveHides, polling
<1>14. CASE \E b \in BOOLEAN : RemoveDeletes(b)
  <2>1. removal.zone \in Zone
    BY <1>14 DEF RemoveDeletes, Phased
  <2>2. unseen' \in HiveHistories
    <3>1. unseen.edited \cup {removal.zone} \in SUBSET Zone
      BY <2>1 DEF HiveHistories
    <3>2. unseen' = [unseen EXCEPT !.edited = unseen.edited \cup {removal.zone}]
      BY <1>14 DEF RemoveDeletes, Edited
    <3>. QED  BY <3>1, <3>2, HistStays
  <2>3. zones' \in ZoneRegistries /\ events' \in 0..MaxEvents
    <3>1. zones' = zones \/ zones' = Drop(zones, {removal.zone})
      BY <1>14 DEF RemoveDeletes
    <3>2. events' \in 0..MaxEvents
      BY <1>14, BoundedTypes DEF RemoveDeletes
    <3>. QED  BY <3>1, <3>2, DropTypes
  <2>4. removal' \in Removals /\ removal'.phase = "idle"
    BY <1>14 DEF RemoveDeletes, NoRemoval, Removals
  <2>. QED  BY <1>14, <2>2, <2>3, <2>4 DEF Phased, RemoveDeletes, polling
<1>15. ASSUME NEW z \in Zone, Restore(z)  PROVE Typed'
  <2>1. hive.ignored \ {z} \subseteq Zone
    BY DEF Hives
  <2>. QED  BY <1>15, <2>1, HiveTypes, OtherRecords, BoundedTypes DEF Phased, Restore, polling
<1>16. CASE RestoreRefreshes
  <2>1. calls' \in CallStates
    BY <1>16, OtherRecords DEF RestoreRefreshes
  <2>. QED  BY <1>16, <2>1, BeginTypes DEF Phased, RestoreRefreshes, store
<1>17. ASSUME NEW z \in Zone, NEW a \in Area, AssignZone(z, a)  PROVE Typed'
  <2>1. zones' \in ZoneRegistries
    <3>. DEFINE r == [zones[z] EXCEPT !.area = a, !.ready = TRUE]
    <3>1. z \in DOMAIN zones /\ zones' = [zones EXCEPT ![z].area = a, ![z].ready = TRUE]
      BY <1>17 DEF AssignZone
    <3>2. zones' = [zones EXCEPT ![z] = r]
      BY <3>1
    <3>3. DOMAIN zones \subseteq Zone /\ zones \in [DOMAIN zones -> ZoneDevices] /\ zones[z] \in ZoneDevices
      BY <3>1, OfZones
    <3>4. \A d \in ZoneDevices : [d EXCEPT !.area = a, !.ready = TRUE] \in ZoneDevices
      BY DEF ZoneDevices
    <3>5. r \in ZoneDevices
      BY <3>3, <3>4
    <3>. HIDE DEF r
    <3>6. zones' \in [DOMAIN zones -> ZoneDevices]
      BY <3>2, <3>3, <3>5
    <3>. QED  BY <3>3, <3>6, ZonesOf
  <2>2. unseen' \in HiveHistories
    BY <1>17, OtherRecords DEF AssignZone, Edited, HiveHistories
  <2>. QED  BY <1>17, <2>1, <2>2, BoundedTypes DEF Phased, AssignZone, polling, users
<1>18. ASSUME NEW a \in Area, RemoveArea(a)  PROVE Typed'
  <2>1. zones' \in ZoneRegistries
    <3>1. DOMAIN zones \subseteq Zone /\ \A z \in DOMAIN zones : zones[z] \in ZoneDevices
      BY OfZones
    <3>2. \A d \in ZoneDevices : WithoutArea(d, a) \in ZoneDevices
      BY DEF ZoneDevices, WithoutArea
    <3>3. zones' \in [DOMAIN zones -> ZoneDevices]
      BY <1>18, <3>1, <3>2 DEF RemoveArea
    <3>. QED  BY <3>1, <3>3, ZonesOf
  <2>2. unseen' \in HiveHistories
    <3>1. DOMAIN zones \subseteq Zone /\ unseen.edited \subseteq Zone
      BY OfZones DEF HiveHistories
    <3>. QED  BY <1>18, <3>1, OtherRecords DEF RemoveArea, Edited
  <2>. QED  BY <1>18, <2>1, <2>2, BoundedTypes DEF Phased, RemoveArea, polling, users
<1>19. CASE ConnectStarts
  BY <1>19, SetupTypes, HiveTypes, OtherRecords, BoundedTypes DEF Phased, ConnectStarts, Statuses, SetupPhases
<1>20. CASE CodeAsked \/ CodeSubmitted \/ SetupDropped \/ CooldownEnds
  <2>1. setup' \in Setups /\ (setup'.phase = "discover" => setup.phase = "discover")
    <3>1. \/ \E p \in {"mfa", "code", "none"} : setup' = [setup EXCEPT !.phase = p]
          \/ setup' = [setup EXCEPT !.cooling = FALSE]
      BY <1>20 DEF CodeAsked, CodeSubmitted, SetupDropped, CooldownEnds
    <3>. QED  BY <3>1, SetupStays DEF SetupPhases
  <2>2. hive' \in Hives
    <3>1. hive' = hive \/ hive' = [hive EXCEPT !.status = "mfa_required"]
      BY <1>20 DEF CodeAsked, CodeSubmitted, SetupDropped, CooldownEnds, store
    <3>. QED  BY <3>1, HiveStays DEF Statuses
  <2>3. UNCHANGED <<zones, areas, polling, removal, leaving, calls, cloud, unseen, events>>
    BY <1>20 DEF CodeAsked, CodeSubmitted, SetupDropped, CooldownEnds, store
  <2>. QED  BY <2>1, <2>2, <2>3 DEF Phased, polling
<1>21. CASE ConnectFinishes
  BY <1>21, SetupTypes, HiveTypes, PollTypes DEF Phased, ConnectFinishes, Statuses, SetupPhases, Phases
<1>22. CASE ConnectFails \/ AuthenticateFails
  <2>1. setup' \in Setups /\ setup'.phase # "discover"
    <3>1. setup' = Failure("open") \/ setup' = Failure("mfa") \/ setup' = [setup EXCEPT !.phase = "open"]
      BY <1>22 DEF ConnectFails, AuthenticateFails
    <3>2. \A p \in {"open", "mfa"} : Failure(p) \in Setups /\ Failure(p).phase # "discover"
      BY FailureTypes DEF SetupPhases
    <3>3. [setup EXCEPT !.phase = "open"] \in Setups /\ [setup EXCEPT !.phase = "open"].phase = "open"
      BY SetupTypes DEF SetupPhases
    <3>. QED  BY <3>1, <3>2, <3>3
  <2>2. hive' \in Hives
    <3>1. hive' = hive \/ \E status \in {"disconnected", "mfa_required"} : hive' = [hive EXCEPT !.status = status]
      BY <1>22 DEF ConnectFails, AuthenticateFails, Failing, store
    <3>. QED  BY <3>1, HiveStays DEF Statuses
  <2>3. UNCHANGED <<zones, areas, polling, removal, leaving, calls, cloud, unseen, events>>
    BY <1>22 DEF ConnectFails, AuthenticateFails, store
  <2>. QED  BY <2>1, <2>2, <2>3 DEF Phased, polling
<1>23. CASE LeaveStarts \/ LeaveUnconfirmed \/ LeaveStops
  <2>1. setup' \in Setups /\ (setup'.phase = "discover" => setup.phase = "discover")
    <3>1. setup' = setup \/ setup' = [setup EXCEPT !.phase = "none"]
      BY <1>23 DEF LeaveStarts, LeaveUnconfirmed, LeaveStops
    <3>. QED  BY <3>1, SetupStays DEF SetupPhases
  <2>2. events' \in 0..MaxEvents
    BY <1>23, BoundedTypes DEF LeaveStarts, LeaveUnconfirmed, LeaveStops
  <2>3. /\ leaving' \in {"idle", "asking", "clearing"} /\ account' \in BOOLEAN /\ timer' \in BOOLEAN /\ worker' \in {"none", "bare", "signed"}
        /\ UNCHANGED <<store, poll, removal, calls, cloud, unseen>>
    BY <1>23 DEF LeaveStarts, LeaveUnconfirmed, LeaveStops, polling
  <2>. QED  BY <2>1, <2>2, <2>3 DEF Phased, store
<1>24. CASE \E b \in BOOLEAN : LeaveClears(b)
  <2>1. unseen' \in HiveHistories
    <3>. DEFINE l == (setup.phase = "none")
                o == (poll.phase # "idle")
                h == [unseen EXCEPT !.edited = Zone, !.late = Zone, !.left = l, !.outlived = o]
    <3>1. l \in BOOLEAN /\ o \in BOOLEAN
      OBVIOUS
    <3>2. unseen' = unseen \/ unseen' = h
      BY <1>24 DEF LeaveClears
    <3>. HIDE DEF l, o
    <3>3. h \in HiveHistories
      BY <3>1 DEF HiveHistories
    <3>. QED  BY <3>2, <3>3
  <2>. QED  BY <1>24, <2>1, NoZones, HiveTypes, BoundedTypes DEF Phased, LeaveClears, Cleared, polling
<1>25. CASE (\E z \in Zone : CloudChanges(z)) \/ WorkerExits
  BY <1>25, BoundedTypes DEF Phased, CloudChanges, WorkerExits, store, polling, users
<1>26. CASE Restart
  <2>1. calls' \in CallStates
    <3>1. (hive.configured /\ account) \in BOOLEAN
      OBVIOUS
    <3>. QED  BY <1>26, <3>1, OtherRecords DEF Restart
  <2>2. /\ poll' \in PollStates /\ poll'.phase = "idle" /\ removal' \in Removals /\ removal'.phase = "idle"
        /\ setup' \in Setups /\ setup'.phase = "none"
    BY <1>26, PollTypes, OtherRecords, SetupTypes DEF Restart, NoRemoval
  <2>. QED  BY <1>26, <2>1, <2>2, BoundedTypes DEF Phased, Restart, store
<1>27. CASE StartAnswered \/ BridgeStartFails
  <2>1. poll' \in PollStates /\ (poll' = poll \/ poll'.phase = "asking")
    <3>1. poll' = poll \/ poll' = [NoPoll EXCEPT !.phase = "asking"]
      BY <1>27 DEF StartAnswered, BridgeStartFails
    <3>. QED  BY <3>1, PollTypes DEF Phases
  <2>2. hive' \in Hives
    <3>1. hive' = hive \/ \E status \in {"degraded", "reauth_required"} : hive' = [hive EXCEPT !.status = status]
      BY <1>27 DEF StartAnswered, BridgeStartFails, Failing, store
    <3>. QED  BY <3>1, HiveStays DEF Statuses
  <2>3. calls' \in CallStates /\ worker' \in {"none", "bare", "signed"}
    <3>1. calls' = [calls EXCEPT !.start = FALSE] /\ worker' \in {"bare", "signed"}
      BY <1>27 DEF StartAnswered, BridgeStartFails
    <3>. QED  BY <3>1, OtherRecords
  <2>4. events' \in 0..MaxEvents
    BY <1>27, BoundedTypes DEF StartAnswered, BridgeStartFails
  <2>5. UNCHANGED <<zones, areas, account, timer, removal, leaving, setup, cloud, unseen>>
    BY <1>27 DEF StartAnswered, BridgeStartFails, store
  <2>. QED  BY <2>1, <2>2, <2>3, <2>4, <2>5 DEF Phased
<1>28. CASE UNCHANGED hiveVars
  BY <1>28 DEF Phased, hiveVars, store, polling, users
<1>. QED
  BY <1>1, <1>2, <1>3, <1>4, <1>5, <1>6, <1>7, <1>8, <1>9, <1>10, <1>11, <1>12, <1>13, <1>14, <1>15, <1>16, <1>17, <1>18, <1>19,
     <1>20, <1>21, <1>22, <1>23, <1>24, <1>25, <1>26, <1>27, <1>28
  DEF HiveNext, PollStep, UserStep, Trouble

LEMMA InitTypes == ASSUME HiveInit PROVE Typed
<1>1. zones \in ZoneRegistries
  <2>1. [z \in Zone |-> NewZone] \in ZoneRegistries
    BY DeviceTypes, ZonesOf
  <2>. QED  BY <2>1, NoZones DEF HiveInit
<1>2. hive \in Hives
  <2>1. hive = Disconnected \/ hive = [configured |-> TRUE, status |-> "connected", ignored |-> {}, entry |-> TRUE]
    BY DEF HiveInit
  <2>2. [configured |-> TRUE, status |-> "connected", ignored |-> {}, entry |-> TRUE] \in Hives
    BY DEF Hives, Statuses
  <2>. QED  BY <2>1, <2>2, HiveTypes
<1>3. calls \in CallStates
  <2>1. calls = NoCalls \/ calls = [NoCalls EXCEPT !.start = TRUE]
    BY DEF HiveInit
  <2>2. NoCalls \in CallStates /\ [NoCalls EXCEPT !.start = TRUE] \in CallStates
    BY OtherRecords
  <2>. QED  BY <2>1, <2>2
<1>4. unseen \in HiveHistories
  BY DEF HiveInit, NoHistory, HiveHistories
<1>5. events \in 0..MaxEvents
  BY HiveAssumption DEF HiveInit
<1>6. removal.phase = "idle" /\ removal \in Removals
  BY DEF HiveInit, NoRemoval, Removals
<1>. QED  BY <1>1, <1>2, <1>3, <1>4, <1>5, <1>6, PollTypes, SetupTypes
     DEF HiveInit, Typed, StoreTypes, BridgeTypes, UserTypes, CloudTypes, Phased

(* hiveBridge.js: the types, and what the phases of a poll, a removal and a setup say of
   each other between any two of its steps. *)
THEOREM TypedAlways == HiveSpec => []Typed
BY InitTypes, TypesStay, PTL DEF HiveSpec

(* HiveTypeOK: the types of the variables, a poll writes what it was told, and a setup that
   discovers has a poll to wait for. *)
THEOREM HiveTypeCorrect == HiveSpec => []HiveTypeOK
BY TypedAlways, TypesAre, PTL

(***************************************************************************)
(* The account that was cleared.                                           *)
(***************************************************************************)
\* Nothing is under way that could bring the account back.
Gone ==
  unseen.left /\ ~unseen.outlived =>
    zones = Empty /\ ~hive.configured /\ poll.phase = "idle" /\ setup.phase = "none"

LEMMA EmptyStays ==
  /\ \A S : Drop(Empty, S) = Empty
  /\ \A a : [z \in DOMAIN Empty |-> WithoutArea(Empty[z], a)] = Empty
BY DEF Drop, Restrict, Empty

LEMMA GoneStays == ASSUME Typed, [HiveNext]_hiveVars, Gone PROVE Gone'
<1>. DEFINE is == zones = Empty /\ ~hive.configured /\ poll.phase = "idle" /\ setup.phase = "none"
<1>0. /\ hive \in Hives /\ unseen \in HiveHistories /\ setup \in Setups /\ poll \in PollStates /\ DOMAIN Empty = {}
      /\ NoPoll.phase = "idle" /\ NoSetup.phase = "none"
  BY NoZones, PollTypes, SetupTypes DEF Typed, StoreTypes, BridgeTypes, UserTypes, CloudTypes
<1>1. CASE \E b \in BOOLEAN : LeaveClears(b)
  <2>1. PICK b \in BOOLEAN : LeaveClears(b)
    BY <1>1
  <2>2. UNCHANGED <<poll, setup>>
    BY <2>1 DEF LeaveClears, polling
  <2>3. CASE b
    <3>1. zones' = Empty /\ ~hive'.configured
      BY <2>1, <2>3, HiveTypes DEF LeaveClears, Cleared
    <3>2. unseen' = [unseen EXCEPT !.edited = Zone, !.late = Zone, !.left = (setup.phase = "none"), !.outlived = (poll.phase # "idle")]
      BY <2>1, <2>3 DEF LeaveClears
    <3>3. (unseen'.left <=> setup.phase = "none") /\ (unseen'.outlived <=> poll.phase # "idle")
      BY <1>0, <3>2 DEF HiveHistories
    <3>. QED  BY <2>2, <3>1, <3>3 DEF Gone
  <2>4. CASE ~b
    BY <2>1, <2>2, <2>4 DEF LeaveClears, Gone
  <2>. QED  BY <2>3, <2>4
<1>2. CASE ConnectStarts
  BY <1>0, <1>2, OtherRecords DEF ConnectStarts, Gone
<1>3. ASSUME unseen'.left = unseen.left, unseen'.outlived = unseen.outlived, is => is'
      PROVE  Gone'
  BY <1>3 DEF Gone
<1>4. CASE PollReads \/ (\E z \in Zone : SweepStarts(z))
  <2>1. unseen'.left = unseen.left /\ unseen'.outlived = unseen.outlived
    BY <1>0, <1>4 DEF PollReads, SweepStarts, HiveHistories
  <2>2. poll.phase # "idle"
    BY <1>4 DEF PollReads, SweepStarts
  <2>. QED  BY <1>3, <2>1, <2>2
<1>5. CASE PollTimerFires \/ Refresh \/ RestoreRefreshes \/ \E z \in Zone : CommandDone(z)
  <2>1. UNCHANGED <<zones, hive, setup, unseen>> /\ (hive.configured \/ UNCHANGED poll)
    BY <1>5 DEF PollTimerFires, Refresh, RestoreRefreshes, CommandDone, Commandable, store, users
  <2>. QED  BY <1>3, <2>1
<1>6. CASE PollAnswered \/ (\E z \in Zone : Ingest(z) \/ Sweep(z)) \/ (\E b \in BOOLEAN : Publish(b)) \/ PollEnds \/ PollFails \/ FailureSaved
  <2>1. poll.phase # "idle"
    BY <1>6 DEF PollAnswered, Ingest, Sweep, Publish, PollEnds, PollFails, FailureSaved
  <2>2. unseen' = unseen
    BY <1>6 DEF PollAnswered, Ingest, Sweep, Publish, PollEnds, PollFails, FailureSaved
  <2>. QED  BY <1>3, <2>1, <2>2
<1>7. CASE \E z \in Zone : CommandFails(z) \/ RemoveAsked(z) \/ Restore(z) \/ CloudChanges(z)
  <2>1. UNCHANGED <<zones, poll, setup, unseen>>
    BY <1>7 DEF CommandFails, RemoveAsked, Restore, CloudChanges, store, polling, users
  <2>2. hive'.configured = hive.configured
    <3>1. hive' = hive \/ \E v : hive' = [hive EXCEPT !.status = v] \/ hive' = [hive EXCEPT !.ignored = v]
      BY <1>7 DEF CommandFails, RemoveAsked, Restore, CloudChanges, Failing, store
    <3>. QED  BY <1>0, <3>1 DEF Hives
  <2>. QED  BY <1>3, <2>1, <2>2
<1>8. CASE \E b \in BOOLEAN : RemoveHides(b) \/ RemoveDeletes(b)
  <2>1. UNCHANGED <<poll, setup>> /\ (zones' = zones \/ \E S : zones' = Drop(zones, S))
    BY <1>8 DEF RemoveHides, RemoveDeletes, polling
  <2>2. hive'.configured = hive.configured
    <3>1. hive' = hive \/ \E v : hive' = [hive EXCEPT !.ignored = v]
      BY <1>8 DEF RemoveHides, RemoveDeletes
    <3>. QED  BY <1>0, <3>1 DEF Hives
  <2>3. unseen'.left = unseen.left /\ unseen'.outlived = unseen.outlived
    <3>1. unseen' = unseen \/ \E v : unseen' = [unseen EXCEPT !.late = v] \/ unseen' = [unseen EXCEPT !.edited = v]
      BY <1>8 DEF RemoveHides, RemoveDeletes, Edited
    <3>. QED  BY <1>0, <3>1 DEF HiveHistories
  <2>. QED  BY <1>3, <2>1, <2>2, <2>3, EmptyStays
<1>9. CASE (\E z \in Zone, a \in Area : AssignZone(z, a)) \/ (\E a \in Area : RemoveArea(a))
  <2>1. UNCHANGED <<poll, setup, hive>>
    BY <1>9 DEF AssignZone, RemoveArea, polling, users
  <2>2. zones = Empty => zones' = Empty
    BY <1>0, <1>9, EmptyStays DEF AssignZone, RemoveArea
  <2>3. unseen'.left = unseen.left /\ unseen'.outlived = unseen.outlived
    <3>1. \E v : unseen' = [unseen EXCEPT !.edited = v]
      BY <1>9 DEF AssignZone, RemoveArea, Edited
    <3>. QED  BY <1>0, <3>1 DEF HiveHistories
  <2>. QED  BY <1>3, <2>1, <2>2, <2>3
<1>10. CASE CodeAsked \/ CodeSubmitted \/ SetupDropped \/ ConnectFinishes \/ ConnectFails \/ AuthenticateFails
  <2>1. setup.phase # "none" /\ unseen' = unseen
    BY <1>10 DEF CodeAsked, CodeSubmitted, SetupDropped, ConnectFinishes, ConnectFails, AuthenticateFails
  <2>. QED  BY <1>3, <2>1
<1>11. CASE CooldownEnds \/ LeaveStarts \/ LeaveUnconfirmed \/ LeaveStops \/ WorkerExits
  <2>1. UNCHANGED <<zones, hive, poll, unseen>>
    BY <1>11 DEF CooldownEnds, LeaveStarts, LeaveUnconfirmed, LeaveStops, WorkerExits, store, polling
  <2>2. setup.phase = "none" => setup'.phase = "none"
    <3>1. setup' = setup \/ setup' = [setup EXCEPT !.cooling = FALSE] \/ setup' = [setup EXCEPT !.phase = "none"]
      BY <1>11 DEF CooldownEnds, LeaveStarts, LeaveUnconfirmed, LeaveStops, WorkerExits, users
    <3>2. setup.phase \in SetupPhases /\ [setup EXCEPT !.cooling = FALSE].phase = setup.phase
      BY <1>0, SetupTypes DEF Setups
    <3>3. [setup EXCEPT !.phase = "none"].phase = "none"
      BY <1>0 DEF Setups
    <3>. QED  BY <3>1, <3>2, <3>3
  <2>. QED  BY <1>3, <2>1, <2>2
<1>12. CASE Restart \/ StartAnswered \/ BridgeStartFails
  <2>1. UNCHANGED <<zones, unseen>> /\ (UNCHANGED poll \/ poll' = NoPoll \/ hive.configured) /\ (UNCHANGED setup \/ setup' = NoSetup)
    BY <1>12 DEF Restart, StartAnswered, BridgeStartFails, store
  <2>2. hive'.configured = hive.configured
    <3>1. hive' = hive \/ \E v : hive' = [hive EXCEPT !.status = v]
      BY <1>12 DEF Restart, StartAnswered, BridgeStartFails, Failing, store
    <3>. QED  BY <1>0, <3>1 DEF Hives
  <2>. QED  BY <1>0, <1>3, <2>1, <2>2
<1>13. CASE UNCHANGED hiveVars
  BY <1>3, <1>13 DEF hiveVars, store, polling, users
<1>. QED
  BY <1>1, <1>2, <1>4, <1>5, <1>6, <1>7, <1>8, <1>9, <1>10, <1>11, <1>12, <1>13 DEF HiveNext, PollStep, UserStep, Trouble

(* hiveBridge.js, disconnect and clearHive: after it has cleared the account no device of
   it comes back until a connect begins, unless a poll was in flight then. *)
THEOREM DisconnectedStaysEmptyAlways == HiveSpec => []DisconnectedStaysEmpty
<1>1. HiveInit => Gone
  BY DEF HiveInit, NoHistory, Gone
<1>2. Typed /\ Gone /\ [HiveNext]_hiveVars => Gone'
  BY GoneStays
<1>3. Gone => DisconnectedStaysEmpty
  BY DEF Gone, DisconnectedStaysEmpty
<1>. QED  BY <1>1, <1>2, <1>3, TypedAlways, PTL DEF HiveSpec

(***************************************************************************)
(* What a poll leaves alone.                                               *)
(***************************************************************************)
\* What it has still to write was not hidden, and is as it was listed, but for what users
\* did since.
Same(f, g, z) == f[z].area = g[z].area /\ f[z].ready = g[z].ready
Following ==
  /\ poll.phase = "ingest" => \A z \in poll.todo : z \in hive.ignored => z \in unseen.late
  /\ poll.phase = "sweep" => \A z \in DOMAIN poll.listed \ unseen.edited : z \in DOMAIN zones /\ Same(zones, poll.listed, z)

\* The steps that write into the home, those of the poll, and the others.
LEMMA FollowingStays == ASSUME Typed, [HiveNext]_hiveVars, Following PROVE Following'
<1>0. /\ hive \in Hives /\ unseen \in HiveHistories /\ poll \in PollStates /\ zones \in ZoneRegistries
  BY DEF Typed, StoreTypes, BridgeTypes, CloudTypes
<1>1. ASSUME NEW p \in {"idle", "asking", "tokens", "status", "degraded", "reauth_required"}, poll'.phase = p
      PROVE  Following'
  BY <1>1 DEF Following
<1>2. ASSUME UNCHANGED <<poll, zones>>, hive'.ignored \subseteq hive.ignored, unseen'.late = unseen.late, unseen'.edited = unseen.edited
      PROVE  Following'
  BY <1>2 DEF Following, Same
<1>3. CASE PollTimerFires \/ Refresh \/ RestoreRefreshes \/ \E z \in Zone : CommandDone(z)
  <2>1. UNCHANGED <<zones, hive, unseen>> /\ (BeginOrJoin \/ poll' = poll)
    BY <1>3 DEF PollTimerFires, Refresh, RestoreRefreshes, CommandDone, store, users
  <2>2. UNCHANGED poll \/ poll'.phase = "asking"
    BY <2>1, BeginTypes DEF Typed
  <2>. QED  BY <1>1, <1>2, <2>1, <2>2
<1>4. CASE PollAnswered \/ (\E b \in BOOLEAN : Publish(b)) \/ PollEnds \/ PollFails \/ FailureSaved
  <2>1. poll' = NoPoll \/ poll' = [poll EXCEPT !.phase = "tokens", !.incoming = cloud]
        \/ \E p \in {"status", "degraded", "reauth_required"} : poll' = [NoPoll EXCEPT !.phase = p]
    BY <1>4 DEF PollAnswered, Publish, PollEnds, PollFails, FailureSaved
  <2>2. poll'.phase \in {"idle", "tokens", "status", "degraded", "reauth_required"}
    BY <1>0, <2>1, PollTypes DEF PollStates, Phases
  <2>. QED  BY <1>1, <2>2
<1>5. CASE PollReads
  <2>1. poll'.phase = "ingest" /\ poll'.todo = poll.incoming \ hive.ignored
    BY <1>0, <1>5 DEF PollReads, Filtered, PollStates
  <2>2. hive'.ignored = hive.ignored
    BY <1>0, <1>5, HiveTypes DEF PollReads
  <2>. QED  BY <2>1, <2>2 DEF Following
<1>6. ASSUME NEW z \in Zone, Ingest(z)  PROVE Following'
  <2>1. poll'.phase = "ingest" /\ poll'.todo \subseteq poll.todo /\ UNCHANGED <<hive, unseen>>
    BY <1>0, <1>6 DEF Ingest, PollStates
  <2>. QED  BY <1>6, <2>1 DEF Following, Ingest
<1>7. ASSUME NEW z \in Zone, SweepStarts(z)  PROVE Following'
  <2>1. Swept \ {z} \subseteq DOMAIN zones
    BY DEF Swept
  <2>2. poll'.phase = "sweep" /\ poll'.listed = Restrict(zones, Swept \ {z})
    BY <1>0, <1>7 DEF SweepStarts, PollStates
  <2>3. /\ DOMAIN poll'.listed = Swept \ {z}
        /\ \A x \in Swept \ {z} : poll'.listed[x] = zones[x]
    BY <1>0, <2>1, <2>2, RestrictTypes
  <2>4. z \in DOMAIN zones /\ zones[z] \in ZoneDevices
    BY <1>0, <1>7, OfZones DEF SweepStarts, Swept
  <2>5. \A x \in Swept \ {z} : x \in DOMAIN zones' /\ zones'[x] = zones[x]
    <3>. DEFINE r == Unavailable(zones[z])
    <3>1. r \in ZoneDevices
      BY <2>4, DeviceTypes
    <3>2. zones' = PutZone(zones, z, r)
      BY <1>7 DEF SweepStarts
    <3>. HIDE DEF r
    <3>3. \A x \in DOMAIN zones : x # z => x \in DOMAIN zones' /\ zones'[x] = zones[x]
      BY <3>2 DEF PutZone
    <3>. QED  BY <2>1, <3>3
  <2>. QED  BY <2>2, <2>3, <2>5 DEF Following, Same
<1>8. ASSUME NEW z \in Zone, Sweep(z)  PROVE Following'
  <2>1. poll.listed \in ZoneRegistries /\ z \in DOMAIN poll.listed /\ poll.listed[z] \in ZoneDevices /\ poll.phase = "sweep"
    BY <1>0, <1>8, OfZones DEF Sweep, PollStates
  <2>2. poll'.phase = "sweep" /\ poll'.listed = Drop(poll.listed, {z}) /\ unseen' = unseen
    BY <1>0, <1>8 DEF Sweep, PollStates
  <2>3. /\ DOMAIN poll'.listed = DOMAIN poll.listed \ {z}
        /\ \A x \in DOMAIN poll.listed \ {z} : poll'.listed[x] = poll.listed[x]
    BY <2>1, <2>2 DEF Drop, Restrict
  <2>4. \A x \in DOMAIN zones : x # z => x \in DOMAIN zones' /\ zones'[x] = zones[x]
    <3>. DEFINE r == Unavailable(poll.listed[z])
    <3>1. r \in ZoneDevices
      BY <2>1, DeviceTypes
    <3>2. zones' = PutZone(zones, z, r)
      BY <1>8 DEF Sweep
    <3>. HIDE DEF r
    <3>. QED  BY <3>2 DEF PutZone
  <2>5. \A x \in DOMAIN poll'.listed \ unseen'.edited : x \in DOMAIN zones' /\ Same(zones', poll'.listed, x)
    <3>. TAKE x \in DOMAIN poll'.listed \ unseen'.edited
    <3>1. x \in DOMAIN poll.listed \ unseen.edited /\ x # z /\ poll'.listed[x] = poll.listed[x]
      BY <2>2, <2>3
    <3>2. x \in DOMAIN zones /\ Same(zones, poll.listed, x)
      BY <2>1, <3>1 DEF Following
    <3>3. x \in DOMAIN zones' /\ zones'[x] = zones[x]
      BY <2>4, <3>1, <3>2
    <3>. QED  BY <3>1, <3>2, <3>3 DEF Same
  <2>6. poll'.phase # "ingest"
    BY <2>2
  <2>. QED  BY <2>5, <2>6 DEF Following
<1>9. CASE \E z \in Zone : CommandFails(z) \/ RemoveAsked(z) \/ Restore(z) \/ CloudChanges(z)
  <2>1. UNCHANGED <<zones, poll, unseen>>
    BY <1>9 DEF CommandFails, RemoveAsked, Restore, CloudChanges, store, polling
  <2>2. hive'.ignored \subseteq hive.ignored
    <3>1. hive' = hive \/ (\E v : hive' = [hive EXCEPT !.status = v]) \/ \E z : hive' = [hive EXCEPT !.ignored = hive.ignored \ {z}]
      BY <1>9 DEF CommandFails, RemoveAsked, Restore, CloudChanges, Failing, store
    <3>. QED  BY <1>0, <3>1 DEF Hives
  <2>. QED  BY <1>2, <2>1, <2>2
<1>10. CASE \E b \in BOOLEAN : RemoveHides(b)
  <2>1. UNCHANGED <<zones, poll>>
    BY <1>10 DEF RemoveHides, polling
  <2>2. \/ UNCHANGED <<hive, unseen>>
        \/ /\ hive' = [hive EXCEPT !.ignored = hive.ignored \cup {removal.zone}]
           /\ unseen' = [unseen EXCEPT !.late = unseen.late \cup {removal.zone}]
    BY <1>10 DEF RemoveHides
  <2>3. \/ UNCHANGED <<hive, unseen>>
        \/ /\ hive'.ignored = hive.ignored \cup {removal.zone}
           /\ unseen'.late = unseen.late \cup {removal.zone} /\ unseen'.edited = unseen.edited
    BY <1>0, <2>2 DEF Hives, HiveHistories
  <2>. QED  BY <2>1, <2>3 DEF Following, Same
<1>11. ASSUME NEW S, UNCHANGED <<poll, hive>>, unseen' = [unseen EXCEPT !.edited = unseen.edited \cup S],
              \A z \in DOMAIN zones \ S : z \in DOMAIN zones' /\ zones'[z] = zones[z]
       PROVE  Following'
  <2>1. unseen'.late = unseen.late /\ unseen'.edited = unseen.edited \cup S
    BY <1>0, <1>11 DEF HiveHistories
  <2>. QED  BY <1>11, <2>1 DEF Following, Same
<1>12. CASE \E b \in BOOLEAN : RemoveDeletes(b)
  <2>1. UNCHANGED <<poll, hive>> /\ unseen' = [unseen EXCEPT !.edited = unseen.edited \cup {removal.zone}]
    BY <1>12 DEF RemoveDeletes, Edited, polling
  <2>2. \A z \in DOMAIN zones \ {removal.zone} : z \in DOMAIN zones' /\ zones'[z] = zones[z]
    <3>1. zones' = zones \/ zones' = Drop(zones, {removal.zone})
      BY <1>12 DEF RemoveDeletes
    <3>2. CASE zones' = Drop(zones, {removal.zone})
      BY <3>2 DEF Drop, Restrict
    <3>. QED  BY <3>1, <3>2
  <2>. QED  BY <1>11, <2>1, <2>2
<1>13. ASSUME NEW z \in Zone, NEW a \in Area, AssignZone(z, a)  PROVE Following'
  <2>1. UNCHANGED <<poll, hive>> /\ unseen' = [unseen EXCEPT !.edited = unseen.edited \cup {z}]
    BY <1>13 DEF AssignZone, Edited, polling
  <2>2. \A x \in DOMAIN zones \ {z} : x \in DOMAIN zones' /\ zones'[x] = zones[x]
    BY <1>13 DEF AssignZone
  <2>. QED  BY <1>11, <2>1, <2>2
<1>14. ASSUME NEW a \in Area, RemoveArea(a)  PROVE Following'
  <2>. DEFINE S == {z \in DOMAIN zones : zones[z].area = a}
  <2>1. UNCHANGED <<poll, hive>> /\ unseen' = [unseen EXCEPT !.edited = unseen.edited \cup S]
    BY <1>14 DEF RemoveArea, Edited, polling
  <2>2. \A x \in DOMAIN zones \ S : x \in DOMAIN zones' /\ zones'[x] = zones[x]
    BY <1>14 DEF RemoveArea, WithoutArea
  <2>. QED  BY <1>11, <2>1, <2>2
<1>15. CASE ConnectStarts \/ CodeAsked \/ CodeSubmitted \/ SetupDropped \/ ConnectFails \/ AuthenticateFails \/ CooldownEnds
  <2>1. UNCHANGED <<zones, poll>>
    BY <1>15 DEF ConnectStarts, CodeAsked, CodeSubmitted, SetupDropped, ConnectFails, AuthenticateFails, CooldownEnds, store, polling
  <2>2. hive'.ignored = hive.ignored
    <3>1. hive' = hive \/ \E v : hive' = [hive EXCEPT !.status = v]
      BY <1>15 DEF ConnectStarts, CodeAsked, CodeSubmitted, SetupDropped, ConnectFails, AuthenticateFails, CooldownEnds, Failing, store
    <3>. QED  BY <1>0, <3>1 DEF Hives
  <2>3. unseen'.late = unseen.late /\ unseen'.edited = unseen.edited
    <3>1. unseen' = unseen \/ unseen' = [unseen EXCEPT !.left = FALSE]
      BY <1>15 DEF ConnectStarts, CodeAsked, CodeSubmitted, SetupDropped, ConnectFails, AuthenticateFails, CooldownEnds
    <3>. QED  BY <1>0, <3>1, OtherRecords
  <2>. QED  BY <1>2, <2>1, <2>2, <2>3
<1>16. CASE ConnectFinishes \/ Restart \/ StartAnswered \/ BridgeStartFails
  <2>1. UNCHANGED <<zones, unseen>> /\ (UNCHANGED poll \/ poll' = NoPoll \/ poll' = [NoPoll EXCEPT !.phase = "asking"])
    BY <1>16 DEF ConnectFinishes, Restart, StartAnswered, BridgeStartFails, store
  <2>2. hive'.ignored = hive.ignored
    <3>1. hive' = hive \/ (\E v : hive' = [hive EXCEPT !.status = v]) \/ hive' = [hive EXCEPT !.configured = TRUE, !.status = "discovering"]
      BY <1>16 DEF ConnectFinishes, Restart, StartAnswered, BridgeStartFails, Failing, store
    <3>. QED  BY <1>0, <3>1 DEF Hives
  <2>3. UNCHANGED poll \/ poll'.phase = "idle" \/ poll'.phase = "asking"
    BY <2>1, PollTypes DEF Phases
  <2>. QED  BY <1>1, <1>2, <2>1, <2>2, <2>3
<1>17. CASE LeaveStarts \/ LeaveUnconfirmed \/ LeaveStops \/ WorkerExits \/ UNCHANGED hiveVars
  <2>1. UNCHANGED <<zones, hive, poll, unseen>>
    BY <1>17 DEF LeaveStarts, LeaveUnconfirmed, LeaveStops, WorkerExits, hiveVars, store, polling
  <2>. QED  BY <1>2, <2>1
<1>18. CASE \E b \in BOOLEAN : LeaveClears(b)
  <2>1. UNCHANGED poll
    BY <1>18 DEF LeaveClears, polling
  <2>2. UNCHANGED <<zones, hive, unseen>> \/ (unseen'.late = Zone /\ unseen'.edited = Zone)
    <3>1. PICK b \in BOOLEAN : LeaveClears(b)
      BY <1>18
    <3>2. CASE b
      <4>1. unseen' = [unseen EXCEPT !.edited = Zone, !.late = Zone, !.left = (setup.phase = "none"), !.outlived = (poll.phase # "idle")]
        BY <3>1, <3>2 DEF LeaveClears
      <4>. QED  BY <1>0, <4>1 DEF HiveHistories
    <3>3. CASE ~b
      BY <3>1, <3>3 DEF LeaveClears
    <3>. QED  BY <3>2, <3>3
  <2>3. poll.todo \subseteq Zone /\ DOMAIN poll.listed \subseteq Zone
    BY <1>0, OfZones DEF PollStates
  <2>. QED  BY <1>2, <2>1, <2>2, <2>3 DEF Following
<1>. QED
  BY <1>3, <1>4, <1>5, <1>6, <1>7, <1>8, <1>9, <1>10, <1>12, <1>13, <1>14, <1>15, <1>16, <1>17, <1>18
  DEF HiveNext, PollStep, UserStep, Trouble

\* Where both the poll and the home change.
LEMMA PollWrites ==
  ASSUME [HiveNext]_hiveVars, poll # poll', zones # zones'
  PROVE  \E z \in Zone : Ingest(z) \/ SweepStarts(z) \/ Sweep(z)
BY DEF HiveNext, PollStep, UserStep, Trouble, hiveVars, store, polling, users,
       PollTimerFires, Refresh, PollAnswered, PollReads, Publish, PollEnds, PollFails, FailureSaved, CommandDone, CommandFails, RemoveAsked,
       RemoveHides, RemoveDeletes, Restore, RestoreRefreshes, AssignZone, RemoveArea, ConnectStarts, CodeAsked, CodeSubmitted, SetupDropped,
       ConnectFinishes, ConnectFails, AuthenticateFails, CooldownEnds, LeaveStarts, LeaveUnconfirmed, LeaveStops, LeaveClears, CloudChanges,
       WorkerExits, Restart, StartAnswered, BridgeStartFails

LEMMA PollLeavesEdits ==
  ASSUME Typed, Following, [HiveNext]_hiveVars, poll # poll'
  PROVE  /\ \A z \in (DOMAIN zones \cap DOMAIN zones') \ Outdated : Same(zones', zones, z)
         /\ \A z \in DOMAIN zones' \ DOMAIN zones : z \in hive.ignored => z \in unseen.late \cup Outdated
<1>0. /\ poll \in PollStates /\ zones \in ZoneRegistries
  BY DEF Typed, StoreTypes, BridgeTypes
<1>1. CASE zones' = zones
  BY <1>1 DEF Same
<1>2. ASSUME NEW z \in Zone, Ingest(z)
      PROVE  /\ \A x \in (DOMAIN zones \cap DOMAIN zones') \ Outdated : Same(zones', zones, x)
             /\ \A x \in DOMAIN zones' \ DOMAIN zones : x \in hive.ignored => x \in unseen.late \cup Outdated
  <2>1. IngestedZone(z) \in ZoneDevices /\ (z \in DOMAIN zones => IngestedZone(z).area = zones[z].area /\ IngestedZone(z).ready = zones[z].ready)
    BY IngestedTypes DEF Typed
  <2>2. /\ DOMAIN zones' = DOMAIN zones \cup {z} /\ zones'[z] = IngestedZone(z)
        /\ \A x \in DOMAIN zones : x # z => zones'[x] = zones[x]
    <3>. DEFINE r == IngestedZone(z)
    <3>1. r \in ZoneDevices
      BY <2>1
    <3>2. zones' = PutZone(zones, z, r)
      BY <1>2 DEF Ingest
    <3>. HIDE DEF r
    <3>3. DOMAIN zones' = DOMAIN zones \cup {z} /\ zones'[z] = r /\ \A x \in DOMAIN zones : x # z => zones'[x] = zones[x]
      BY <3>2 DEF PutZone
    <3>. QED  BY <3>3 DEF r
  <2>. QED  BY <1>2, <2>1, <2>2 DEF Ingest, Following, Same, Outdated
<1>3. ASSUME NEW z \in Zone, SweepStarts(z)
      PROVE  DOMAIN zones' = DOMAIN zones /\ \A x \in DOMAIN zones : Same(zones', zones, x)
  <2>1. z \in DOMAIN zones /\ zones[z] \in ZoneDevices
    BY <1>0, <1>3, OfZones DEF SweepStarts, Swept
  <2>2. Unavailable(zones[z]) \in ZoneDevices /\ Unavailable(zones[z]).area = zones[z].area /\ Unavailable(zones[z]).ready = zones[z].ready
    BY <2>1, DeviceTypes
  <2>3. /\ DOMAIN zones' = DOMAIN zones \cup {z} /\ zones'[z] = Unavailable(zones[z])
        /\ \A x \in DOMAIN zones : x # z => zones'[x] = zones[x]
    <3>. DEFINE r == Unavailable(zones[z])
    <3>1. r \in ZoneDevices
      BY <2>2
    <3>2. zones' = PutZone(zones, z, r)
      BY <1>3 DEF SweepStarts
    <3>. HIDE DEF r
    <3>3. DOMAIN zones' = DOMAIN zones \cup {z} /\ zones'[z] = r /\ \A x \in DOMAIN zones : x # z => zones'[x] = zones[x]
      BY <3>2 DEF PutZone
    <3>. QED  BY <3>3 DEF r
  <2>. QED  BY <2>1, <2>2, <2>3 DEF Same
<1>4. ASSUME NEW z \in Zone, Sweep(z)
      PROVE  /\ \A x \in (DOMAIN zones \cap DOMAIN zones') \ Outdated : Same(zones', zones, x)
             /\ \A x \in DOMAIN zones' \ DOMAIN zones : x \in Outdated
  <2>1. z \in DOMAIN poll.listed /\ poll.listed[z] \in ZoneDevices /\ poll.phase = "sweep"
    BY <1>0, <1>4, OfZones DEF Sweep, PollStates
  <2>. DEFINE r == poll.listed[z]
  <2>2. Unavailable(r) \in ZoneDevices /\ Unavailable(r).area = r.area /\ Unavailable(r).ready = r.ready
    BY <2>1, DeviceTypes
  <2>3. /\ DOMAIN zones' = DOMAIN zones \cup {z} /\ zones'[z] = Unavailable(r)
        /\ \A x \in DOMAIN zones : x # z => zones'[x] = zones[x]
    BY <1>0, <1>4, <2>2, ZonePutTypes DEF Sweep
  <2>4. z \notin Outdated => z \in DOMAIN zones /\ zones[z].area = r.area /\ zones[z].ready = r.ready
    BY <2>1 DEF Following, Same, Outdated
  <2>. QED  BY <2>2, <2>3, <2>4 DEF Same
<1>. QED  BY <1>1, <1>2, <1>3, <1>4, PollWrites

(* hiveBridge.js, refresh, and server.js, ingestHiveSnapshot: a poll changes no assignment,
   unless a user changed it since this poll listed the devices, and adds no zone that was
   hidden before it read the tombstones, unless it was removed since that listing. *)
THEOREM PollKeepsEditsAlways == HiveSpec => PollKeepsEdits
<1>1. HiveInit => Following
  BY DEF HiveInit, NoPoll, Following
<1>2. Typed /\ Following /\ [HiveNext]_hiveVars => Following'
  BY FollowingStays
<1>3. Typed /\ Following /\ [HiveNext]_hiveVars
      => [poll # poll' =>
           /\ \A z \in (DOMAIN zones \cap DOMAIN zones') \ Outdated :
                zones'[z].area = zones[z].area /\ zones'[z].ready = zones[z].ready
           /\ \A z \in DOMAIN zones' \ DOMAIN zones : z \in hive.ignored => z \in unseen.late \cup Outdated]_hiveVars
  BY PollLeavesEdits DEF Same
<1>. QED  BY <1>1, <1>2, <1>3, TypedAlways, PTL DEF HiveSpec, PollKeepsEdits
=============================================================================
