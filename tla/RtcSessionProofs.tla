-------------------------- MODULE RtcSessionProofs ---------------------------
(***************************************************************************)
(* A client has one negotiation at most, and none that nobody wants; the   *)
(* signaling room and the maps of the transport tell one story each: for   *)
(* any number of clients, negotiations, attempts and connections.          *)
(***************************************************************************)
EXTENDS RtcSession, WellFoundedInduction, TLAPS

-----------------------------------------------------------------------------
(* Shapes.  A peer is a record; what its inbox holds does not matter here. *)

PeerFields ==
    {"owner", "retry", "sig", "inbox", "view", "pc", "offer", "ticket", "frame", "told", "late"}

IsPeer(q) == q = [f \in PeerFields |-> q[f]]

ArePeers(f) == f = [p \in Peers |-> f[p]] /\ \A p \in Peers : IsPeer(f[p])

ClientRecord ==
    [neg : Peers \cup {None}, chan : Peers \cup {None}, left : BOOLEAN, closing : BOOLEAN,
     final : BOOLEAN, attempts : Nat, timer : BOOLEAN, strays : Nat, awaits : Nat,
     crossed : BOOLEAN]

\* Whose a peer is, for good, and whether it was told of a kick.
Same(q, x) == x.owner = q.owner /\ x.retry = q.retry /\ x.told = q.told

\* Whether it is in use.
Used(q) == q.sig \in {"dialing", "in"} \/ Alive(q)

\* What the invariant tells peers apart by.
Looks(q, x) == Same(q, x) /\ (Used(x) <=> Used(q)) /\ (x.late <=> q.late)

-----------------------------------------------------------------------------
(* The invariant.                                                          *)

Shapes == ArePeers(peer) /\ client \in [Clients -> ClientRecord]

\* Negotiations are numbered as they are started; one that is not has done nothing.
Numbered ==
    /\ \A p \in Peers : peer[p].owner \in Clients \cup {None}
    /\ \A p \in Peers : peer[p].owner = None =>
          ~Used(peer[p]) /\ ~peer[p].late /\ ~peer[p].told /\ ~peer[p].retry
    /\ \A p, q \in Peers : q < p /\ peer[p].owner # None => peer[q].owner # None

Mine(c) == {p \in Peers : peer[p].owner = c}

\* A client has one of a negotiation, an armed timer and an awaited ticket at most, and
\* waits for the last two only if it was not kicked.
OneWait(c) ==
    LET r == client[c] IN
    /\ r.strays = 0 /\ r.awaits <= 1
    /\ r.neg # None => ~r.timer /\ r.awaits = 0
    /\ r.timer => r.awaits = 0
    /\ Mine(c) # {} => (r.closing <=> r.neg = None)
    /\ r.neg # None => /\ \A p \in Mine(c) : p <= r.neg
                       /\ peer[r.neg].told => r.final
    /\ ~r.left /\ (r.timer \/ r.awaits > 0) =>
          \E p \in Mine(c) : (\A o \in Mine(c) : o <= p) /\ ~peer[p].told

Single(c) ==
    /\ client[c].chan \in {None, client[c].neg}
    /\ client[c].left => client[c].neg = None
    /\ \A p \in Mine(c) : Used(peer[p]) => p = client[c].neg

SessionInv ==
    /\ Shapes /\ Numbered
    /\ \A c \in Clients : client[c].neg # None => peer[client[c].neg].owner = c
    /\ \A c \in Clients : client[c].crossed \/ (Single(c) /\ OneWait(c))
    /\ KickedStaysOut

LEMMA Distinct == None \notin Peers /\ None \notin Clients
  BY RtcAssumption DEF Peers

LEMMA BeforePeers == \A q \in Peers : 1..q - 1 \subseteq Peers
  BY RtcAssumption DEF Peers

LEMMA SessionProperty == SessionInv => WantedAndAlone
  BY DEF SessionInv, WantedAndAlone, OneNegotiation, Single, InUse, Used, Mine

-----------------------------------------------------------------------------
(* Steps that leave the negotiations as they are.                          *)

\* Every step of the host and of the network is one.
LEMMA SameLooks ==
    ASSUME SessionInv, ArePeers(peer'), \A p \in Peers : Looks(peer[p], peer'[p]),
           client' = client
    PROVE  SessionInv'
<1>1. \A p \in Peers : Used(peer'[p]) <=> Used(peer[p])
  BY DEF Looks
<1>2. \A c : Mine(c)' = Mine(c)
  BY DEF Mine, Looks, Same
<1>3. Shapes' /\ Numbered'
  BY <1>1 DEF SessionInv, Shapes, ArePeers, Numbered, Looks, Same
<1>4. \A c \in Clients : client'[c].neg # None => peer'[client'[c].neg].owner = c
  BY DEF SessionInv, Shapes, ClientRecord, Looks, Same
<1>5. ASSUME NEW c \in Clients
      PROVE  client'[c].crossed \/ (Single(c)' /\ OneWait(c)')
  <2>1. client[c].neg \in Peers \cup {None}
    BY DEF SessionInv, Shapes, ClientRecord
  <2>2. Single(c) => Single(c)'
    BY <1>1, <1>2 DEF Single, Mine
  <2>3. OneWait(c) => OneWait(c)'
    BY <1>2, <2>1 DEF OneWait, Looks, Same, Mine
  <2> QED
    BY <2>2, <2>3 DEF SessionInv
<1>6. KickedStaysOut'
  <2>1. \A q \in Peers : Before(q)' = Before(q) /\ Before(q) \subseteq Peers
    BY BeforePeers DEF Before, Looks, Same
  <2> SUFFICES ASSUME NEW q \in Peers, peer'[q].retry
               PROVE  \/ client'[peer'[q].owner].crossed
                      \/ \E p \in Before(q)' : (\A o \in Before(q)' : o <= p) /\ ~peer'[p].told
    BY DEF KickedStaysOut
  <2>2. \/ client[peer[q].owner].crossed
        \/ \E p \in Before(q) : (\A o \in Before(q) : o <= p) /\ ~peer[p].told
    BY DEF SessionInv, KickedStaysOut, Looks, Same
  <2> QED
    BY <2>1, <2>2 DEF Looks, Same
<1> QED
  BY <1>3, <1>4, <1>5, <1>6 DEF SessionInv

\* One peer is changed where it does not show.
LEMMA QuietPeer ==
    ASSUME SessionInv, NEW p \in Peers, NEW x, IsPeer(x), Looks(peer[p], x),
           peer' = [peer EXCEPT ![p] = x], client' = client
    PROVE  SessionInv'
<1>1. ArePeers(peer') /\ \A q \in Peers : Looks(peer[q], peer'[q])
  BY DEF SessionInv, Shapes, ArePeers, Looks, Same
<1> QED
  BY <1>1, SameLooks

LEMMA QuietStep ==
    ASSUME SessionInv, peer' = peer, client' = client
    PROVE  SessionInv'
<1>1. ArePeers(peer') /\ \A q \in Peers : Looks(peer[q], peer'[q])
  BY DEF SessionInv, Shapes, Looks, Same
<1> QED
  BY <1>1, SameLooks

\* A world, as handlers pass it on.
IsWorld(w) == w = [f \in {"room", "peer", "link"} |-> w[f]] /\ ArePeers(w.peer)

LEMMA WorldNow == SessionInv => IsWorld(World) /\ World.peer = peer
  BY DEF SessionInv, Shapes, World, IsWorld

\* Alike in all that the invariant is about.
Twin(q, x) == IsPeer(x) /\ Same(q, x) /\ x.sig = q.sig /\ x.pc = q.pc /\ x.late = q.late

LEMMA TwinExcept ==
    ASSUME NEW q, IsPeer(q), NEW v
    PROVE  /\ Twin(q, q) /\ Twin(q, [q EXCEPT !.inbox = v]) /\ Twin(q, [q EXCEPT !.offer = v])
           /\ Twin(q, [q EXCEPT !.ticket = v]) /\ Twin(q, [q EXCEPT !.frame = v])
<1>1. Twin(q, q)
  BY DEF Twin, Same
<1>2. Twin(q, [q EXCEPT !.inbox = v])
  BY DEF Twin, Same, IsPeer, PeerFields
<1>3. Twin(q, [q EXCEPT !.offer = v])
  BY DEF Twin, Same, IsPeer, PeerFields
<1>4. Twin(q, [q EXCEPT !.ticket = v])
  BY DEF Twin, Same, IsPeer, PeerFields
<1>5. Twin(q, [q EXCEPT !.frame = v])
  BY DEF Twin, Same, IsPeer, PeerFields
<1> QED
  BY <1>1, <1>2, <1>3, <1>4, <1>5

LEMMA TwinsLook ==
    ASSUME SessionInv, client' = client, ArePeers(peer'), \A p \in Peers : Twin(peer[p], peer'[p])
    PROVE  SessionInv'
<1>1. \A p \in Peers : Looks(peer[p], peer'[p])
  BY DEF Twin, Looks, Used, Alive
<1> QED
  BY <1>1, SameLooks

\* Who leaves the room changes inboxes only.
LEMMA LeaveLooks ==
    ASSUME NEW w, IsWorld(w), NEW id
    PROVE  /\ IsWorld(OnLeave(w, id)) /\ OnLeave(w, id).link = w.link
           /\ \A p \in Peers : Twin(w.peer[p], OnLeave(w, id).peer[p])
<1> DEFINE r == Elect(w.room, id)
           Told(p) == id = w.room.host /\ r.host # None /\ w.peer[p].sig = "in"
           f == [p \in Peers |-> IF Told(p)
                   THEN [w.peer[p] EXCEPT !.inbox = Append(@, <<"elected", r.host>>)]
                   ELSE w.peer[p]]
<1>1. OnLeave(w, id) = [w EXCEPT !.room = r, !.peer = f]
  BY DEF OnLeave
<1>2. \A p \in Peers : IsPeer(w.peer[p])
  BY DEF IsWorld, ArePeers
<1>3. \A p \in Peers : Twin(w.peer[p], f[p])
  <2> SUFFICES ASSUME NEW p \in Peers PROVE Twin(w.peer[p], f[p])
    OBVIOUS
  <2> DEFINE q == w.peer[p]
             v == Append(q.inbox, <<"elected", r.host>>)
  <2>1. f[p] = IF Told(p) THEN [q EXCEPT !.inbox = v] ELSE q
    OBVIOUS
  <2>2. IsPeer(q)
    BY <1>2
  <2> DEFINE x == [q EXCEPT !.inbox = v]
  <2> HIDE DEF q, v, f, Told
  <2>3. Twin(q, q) /\ Twin(q, x)
    BY <2>2, TwinExcept
  <2> HIDE DEF x
  <2>4. f[p] = q \/ f[p] = x
    BY <2>1 DEF x
  <2>5. Twin(q, f[p])
    BY <2>3, <2>4
  <2> QED
    BY <2>5 DEF q
<1>4. OnLeave(w, id).peer = f /\ IsWorld(OnLeave(w, id)) /\ OnLeave(w, id).link = w.link
  <2> HIDE DEF r, Told
  <2>1. ArePeers(f)
    BY <1>3 DEF ArePeers, Twin
  <2> HIDE DEF f
  <2> QED
    BY <1>1, <2>1 DEF IsWorld
<1> QED
  BY <1>3, <1>4

LEMMA HostSignalLostStep == SessionInv /\ HostSignalLost => SessionInv'
<1> SUFFICES ASSUME SessionInv, HostSignalLost PROVE SessionInv'
  OBVIOUS
<1> DEFINE w == OnLeave(World, Host)
<1>1. peer' = w.peer /\ client' = client
  BY DEF HostSignalLost, Becomes
<1>2. IsWorld(w) /\ \A p \in Peers : Twin(peer[p], w.peer[p])
  BY WorldNow, LeaveLooks
<1> HIDE DEF w
<1> QED
  BY <1>1, <1>2, TwinsLook DEF IsWorld

LEMMA DisposeStep == SessionInv /\ Dispose => SessionInv'
<1> SUFFICES ASSUME SessionInv, Dispose PROVE SessionInv'
  OBVIOUS
<1> DEFINE w == IF hosting.signal = "in" THEN OnLeave(World, Host) ELSE World
           open == {a \in Actors : table.channels[a] # None}
           Hit(p) == \E a \in open : table.channels[a] = p
           t(p) == w.peer[p].frame \/ (Hit(p) /\ serve[p].chan = "open")
           o(p) == IF serve[p].pc = "fresh" THEN "lost" ELSE w.peer[p].offer
<1>1. IsWorld(w) /\ \A p \in Peers : Twin(peer[p], w.peer[p])
  <2>1. CASE hosting.signal = "in"
    BY <2>1, WorldNow, LeaveLooks
  <2>2. CASE hosting.signal # "in"
    BY <2>2, WorldNow DEF SessionInv, Shapes, ArePeers, Twin, Same
  <2> QED
    BY <2>1, <2>2
<1>2. client' = client
  BY DEF Dispose
<1>3. \A p \in Peers : IsPeer(w.peer[p])
  BY <1>1 DEF Twin
<1>4. peer' = [p \in Peers |-> [w.peer[p] EXCEPT !.frame = t(p), !.offer = o(p)]]
  <2>1. \A l : \A f : [w EXCEPT !.peer = f, !.link = l].peer = f
    BY <1>1 DEF IsWorld
  <2>2. \A p \in Peers : [w.peer[p] EXCEPT !.frame = @ \/ (Hit(p) /\ serve[p].chan = "open"),
                                          !.offer = IF serve[p].pc = "fresh" THEN "lost" ELSE @]
                         = [w.peer[p] EXCEPT !.frame = t(p), !.offer = o(p)]
    BY <1>3 DEF IsPeer, PeerFields
  <2> QED
    BY <2>1, <2>2 DEF Dispose, Becomes
<1> HIDE DEF w, t, o, Hit, open
<1>5. \A p \in Peers : Twin(peer[p], peer'[p])
  <2> SUFFICES ASSUME NEW p \in Peers PROVE Twin(peer[p], peer'[p])
    OBVIOUS
  <2> DEFINE q == w.peer[p]
             x == [q EXCEPT !.frame = t(p)]
             y == [q EXCEPT !.frame = t(p), !.offer = o(p)]
  <2>1. Twin(peer[p], q) /\ IsPeer(q)
    BY <1>1, <1>3
  <2>2. y = [x EXCEPT !.offer = o(p)]
    OBVIOUS
  <2>3. peer'[p] = y
    BY <1>4
  <2> HIDE DEF q
  <2>4. Twin(q, x)
    BY <2>1, TwinExcept
  <2>5. IsPeer(x)
    BY <2>4 DEF Twin
  <2> HIDE DEF x, y
  <2>6. Twin(x, y)
    BY <2>2, <2>5, TwinExcept
  <2> QED
    BY <2>1, <2>3, <2>4, <2>6 DEF Twin, Same
<1>6. ArePeers(peer')
  BY <1>4, <1>5 DEF ArePeers, Twin
<1> QED
  BY <1>2, <1>5, <1>6, TwinsLook

\* Steps of signaling, and those of the host that the client's end hears of later.
LEMMA SignalSteps ==
    ASSUME SessionInv, NEW p \in Peers,
           \/ SignalUp(p) \/ HearSignal(p) \/ SendOffer(p) \/ HearOffer(p) \/ SendAnswer(p)
           \/ NegotiationTimesOut(p) \/ HearTicket(p) \/ HostHearsClose(p) \/ Kick(p)
    PROVE  SessionInv'
<1> DEFINE q == peer[p]
<1>1. IsPeer(q) /\ peer = [x \in Peers |-> peer[x]] /\ Twin(q, q)
  BY TwinExcept DEF SessionInv, Shapes, ArePeers
<1>2. client' = client
  BY DEF SignalUp, HearSignal, SendOffer, HearOffer, SendAnswer, NegotiationTimesOut,
         HearTicket, HostHearsClose, Kick
<1>3. ASSUME NEW x, Twin(q, x), peer' = [peer EXCEPT ![p] = x]
      PROVE  SessionInv'
  BY <1>2, <1>3, QuietPeer DEF Twin, Looks, Used, Alive
<1>4. CASE SignalUp(p)
  <2> DEFINE b == <<<<"welcome", room'.host>>>>
             x == [q EXCEPT !.sig = "in", !.inbox = b]
  <2>1. peer' = [peer EXCEPT ![p] = x] /\ q.sig = "dialing"
    BY <1>1, <1>4 DEF SignalUp
  <2>2. IsPeer(x) /\ Looks(q, x)
    <3> HIDE DEF q, b
    <3> QED
      BY <1>1, <2>1 DEF IsPeer, PeerFields, Looks, Same, Used
  <2> HIDE DEF x
  <2> QED
    BY <1>2, <2>1, <2>2, QuietPeer
<1>5. CASE HearSignal(p)
  <2> DEFINE x == OnSignal(q, p)
  <2>1. peer' = [peer EXCEPT ![p] = x] /\ q.sig = "in"
    BY <1>5 DEF HearSignal
  <2>2. IsPeer(x) /\ Looks(q, x)
    <3> HIDE DEF q
    <3> DEFINE rest == [q EXCEPT !.inbox = Tail(@)]
               kind == Head(q.inbox)[1]
               host == Head(q.inbox)[2]
    <3>1. IsPeer(rest) /\ rest.sig = "in" /\ Same(q, rest) /\ rest.late = q.late
      BY <1>1, <2>1 DEF IsPeer, PeerFields, Same
    <3>2. \E v, c : x = [rest EXCEPT !.view = v, !.pc = c] \/ x = [rest EXCEPT !.view = v]
                      \/ x = [rest EXCEPT !.pc = c]
      <4> DEFINE c1 == IF host \in {None, p} THEN "none" ELSE "new"
                 c2 == IF rest.pc = "offered" THEN "answered" ELSE rest.pc
      <4>1. CASE kind = "welcome"
        BY <4>1 DEF OnSignal
      <4>2. CASE kind = "elected"
        BY <4>2 DEF OnSignal
      <4>3. CASE kind \notin {"welcome", "elected"}
        BY <4>3 DEF OnSignal
      <4> QED
        BY <4>1, <4>2, <4>3
    <3> HIDE DEF rest, x
    <3>3. IsPeer(x) /\ x.sig = "in" /\ Same(q, x) /\ x.late = q.late
      BY <3>1, <3>2 DEF IsPeer, PeerFields, Same
    <3> QED
      BY <2>1, <3>3 DEF Looks, Used
  <2> HIDE DEF x
  <2> QED
    BY <1>2, <2>1, <2>2, QuietPeer
<1>6. CASE SendOffer(p)
  <2> DEFINE o == IF q.view = Host /\ InRoom(Host) THEN "sent" ELSE "lost"
             x == [q EXCEPT !.pc = "offered", !.offer = o]
  <2>1. peer' = [peer EXCEPT ![p] = x] /\ q.sig = "in"
    BY <1>1, <1>6 DEF SendOffer
  <2>2. IsPeer(x) /\ Looks(q, x)
    <3> HIDE DEF q, o
    <3> QED
      BY <1>1, <2>1 DEF IsPeer, PeerFields, Looks, Same, Used
  <2> HIDE DEF x
  <2> QED
    BY <1>2, <2>1, <2>2, QuietPeer
<1>7. CASE HearOffer(p)
  <2>1. PICK v : peer' = [peer EXCEPT ![p] = [q EXCEPT !.offer = v]]
    BY <1>7 DEF HearOffer
  <2> DEFINE x == [q EXCEPT !.offer = v]
  <2>2. Twin(q, x)
    BY <1>1, TwinExcept
  <2> QED
    BY <1>3, <2>1, <2>2
<1>8. CASE SendAnswer(p)
  <2> DEFINE x == [q EXCEPT !.offer = "lost"]
             b == Append(q.inbox, <<"answer", Host>>)
             y == [q EXCEPT !.inbox = b]
  <2>1. peer' = [peer EXCEPT ![p] = x] \/ peer' = [peer EXCEPT ![p] = y]
    BY <1>8 DEF SendAnswer
  <2>2. Twin(q, x) /\ Twin(q, y)
    BY <1>1, TwinExcept
  <2> HIDE DEF x, y
  <2> QED
    BY <1>3, <2>1, <2>2
<1>9. CASE NegotiationTimesOut(p)
  <2> DEFINE v == IF serve[p].pc = "fresh" THEN "lost" ELSE q.offer
             x == [q EXCEPT !.offer = v]
  <2>1. peer' = [peer EXCEPT ![p] = x]
    BY <1>9 DEF NegotiationTimesOut
  <2>2. Twin(q, x)
    BY <1>1, TwinExcept
  <2> HIDE DEF x
  <2> QED
    BY <1>3, <2>1, <2>2
<1>10. CASE HearTicket(p) \/ HostHearsClose(p)
  <2> DEFINE x == [q EXCEPT !.ticket = "none"]
  <2>1. peer' = [peer EXCEPT ![p] = x]
    BY <1>10 DEF HearTicket, HostHearsClose
  <2>2. Twin(q, x)
    BY <1>1, TwinExcept
  <2> HIDE DEF x
  <2> QED
    BY <1>3, <2>1, <2>2
<1>11. CASE Kick(p)
  <2> DEFINE x == [q EXCEPT !.frame = TRUE]
  <2>1. peer' = [peer EXCEPT ![p] = x]
    BY <1>11 DEF Kick
  <2>2. Twin(q, x)
    BY <1>1, TwinExcept
  <2> HIDE DEF x
  <2> QED
    BY <1>3, <2>1, <2>2
<1> QED
  BY <1>4, <1>5, <1>6, <1>7, <1>8, <1>9, <1>10, <1>11

\* Steps of the host, the network and the signaling room alone.
LEMMA SilentSteps ==
    ASSUME SessionInv, NEW p \in Peers,
           \/ IceEnds(p) \/ NetworkCut(p) \/ HostConnected(p) \/ HostHearsDown(p) \/ HostChannel(p)
           \/ Refuse(p) \/ Grant(p) \/ SecondChannel(p) \/ SecondCloses(p) \/ HostConnects
    PROVE  SessionInv'
<1>1. peer' = peer /\ client' = client
  BY DEF IceEnds, NetworkCut, HostConnected, HostHearsDown, HostChannel, Refuse, Grant,
         SecondChannel, SecondCloses, HostConnects
<1> QED
  BY <1>1, QuietStep

-----------------------------------------------------------------------------
(* Steps by which a client loses its connection.                           *)

\* The signaling socket of p is over.
LEMMA SignalOverLooks ==
    ASSUME NEW w, IsWorld(w), NEW p \in Peers
    PROVE  /\ IsWorld(SignalOver(w, p)) /\ SignalOver(w, p).link = w.link
           /\ \A q \in Peers \ {p} : Twin(w.peer[q], SignalOver(w, p).peer[q])
           /\ LET x == SignalOver(w, p).peer[p] IN
              Same(w.peer[p], x) /\ x.sig = "gone" /\ x.pc = w.peer[p].pc /\ x.late = w.peer[p].late
<1> DEFINE x == [w.peer[p] EXCEPT !.sig = "gone", !.inbox = <<>>, !.view = None]
           v == [w EXCEPT !.peer[p].sig = "gone", !.peer[p].inbox = <<>>, !.peer[p].view = None]
<1>1. v.room = w.room /\ v.link = w.link /\ v.peer = [w.peer EXCEPT ![p] = x]
  BY DEF IsWorld, ArePeers
<1>2. v = [f \in {"room", "peer", "link"} |-> v[f]]
  BY DEF IsWorld
<1>3. IsPeer(w.peer[p]) /\ w.peer = [q \in Peers |-> w.peer[q]] /\ \A q \in Peers : IsPeer(w.peer[q])
  BY DEF IsWorld, ArePeers
<1>4. /\ IsPeer(x) /\ Same(w.peer[p], x) /\ x.sig = "gone"
      /\ x.pc = w.peer[p].pc /\ x.late = w.peer[p].late
  BY <1>3 DEF IsPeer, PeerFields, Same
<1>5. SignalOver(w, p) = OnLeave(v, p)
  BY DEF SignalOver
<1> HIDE DEF v, x
<1>6. v.peer[p] = x /\ \A q \in Peers \ {p} : v.peer[q] = w.peer[q]
  BY <1>1, <1>3
<1>7. IsWorld(v)
  BY <1>1, <1>2, <1>3, <1>4, <1>6 DEF IsWorld, ArePeers
<1>8. /\ IsWorld(OnLeave(v, p)) /\ OnLeave(v, p).link = v.link
      /\ \A q \in Peers : Twin(v.peer[q], OnLeave(v, p).peer[q])
  BY <1>7, LeaveLooks
<1> QED
  BY <1>1, <1>4, <1>5, <1>6, <1>8 DEF Twin, Same

\* A negotiation that is hung up is no longer in use, and no other is touched.
LEMMA HangUpLooks ==
    ASSUME NEW w, IsWorld(w), NEW p \in Peers
    PROVE  /\ IsWorld(HangUp(w, p))
           /\ \A q \in Peers \ {p} : Twin(w.peer[q], HangUp(w, p).peer[q])
           /\ Same(w.peer[p], HangUp(w, p).peer[p]) /\ ~Used(HangUp(w, p).peer[p])
<1> DEFINE y == w.peer[p]
           x == [y EXCEPT !.pc = IF @ = "none" THEN @ ELSE "closed",
                          !.frame = FALSE,
                          !.offer = IF @ = "lost" THEN "none" ELSE @,
                          !.late = @ \/ Alive(y)]
           cut == IF w.link[p] = "up" THEN "cut" ELSE w.link[p]
           v == [w EXCEPT !.peer[p] = x, !.link[p] = cut]
<1>1. IsPeer(y) /\ w.peer = [q \in Peers |-> w.peer[q]] /\ \A q \in Peers : IsPeer(w.peer[q])
  BY DEF IsWorld, ArePeers
<1>2. HangUp(w, p) = SignalOver(v, p)
  BY DEF HangUp
<1>3. IsPeer(x) /\ Same(y, x) /\ x.pc \in {"none", "closed"}
  <2> HIDE DEF y
  <2> QED
    BY <1>1 DEF IsPeer, PeerFields, Same
<1> HIDE DEF x, cut
<1>4. v.peer = [w.peer EXCEPT ![p] = x] /\ v = [f \in {"room", "peer", "link"} |-> v[f]]
  BY DEF IsWorld
<1> HIDE DEF v
<1>5. v.peer[p] = x /\ \A q \in Peers \ {p} : v.peer[q] = w.peer[q]
  BY <1>1, <1>4
<1>6. IsWorld(v)
  BY <1>1, <1>3, <1>4, <1>5 DEF IsWorld, ArePeers
<1>7. /\ IsWorld(SignalOver(v, p))
      /\ \A q \in Peers \ {p} : Twin(v.peer[q], SignalOver(v, p).peer[q])
      /\ LET z == SignalOver(v, p).peer[p] IN
         Same(v.peer[p], z) /\ z.sig = "gone" /\ z.pc = v.peer[p].pc
  BY <1>6, SignalOverLooks
<1> QED
  BY <1>2, <1>3, <1>5, <1>7 DEF Same, Used, Alive

\* No peer comes into use, nor is any told: it is enough to see to the client.
LEMMA Quieter ==
    ASSUME SessionInv, NEW c \in Clients, NEW r \in ClientRecord, ArePeers(peer'),
           \A p \in Peers : /\ Same(peer[p], peer'[p]) /\ (Used(peer'[p]) => Used(peer[p]))
                            /\ peer[p].owner = None => ~peer'[p].late,
           client' = [client EXCEPT ![c] = r], r.crossed = client[c].crossed,
           r.neg # None => peer[r.neg].owner = c,
           r.crossed \/ (Single(c)' /\ OneWait(c)')
    PROVE  SessionInv'
<1>1. client'[c] = r /\ \A d \in Clients \ {c} : client'[d] = client[d]
  BY DEF SessionInv, Shapes
<1>2. \A d : Mine(d)' = Mine(d)
  BY DEF Mine, Same
<1>3. Shapes'
  BY DEF SessionInv, Shapes
<1>4. Numbered'
  BY DEF SessionInv, Numbered, Same
<1>5. \A d \in Clients : client'[d].neg # None => peer'[client'[d].neg].owner = d
  <2>1. \A d \in Clients : client'[d].neg \in Peers \cup {None}
    BY <1>3 DEF Shapes, ClientRecord
  <2> QED
    BY <1>1, <2>1 DEF SessionInv, Same
<1>6. ASSUME NEW d \in Clients
      PROVE  client'[d].crossed \/ (Single(d)' /\ OneWait(d)')
  <2>1. CASE d = c
    BY <1>1, <2>1
  <2>2. CASE d # c
    <3>1. client[d].neg \in Peers \cup {None} /\ client'[d] = client[d]
      BY <1>1, <2>2 DEF SessionInv, Shapes, ClientRecord
    <3>2. Single(d) => Single(d)'
      BY <1>2, <3>1 DEF Single, Mine
    <3>3. OneWait(d) => OneWait(d)'
      BY <1>2, <3>1 DEF OneWait, Same, Mine
    <3> QED
      BY <3>1, <3>2, <3>3 DEF SessionInv
  <2> QED
    BY <2>1, <2>2
<1>7. KickedStaysOut'
  <2>1. \A q \in Peers : Before(q)' = Before(q) /\ Before(q) \subseteq Peers
    BY BeforePeers DEF Before, Same
  <2> SUFFICES ASSUME NEW q \in Peers, peer'[q].retry
               PROVE  \/ client'[peer'[q].owner].crossed
                      \/ \E p \in Before(q)' : (\A o \in Before(q)' : o <= p) /\ ~peer'[p].told
    BY DEF KickedStaysOut
  <2>2. \/ client[peer[q].owner].crossed
        \/ \E p \in Before(q) : (\A o \in Before(q) : o <= p) /\ ~peer[p].told
    BY DEF SessionInv, KickedStaysOut, Same
  <2>3. peer[q].owner \in Clients
    BY DEF SessionInv, Numbered, Same
  <2>4. client'[peer'[q].owner].crossed = client[peer[q].owner].crossed
    BY <1>1, <2>3 DEF Same
  <2> QED
    BY <2>1, <2>2, <2>4 DEF Same
<1> QED
  BY <1>3, <1>4, <1>5, <1>6, <1>7 DEF SessionInv

\* A world in which no more is in use than there is, and nobody is told.
Calmer(w) ==
    /\ IsWorld(w)
    /\ \A p \in Peers : /\ Same(peer[p], w.peer[p]) /\ (Used(w.peer[p]) => Used(peer[p]))
                        /\ peer[p].owner = None => ~w.peer[p].late

LEMMA CalmerHungUp ==
    ASSUME NEW w, Calmer(w), NEW n \in Peers, peer[n].owner # None
    PROVE  Calmer(HangUp(w, n)) /\ ~Used(HangUp(w, n).peer[n])
<1> DEFINE v == HangUp(w, n)
<1>1. /\ IsWorld(v) /\ (\A q \in Peers \ {n} : Twin(w.peer[q], v.peer[q]))
      /\ Same(w.peer[n], v.peer[n]) /\ ~Used(v.peer[n])
  BY HangUpLooks DEF Calmer
<1> HIDE DEF v
<1>2. \A q \in Peers \ {n} : /\ Same(w.peer[q], v.peer[q]) /\ (Used(v.peer[q]) => Used(w.peer[q]))
                             /\ (v.peer[q].late = w.peer[q].late)
  BY <1>1 DEF Twin, Used, Alive
<1>3. Calmer(v) /\ ~Used(v.peer[n])
  BY <1>1, <1>2 DEF Calmer, Same
<1> QED
  BY <1>3 DEF v

\* triggerDisconnect, with the client's fields as they are or with its final close code.
LEMMA LossStep ==
    ASSUME SessionInv, NEW c \in Clients, NEW r, NEW w, Calmer(w), Mine(c) # {},
           r = client[c] \/ r = [client[c] EXCEPT !.final = TRUE],
           TriggerDisconnect(c, r, w)
    PROVE  SessionInv'
<1> DEFINE s == client[c]
           x == AfterLoss(r)
<1>1. s \in ClientRecord /\ (s.neg # None => s.neg \in Peers /\ peer[s.neg].owner = c)
  BY DEF SessionInv, Shapes, ClientRecord
<1>2. /\ r \in ClientRecord /\ r.neg = s.neg /\ r.chan = s.chan /\ r.left = s.left /\ r.closing = s.closing
      /\ r.attempts = s.attempts /\ r.timer = s.timer /\ r.strays = s.strays /\ r.awaits = s.awaits
      /\ r.crossed = s.crossed /\ (s.final => r.final)
  BY <1>1 DEF ClientRecord
<1> DEFINE v == IF r.closing \/ r.neg = None THEN w ELSE HangUp(w, r.neg)
<1>3. client' = [client EXCEPT ![c] = x] /\ peer' = v.peer
  BY DEF TriggerDisconnect, Becomes
<1>4. Calmer(v) /\ (~r.closing /\ r.neg # None => ~Used(v.peer[r.neg]))
  <2>1. CASE r.closing \/ r.neg = None
    BY <2>1
  <2>2. CASE ~r.closing /\ r.neg # None
    BY <1>1, <1>2, <2>2, CalmerHungUp, Distinct
  <2> QED
    BY <2>1, <2>2
<1>5. /\ x \in ClientRecord /\ x.crossed = s.crossed
      /\ r.closing => x = r
      /\ ~r.closing => /\ x.neg = None /\ x.chan = None /\ x.closing /\ x.left = r.left
                       /\ x.awaits = r.awaits
                       /\ \/ x.timer = r.timer /\ x.strays = r.strays
                          \/ x.timer /\ ~r.final /\ (~r.timer => x.strays = r.strays)
  <2> DEFINE idle == [r EXCEPT !.closing = TRUE, !.chan = None, !.neg = None]
             consumed == [idle EXCEPT !.final = FALSE]
             again == ScheduleReconnect(consumed)
  <2>1. \/ r.closing /\ x = r
        \/ ~r.closing /\ r.left /\ x = idle
        \/ ~r.closing /\ ~r.left /\ ~r.final /\ x = again
        \/ ~r.closing /\ ~r.left /\ x = consumed
    BY DEF AfterLoss, ShouldReconnect
  <2> HIDE DEF s, x
  <2>2. /\ idle \in ClientRecord /\ idle.crossed = r.crossed /\ idle.timer = r.timer /\ idle.strays = r.strays
        /\ idle.neg = None /\ idle.chan = None /\ idle.closing /\ idle.left = r.left /\ idle.awaits = r.awaits
    BY <1>2 DEF ClientRecord
  <2> HIDE DEF idle
  <2>3. /\ consumed \in ClientRecord /\ consumed.crossed = r.crossed /\ consumed.timer = r.timer
        /\ consumed.strays = r.strays /\ consumed.neg = None /\ consumed.chan = None /\ consumed.closing
        /\ consumed.left = r.left /\ consumed.awaits = r.awaits
    BY <2>2 DEF ClientRecord
  <2> HIDE DEF consumed
  <2>4. /\ again \in ClientRecord /\ again.crossed = r.crossed /\ again.timer
        /\ ~r.timer => again.strays = r.strays
        /\ again.neg = None /\ again.chan = None /\ again.closing
        /\ again.left = r.left /\ again.awaits = r.awaits
    <3> DEFINE n == consumed.attempts + 1
               k == IF consumed.timer THEN consumed.strays + 1 ELSE consumed.strays
    <3>1. again = [consumed EXCEPT !.attempts = n, !.timer = TRUE, !.strays = k]
      BY DEF ScheduleReconnect
    <3>2. n \in Nat /\ k \in Nat /\ (~r.timer => k = r.strays)
      BY <2>3 DEF ClientRecord
    <3> HIDE DEF n, k, again
    <3> QED
      BY <2>3, <3>1, <3>2 DEF ClientRecord
  <2> HIDE DEF again
  <2> QED
    BY <1>2, <2>1, <2>2, <2>3, <2>4
<1> HIDE DEF v, x
<1>6. client'[c] = x
  BY <1>3 DEF SessionInv, Shapes
<1>7. Mine(c)' = Mine(c) /\ Mine(c) \subseteq Peers
  BY <1>3, <1>4 DEF Mine, Calmer, Same
<1>8. ASSUME ~s.crossed
      PROVE  Single(c)' /\ OneWait(c)'
  <2>1. Single(c) /\ OneWait(c)
    BY <1>8 DEF SessionInv
  <2>2. CASE r.closing
    <3>1. s.neg = None /\ x = r
      BY <1>2, <1>5, <2>1, <2>2 DEF OneWait
    <3>2. Single(c)'
      BY <1>2, <1>3, <1>4, <1>6, <1>7, <2>1, <3>1 DEF Single, Mine, Calmer
    <3>3. OneWait(c)'
      BY <1>2, <1>3, <1>4, <1>6, <1>7, <2>1, <3>1 DEF OneWait, Calmer, Same
    <3> QED
      BY <3>2, <3>3
  <2>3. CASE ~r.closing
    <3>1. s.neg # None /\ s.neg \in Peers /\ s.neg \in Mine(c) /\ ~s.left
      BY <1>1, <1>2, <2>1, <2>3 DEF OneWait, Single, Mine
    <3>2. \A p \in Mine(c) : ~Used(v.peer[p])
      BY <1>2, <1>4, <1>7, <2>1, <2>3, <3>1 DEF Single, Calmer
    <3>3. Single(c)'
      BY <1>3, <1>5, <1>6, <1>7, <2>3, <3>2 DEF Single
    <3>4. /\ x.strays = 0 /\ x.awaits = 0 /\ x.neg = None /\ x.closing
          /\ x.timer => ~r.final
      BY <1>2, <1>5, <2>1, <2>3, <3>1 DEF OneWait
    <3>5. x.timer => /\ \A o \in Mine(c) : o <= s.neg
                     /\ ~peer'[s.neg].told
      BY <1>2, <1>3, <1>4, <2>1, <3>1, <3>4 DEF OneWait, Calmer, Same
    <3>6. OneWait(c)'
      BY <1>6, <1>7, <3>1, <3>4, <3>5 DEF OneWait
    <3> QED
      BY <3>3, <3>6
  <2> QED
    BY <2>2, <2>3
<1>9. x.neg # None => peer[x.neg].owner = c
  BY <1>1, <1>2, <1>5
<1> QED
  BY <1>3, <1>4, <1>5, <1>8, <1>9, Quieter DEF Calmer, IsWorld

LEMMA CalmNow == SessionInv => Calmer(World)
  BY WorldNow DEF SessionInv, Numbered, Calmer, Same

LEMMA OwnerOf ==
    ASSUME SessionInv, NEW p \in Peers, Used(peer[p]) \/ peer[p].late
    PROVE  peer[p].owner \in Clients /\ Mine(peer[p].owner) # {}
  BY DEF SessionInv, Numbered, Mine

\* A peer of the world is put in a state that is no more in use.
LEMMA CalmerPeer ==
    ASSUME SessionInv, NEW p \in Peers, peer[p].owner # None, NEW w, NEW x,
           w = [f \in {"room", "peer", "link"} |-> w[f]], w.peer = [peer EXCEPT ![p] = x],
           IsPeer(x), Same(peer[p], x), Used(x) => Used(peer[p])
    PROVE  Calmer(w)
<1>1. peer = [q \in Peers |-> peer[q]] /\ \A q \in Peers : IsPeer(peer[q])
  BY DEF SessionInv, Shapes, ArePeers
<1>2. w.peer[p] = x /\ \A q \in Peers \ {p} : w.peer[q] = peer[q]
  BY <1>1
<1>3. IsWorld(w)
  BY <1>1, <1>2 DEF IsWorld, ArePeers
<1> QED
  BY <1>2, <1>3 DEF Calmer, Same, SessionInv, Numbered

LEMMA DownSteps ==
    ASSUME SessionInv, NEW p \in Peers, HearDown(p) \/ LateEvent(p)
    PROVE  SessionInv'
<1> DEFINE q == peer[p]
           c == q.owner
<1>1. Used(q) \/ q.late
  BY DEF HearDown, Down, ChannelDown, LateEvent, Used, Alive
<1>2. c \in Clients /\ Mine(c) # {}
  BY <1>1, OwnerOf
<1>3. IsPeer(q) /\ peer = [z \in Peers |-> peer[z]]
  BY DEF SessionInv, Shapes, ArePeers
<1>4. CASE HearDown(p)
  <2> DEFINE x == [q EXCEPT !.pc = "closed", !.frame = FALSE, !.late = TRUE]
             w == [World EXCEPT !.peer[p].pc = "closed", !.peer[p].frame = FALSE,
                                !.peer[p].late = TRUE, !.link[p] = "cut"]
  <2>1. TriggerDisconnect(c, client[c], w)
    BY <1>4 DEF HearDown
  <2>2. w = [f \in {"room", "peer", "link"} |-> w[f]] /\ w.peer = [peer EXCEPT ![p] = x]
    BY <1>3 DEF World
  <2>3. IsPeer(x) /\ Same(q, x) /\ x.pc = "closed" /\ x.sig = q.sig
    <3> HIDE DEF q
    <3> QED
      BY <1>3 DEF IsPeer, PeerFields, Same
  <2> HIDE DEF w, x
  <2>4. Calmer(w)
    BY <1>2, <2>2, <2>3, CalmerPeer, Distinct DEF Used, Alive
  <2> QED
    BY <1>2, <2>1, <2>4, LossStep
<1>5. CASE LateEvent(p)
  <2> DEFINE x == [q EXCEPT !.late = FALSE]
             w == [World EXCEPT !.peer[p].late = FALSE]
  <2>1. TriggerDisconnect(c, client[c], w)
    BY <1>5 DEF LateEvent
  <2>2. w = [f \in {"room", "peer", "link"} |-> w[f]] /\ w.peer = [peer EXCEPT ![p] = x]
    BY <1>3 DEF World
  <2>3. IsPeer(x) /\ Same(q, x) /\ x.pc = q.pc /\ x.sig = q.sig
    <3> HIDE DEF q
    <3> QED
      BY <1>3 DEF IsPeer, PeerFields, Same
  <2> HIDE DEF w, x
  <2>4. Calmer(w)
    BY <1>2, <2>2, <2>3, CalmerPeer, Distinct DEF Used, Alive
  <2> QED
    BY <1>2, <2>1, <2>4, LossStep
<1> QED
  BY <1>4, <1>5

LEMMA SignalLostStep ==
    ASSUME SessionInv, NEW p \in Peers, SignalLost(p)
    PROVE  SessionInv'
<1>1. Used(peer[p])
  BY DEF SignalLost, Used
<1>2. PICK c \in Clients : c = peer[p].owner /\ Mine(c) # {} /\ c # None
  BY <1>1, OwnerOf, Distinct
<1> DEFINE s == client[c]
           w == SignalOver(World, p)
<1> DEFINE told == [s EXCEPT !.final = TRUE]
           Gone(r) == IF r.chan = None THEN TriggerDisconnect(c, r, w)
                      ELSE Becomes(w) /\ client' = [client EXCEPT ![c] = r]
<1>3. PICK r : (r = s \/ r = told) /\ Gone(r)
  <2>1. PICK kicked \in BOOLEAN : Gone(IF kicked THEN told ELSE s)
    BY <1>2 DEF SignalLost
  <2> HIDE DEF Gone, told, s
  <2> QED
    BY <2>1
<1>4. Calmer(w)
  <2>1. IsWorld(World) /\ World.peer = peer
    BY WorldNow
  <2>2. /\ IsWorld(w) /\ (\A q \in Peers \ {p} : Twin(peer[q], w.peer[q]))
        /\ Same(peer[p], w.peer[p])
    BY <2>1, SignalOverLooks
  <2> HIDE DEF w
  <2>3. \A q \in Peers : /\ Same(peer[q], w.peer[q]) /\ (Used(w.peer[q]) => Used(peer[q]))
                         /\ q # p => w.peer[q].late = peer[q].late
    BY <1>1, <2>2 DEF Twin, Used, Alive
  <2> QED
    BY <1>2, <2>2, <2>3 DEF Calmer, SessionInv, Numbered
<1> HIDE DEF w
<1>5. CASE r.chan = None
  BY <1>2, <1>3, <1>4, <1>5, LossStep
<1>6. CASE r.chan # None
  <2>1. peer' = w.peer /\ client' = [client EXCEPT ![c] = r]
    BY <1>3, <1>6 DEF Becomes
  <2>2. s \in ClientRecord /\ (s.neg # None => peer[s.neg].owner = c)
    BY <1>2 DEF SessionInv, Shapes
  <2>3. /\ r \in ClientRecord /\ r.neg = s.neg /\ r.chan = s.chan /\ r.left = s.left /\ r.closing = s.closing
        /\ r.timer = s.timer /\ r.strays = s.strays /\ r.awaits = s.awaits
        /\ r.crossed = s.crossed /\ (s.final => r.final)
    BY <1>3, <2>2 DEF ClientRecord
  <2>4. client'[c] = r /\ Mine(c)' = Mine(c) /\ Mine(c) \subseteq Peers /\ (s.neg # None => s.neg \in Peers)
    BY <1>2, <1>4, <2>1, <2>2 DEF SessionInv, Shapes, Mine, Calmer, Same, ClientRecord
  <2>5. Single(c) => Single(c)'
    BY <1>4, <2>1, <2>3, <2>4 DEF Single, Calmer, Same
  <2>6. OneWait(c) => OneWait(c)'
    BY <1>4, <2>1, <2>3, <2>4 DEF OneWait, Calmer, Same
  <2>7. r.crossed \/ (Single(c) /\ OneWait(c))
    BY <1>2, <2>3 DEF SessionInv
  <2>8. /\ ArePeers(peer')
        /\ \A q \in Peers : /\ Same(peer[q], peer'[q]) /\ (Used(peer'[q]) => Used(peer[q]))
                            /\ peer[q].owner = None => ~peer'[q].late
    BY <1>4, <2>1 DEF Calmer, IsWorld
  <2>9. /\ r.crossed = client[c].crossed /\ (r.neg # None => peer[r.neg].owner = c)
        /\ r.crossed \/ (Single(c)' /\ OneWait(c)')
    BY <2>2, <2>3, <2>5, <2>6, <2>7
  <2> QED
    BY <2>1, <2>3, <2>8, <2>9, Quieter
<1> QED
  BY <1>5, <1>6

-----------------------------------------------------------------------------
(* The application's calls and the reconnect loop.                         *)

\* The peers are as they were.
LEMMA SamePeers ==
    ASSUME SessionInv, peer' = peer
    PROVE  /\ ArePeers(peer')
           /\ \A q \in Peers : /\ Same(peer[q], peer'[q]) /\ (Used(peer'[q]) => Used(peer[q]))
                               /\ peer[q].owner = None => ~peer'[q].late
  BY DEF SessionInv, Shapes, Numbered, Same

\* A timer or an awaited ticket is used up.
Rearmed(s, r) ==
    /\ r \in ClientRecord
    /\ r.neg = s.neg /\ r.chan = s.chan /\ r.left = s.left /\ r.closing = s.closing
    /\ r.final = s.final /\ r.crossed = s.crossed
    /\ \/ s.timer /\ ~r.timer /\ r.strays = s.strays /\ (r.awaits = s.awaits \/ r.awaits = s.awaits + 1)
       \/ s.strays > 0
       \/ s.awaits > 0 /\ r.awaits = s.awaits - 1 /\ r.timer = s.timer /\ r.strays = s.strays

LEMMA TimerSteps ==
    ASSUME SessionInv, NEW c \in Clients, TimerFires(c) \/ TicketFails(c)
    PROVE  SessionInv'
<1> DEFINE s == client[c]
<1>1. s \in ClientRecord /\ (s.neg # None => peer[s.neg].owner = c)
  BY DEF SessionInv, Shapes
<1>2. peer' = peer
  BY DEF TimerFires, TicketFails
<1>3. PICK r : client' = [client EXCEPT ![c] = r] /\ Rearmed(s, r)
  <2>1. CASE TimerFires(c)
    <3> DEFINE k == IF s.timer THEN s.strays ELSE s.strays - 1
               n == s.awaits + 1
               r1 == [s EXCEPT !.timer = FALSE]
               r2 == [r1 EXCEPT !.awaits = n]
               r3 == [s EXCEPT !.timer = FALSE, !.strays = k]
               r4 == [r3 EXCEPT !.awaits = n]
    <3>1. \/ s.timer /\ (client' = [client EXCEPT ![c] = r1] \/ client' = [client EXCEPT ![c] = r2])
          \/ s.strays > 0 /\ (client' = [client EXCEPT ![c] = r3] \/ client' = [client EXCEPT ![c] = r4])
      BY <1>1, <2>1 DEF TimerFires, ClientRecord
    <3>2. (s.strays > 0 => k \in Nat) /\ n \in Nat /\ n = s.awaits + 1
      BY <1>1 DEF ClientRecord
    <3> HIDE DEF s, k, n
    <3>3. s.timer => Rearmed(s, r1)
      BY <1>1 DEF ClientRecord, Rearmed
    <3>4. s.timer => Rearmed(s, r2)
      BY <1>1, <3>2 DEF ClientRecord, Rearmed
    <3>5. s.strays > 0 => Rearmed(s, r3)
      BY <1>1, <3>2 DEF ClientRecord, Rearmed
    <3>6. s.strays > 0 => Rearmed(s, r4)
      BY <1>1, <3>2 DEF ClientRecord, Rearmed
    <3> HIDE DEF r1, r2, r3, r4
    <3> QED
      BY <3>1, <3>3, <3>4, <3>5, <3>6
  <2>2. CASE TicketFails(c)
    <3> DEFINE n == s.awaits - 1
               r == [s EXCEPT !.awaits = n]
    <3>1. s.awaits > 0 /\ client' = [client EXCEPT ![c] = r]
      BY <2>2 DEF TicketFails, SessionInv, Shapes
    <3>2. n \in Nat /\ n = s.awaits - 1
      BY <1>1, <3>1 DEF ClientRecord
    <3> HIDE DEF s, n
    <3>3. Rearmed(s, r)
      BY <1>1, <3>1, <3>2 DEF ClientRecord, Rearmed
    <3> QED
      BY <3>1, <3>3
  <2> QED
    BY <2>1, <2>2
<1>4. client'[c] = r /\ Mine(c)' = Mine(c)
  BY <1>2, <1>3 DEF SessionInv, Shapes, Mine
<1>5. r.crossed \/ (Single(c) /\ OneWait(c))
  BY <1>3 DEF SessionInv, Rearmed
<1>6. Single(c) => Single(c)'
  BY <1>2, <1>3, <1>4 DEF Single, Rearmed
<1>7. OneWait(c) => OneWait(c)'
  BY <1>1, <1>2, <1>3, <1>4 DEF OneWait, ClientRecord, Rearmed
<1> QED
  BY <1>1, <1>2, <1>3, <1>5, <1>6, <1>7, SamePeers, Quieter DEF Rearmed

LEMMA DisconnectStep ==
    ASSUME SessionInv, NEW c \in Clients, Disconnect(c)
    PROVE  SessionInv'
<1> DEFINE s == client[c]
           r == [s EXCEPT !.left = TRUE, !.timer = FALSE, !.final = FALSE,
                          !.closing = TRUE, !.chan = None, !.neg = None]
           w == IF s.neg = None THEN World ELSE HangUp(World, s.neg)
<1>1. s \in ClientRecord /\ (s.neg # None => s.neg \in Peers /\ peer[s.neg].owner = c)
  BY DEF SessionInv, Shapes, ClientRecord
<1>2. peer' = w.peer /\ client' = [client EXCEPT ![c] = r]
  BY DEF Disconnect, Becomes
<1>3. Calmer(w) /\ (s.neg # None => ~Used(w.peer[s.neg]))
  <2>1. CASE s.neg = None
    BY <2>1, CalmNow
  <2>2. CASE s.neg # None
    BY <1>1, <2>2, CalmNow, CalmerHungUp, Distinct
  <2> QED
    BY <2>1, <2>2
<1> HIDE DEF w
<1>4. /\ r \in ClientRecord /\ r.neg = None /\ r.chan = None /\ r.left /\ r.closing /\ ~r.timer
      /\ r.strays = s.strays /\ r.awaits = s.awaits /\ r.crossed = s.crossed
  <2> HIDE DEF s
  <2> QED
    BY <1>1 DEF ClientRecord
<1> HIDE DEF r
<1>5. client'[c] = r /\ Mine(c)' = Mine(c) /\ Mine(c) \subseteq Peers
  BY <1>2, <1>3 DEF SessionInv, Shapes, Mine, Calmer, Same
<1>6. r.crossed \/ (Single(c) /\ OneWait(c))
  BY <1>4 DEF SessionInv
<1>7. Single(c) => Single(c)'
  BY <1>2, <1>3, <1>4, <1>5 DEF Single, Calmer
<1>8. OneWait(c) => OneWait(c)'
  BY <1>1, <1>4, <1>5 DEF OneWait, ClientRecord
<1>9. /\ ArePeers(peer')
      /\ \A q \in Peers : /\ Same(peer[q], peer'[q]) /\ (Used(peer'[q]) => Used(peer[q]))
                          /\ peer[q].owner = None => ~peer'[q].late
  BY <1>2, <1>3 DEF Calmer, IsWorld
<1> QED
  BY <1>2, <1>4, <1>6, <1>7, <1>8, <1>9, Quieter

LEMMA ChannelOpensStep ==
    ASSUME SessionInv, NEW p \in Peers, ChannelOpens(p)
    PROVE  SessionInv'
<1>1. peer[p].pc = "answered" /\ Used(peer[p])
  BY DEF ChannelOpens, Used, Alive
<1>2. PICK c \in Clients : c = peer[p].owner /\ Mine(c) # {} /\ p \in Mine(c)
  BY <1>1, OwnerOf DEF Mine
<1> DEFINE s == client[c]
           r == [s EXCEPT !.chan = p]
           q == peer[p]
           x == [q EXCEPT !.pc = "open", !.ticket = "sent"]
<1>3. IsPeer(q) /\ peer = [z \in Peers |-> peer[z]] /\ \A z \in Peers : IsPeer(peer[z])
  BY DEF SessionInv, Shapes, ArePeers
<1>4. s \in ClientRecord /\ (s.neg # None => peer[s.neg].owner = c)
  BY DEF SessionInv, Shapes
<1>5. peer' = [peer EXCEPT ![p] = x] /\ client' = [client EXCEPT ![c] = r]
  BY <1>2, <1>3, <1>4 DEF ChannelOpens, SessionInv, Shapes
<1>6. /\ r \in ClientRecord /\ r.chan = p /\ r.neg = s.neg /\ r.left = s.left /\ r.closing = s.closing
      /\ r.final = s.final /\ r.timer = s.timer /\ r.strays = s.strays /\ r.awaits = s.awaits
      /\ r.crossed = s.crossed
  <2> HIDE DEF s
  <2> QED
    BY <1>4 DEF ClientRecord
<1>7. IsPeer(x) /\ Same(q, x) /\ Used(x) /\ x.late = q.late
  <2> HIDE DEF q
  <2> QED
    BY <1>3 DEF IsPeer, PeerFields, Same, Used, Alive
<1> HIDE DEF r, x
<1>8. peer'[p] = x /\ \A z \in Peers \ {p} : peer'[z] = peer[z]
  BY <1>3, <1>5
<1>9. /\ ArePeers(peer')
      /\ \A z \in Peers : /\ Same(peer[z], peer'[z]) /\ (Used(peer'[z]) => Used(peer[z]))
                          /\ peer[z].owner = None => ~peer'[z].late
  BY <1>1, <1>3, <1>5, <1>7, <1>8 DEF ArePeers, Same, SessionInv, Numbered
<1>10. client'[c] = r /\ Mine(c)' = Mine(c) /\ Mine(c) \subseteq Peers
  BY <1>5, <1>9 DEF SessionInv, Shapes, Mine, Same
<1>11. r.crossed \/ (Single(c) /\ OneWait(c))
  BY <1>6 DEF SessionInv
<1>12. Single(c) => Single(c)'
  BY <1>1, <1>2, <1>6, <1>9, <1>10 DEF Single
<1>13. OneWait(c) => OneWait(c)'
  BY <1>4, <1>6, <1>9, <1>10 DEF OneWait, Same, ClientRecord
<1> QED
  BY <1>4, <1>5, <1>6, <1>9, <1>11, <1>12, <1>13, Quieter

\* Who is told of a kick is told of the negotiation it knows.
LEMMA HearKickStep ==
    ASSUME SessionInv, NEW p \in Peers, HearKick(p)
    PROVE  SessionInv'
<1>1. peer[p].pc = "open" /\ Used(peer[p])
  BY DEF HearKick, Used, Alive
<1>2. PICK c \in Clients : c = peer[p].owner /\ Mine(c) # {} /\ p \in Mine(c)
  BY <1>1, OwnerOf DEF Mine
<1> DEFINE s == client[c]
           r == [s EXCEPT !.final = TRUE]
           q == peer[p]
           x == [q EXCEPT !.frame = FALSE, !.told = TRUE]
<1>3. IsPeer(q) /\ peer = [z \in Peers |-> peer[z]] /\ \A z \in Peers : IsPeer(peer[z])
  BY DEF SessionInv, Shapes, ArePeers
<1>4. s \in ClientRecord
  BY DEF SessionInv, Shapes
<1>5. peer' = [peer EXCEPT ![p] = x] /\ client' = [client EXCEPT ![c] = r]
  BY <1>2, <1>3, <1>4 DEF HearKick, SessionInv, Shapes
<1>6. /\ r \in ClientRecord /\ r.chan = s.chan /\ r.neg = s.neg /\ r.left = s.left /\ r.closing = s.closing
      /\ r.final /\ r.timer = s.timer /\ r.strays = s.strays /\ r.awaits = s.awaits
      /\ r.crossed = s.crossed
  <2> HIDE DEF s
  <2> QED
    BY <1>4 DEF ClientRecord
<1>7. /\ IsPeer(x) /\ x.owner = q.owner /\ x.retry = q.retry
      /\ x.sig = q.sig /\ x.pc = q.pc /\ x.late = q.late
  <2> HIDE DEF q
  <2> QED
    BY <1>3 DEF IsPeer, PeerFields
<1> HIDE DEF r, x
<1>8. peer'[p] = x /\ \A z \in Peers \ {p} : peer'[z] = peer[z]
  BY <1>3, <1>5
<1>9. \A z \in Peers : /\ peer'[z].owner = peer[z].owner /\ peer'[z].retry = peer[z].retry
                       /\ Used(peer'[z]) <=> Used(peer[z])
                       /\ peer'[z].late = peer[z].late
  BY <1>7, <1>8 DEF Used, Alive
<1>10. client'[c] = r /\ \A d \in Clients \ {c} : client'[d] = client[d]
  BY <1>5 DEF SessionInv, Shapes
<1>11. \A d : Mine(d)' = Mine(d) /\ Mine(d) \subseteq Peers
  BY <1>9 DEF Mine
<1>12. Shapes'
  BY <1>3, <1>5, <1>6, <1>7, <1>8 DEF SessionInv, Shapes, ArePeers
<1>13. Numbered'
  BY <1>2, <1>8, <1>9, Distinct DEF SessionInv, Numbered
<1>14. \A d \in Clients : client'[d].neg # None => peer'[client'[d].neg].owner = d
  <2>1. \A d \in Clients : client'[d].neg \in Peers \cup {None}
    BY <1>12 DEF Shapes, ClientRecord
  <2> QED
    BY <1>6, <1>9, <1>10, <2>1 DEF SessionInv
<1>15. c \in Clients /\ (s.crossed \/ (s.neg = p /\ \A z \in Mine(c) : z <= p))
  BY <1>1, <1>2, Distinct DEF SessionInv, Single, OneWait
<1>16. ASSUME NEW d \in Clients, ~client'[d].crossed
       PROVE  Single(d)' /\ OneWait(d)'
  <2>1. Single(d) /\ OneWait(d) /\ (client[d].neg # None => client[d].neg \in Peers)
    BY <1>6, <1>10, <1>16 DEF SessionInv, Shapes, ClientRecord
  <2>2. CASE d = c
    <3>1. Single(c)'
      BY <1>6, <1>9, <1>10, <1>11, <2>1, <2>2 DEF Single
    <3>2. s.neg = p /\ p # None
      BY <1>6, <1>10, <1>15, <1>16, <2>2, Distinct
    <3>3. OneWait(c)'
      BY <1>6, <1>10, <1>11, <2>1, <2>2, <3>2 DEF OneWait
    <3> QED
      BY <2>2, <3>1, <3>3
  <2>3. CASE d # c
    <3>1. client'[d] = client[d] /\ p \notin Mine(d) /\ \A z \in Mine(d) : peer'[z] = peer[z]
      BY <1>2, <1>8, <1>10, <1>11, <2>3 DEF Mine
    <3>2. client[d].neg # None => client[d].neg \in Mine(d)
      BY <2>1 DEF SessionInv, Mine
    <3>3. Single(d)'
      BY <1>11, <2>1, <3>1 DEF Single
    <3>4. OneWait(d)'
      BY <1>11, <2>1, <3>1, <3>2 DEF OneWait
    <3> QED
      BY <3>3, <3>4
  <2> QED
    BY <2>2, <2>3
<1>17. KickedStaysOut'
  <2>1. \A z \in Peers : Before(z)' = Before(z) /\ Before(z) \subseteq Peers
    BY <1>9, BeforePeers DEF Before
  <2> SUFFICES ASSUME NEW z \in Peers, peer'[z].retry, ~client'[peer'[z].owner].crossed
               PROVE  \E o \in Before(z)' : (\A y \in Before(z)' : y <= o) /\ ~peer'[o].told
    BY DEF KickedStaysOut
  <2>2. peer[z].owner \in Clients
    BY <1>9 DEF SessionInv, Numbered
  <2>3. ~client[peer[z].owner].crossed
    BY <1>6, <1>9, <1>10, <2>2
  <2>4. PICK o \in Before(z) : (\A y \in Before(z) : y <= o) /\ ~peer[o].told
    BY <1>9, <2>3 DEF SessionInv, KickedStaysOut
  <2>5. o # p
    <3> SUFFICES ASSUME o = p PROVE FALSE
      OBVIOUS
    <3>1. z \in Mine(c) /\ p < z
      BY <1>2, RtcAssumption DEF Before, Mine, Peers
    <3>2. z <= p
      BY <1>2, <1>15, <2>3, <3>1 DEF Mine
    <3> QED
      BY <3>1, <3>2, RtcAssumption DEF Peers
  <2> QED
    BY <1>8, <2>1, <2>4, <2>5
<1> QED
  BY <1>12, <1>13, <1>14, <1>16, <1>17 DEF SessionInv

-----------------------------------------------------------------------------
(* A negotiation is started.                                               *)

LEMMA NextIsLeast ==
    ASSUME Unused # {}
    PROVE  NextPeer \in Unused /\ \A q \in Unused : NextPeer <= q
<1> DEFINE R == {ss \in Nat \X Nat : ss[1] < ss[2]}
<1>1. Unused \subseteq Nat
  BY RtcAssumption DEF Unused, Peers
<1>2. \A x, y \in Nat : x < y => <<x, y>> \in R
  OBVIOUS
<1>3. PICK x \in Unused : \A y \in Unused : <<y, x>> \notin R
  <2>1. IsWellFoundedOn(R, Nat)
    BY NatLessThanWellFounded DEF OpToRel
  <2> HIDE DEF R
  <2> QED
    BY <1>1, <2>1, WFMin
<1> HIDE DEF R
<1>4. \A y \in Unused : x <= y
  <2> SUFFICES ASSUME NEW y \in Unused PROVE x <= y
    OBVIOUS
  <2>1. x \in Nat /\ y \in Nat /\ ~(y < x)
    BY <1>1, <1>2, <1>3
  <2> QED
    BY <2>1
<1> QED
  BY <1>3, <1>4 DEF NextPeer

\* Client c, with the fields r, starts a negotiation that it has no other beside.
LEMMA StartStep ==
    ASSUME SessionInv, NEW c \in Clients, NEW r \in ClientRecord, NEW retry \in BOOLEAN,
           StartNegotiation(c, r, retry),
           \/ r.crossed
           \/ /\ ~client[c].crossed /\ client[c].neg = None /\ r.chan = None
              /\ ~r.left /\ ~r.timer /\ r.strays = 0 /\ r.awaits = 0
              /\ retry => \E p \in Mine(c) : (\A o \in Mine(c) : o <= p) /\ ~peer[p].told,
           client[c].crossed => r.crossed
    PROVE  SessionInv'
<1>1. PICK n \in Peers : n = NextPeer /\ peer[n].owner = None /\ \A z \in Peers : peer[z].owner = None => n <= z
  BY NextIsLeast DEF StartNegotiation, Unused
<1> DEFINE q == peer[n]
           x == [q EXCEPT !.owner = c, !.retry = retry, !.sig = "dialing"]
           s == [r EXCEPT !.closing = FALSE, !.neg = n]
<1>2. ~q.told /\ ~q.late /\ ~q.retry /\ ~Used(q)
  BY <1>1 DEF SessionInv, Numbered
<1>3. IsPeer(q) /\ peer = [z \in Peers |-> peer[z]] /\ \A z \in Peers : IsPeer(peer[z])
  BY <1>1 DEF SessionInv, Shapes, ArePeers
<1>4. peer' = [peer EXCEPT ![n] = x] /\ client' = [client EXCEPT ![c] = s]
  BY <1>1, <1>3 DEF StartNegotiation
<1>5. IsPeer(x) /\ x.owner = c /\ x.retry = retry /\ x.told = q.told /\ Used(x) /\ x.late = q.late
  <2> HIDE DEF q
  <2> QED
    BY <1>3 DEF IsPeer, PeerFields, Used
<1>6. /\ s \in ClientRecord /\ s.neg = n /\ s.closing = FALSE /\ s.chan = r.chan /\ s.left = r.left
      /\ s.timer = r.timer /\ s.strays = r.strays /\ s.awaits = r.awaits /\ s.crossed = r.crossed
  BY <1>1 DEF ClientRecord
<1> HIDE DEF x, s
<1>7. peer'[n] = x /\ \A z \in Peers \ {n} : peer'[z] = peer[z]
  BY <1>1, <1>3, <1>4
<1>8. client'[c] = s /\ \A d \in Clients \ {c} : client'[d] = client[d]
  BY <1>4 DEF SessionInv, Shapes
<1>9. /\ Mine(c)' = Mine(c) \cup {n} /\ n \notin Mine(c)
      /\ \A d \in Clients \ {c} : Mine(d)' = Mine(d) /\ n \notin Mine(d)
      /\ \A d : Mine(d) \subseteq Peers
  BY <1>1, <1>5, <1>7, Distinct DEF Mine
<1>10. \A z \in Peers : peer[z].owner # None => z < n
  <2> SUFFICES ASSUME NEW z \in Peers, peer[z].owner # None, n < z PROVE FALSE
    BY <1>1, RtcAssumption DEF Peers
  <2> QED
    BY <1>1 DEF SessionInv, Numbered
<1>11. Shapes'
  BY <1>1, <1>3, <1>4, <1>5, <1>6, <1>7 DEF SessionInv, Shapes, ArePeers
<1>12. Numbered'
  <2>1. \A p \in Peers : peer'[p].owner \in Clients \cup {None}
    BY <1>5, <1>7 DEF SessionInv, Numbered
  <2>2. \A p \in Peers : peer'[p].owner = None =>
           ~Used(peer'[p]) /\ ~peer'[p].late /\ ~peer'[p].told /\ ~peer'[p].retry
    BY <1>5, <1>7, Distinct DEF SessionInv, Numbered
  <2>3. \A p, z \in Peers : z < p /\ peer'[p].owner # None => peer'[z].owner # None
    <3> SUFFICES ASSUME NEW p \in Peers, NEW z \in Peers, z < p, peer'[p].owner # None
                 PROVE  peer'[z].owner # None
      OBVIOUS
    <3>1. CASE z = n
      BY <1>5, <1>7, <3>1, Distinct
    <3>2. CASE z # n /\ p = n
      BY <1>1, <1>7, <3>2, RtcAssumption DEF Peers
    <3>3. CASE z # n /\ p # n
      BY <1>7, <3>3 DEF SessionInv, Numbered
    <3> QED
      BY <3>1, <3>2, <3>3
  <2> QED
    BY <2>1, <2>2, <2>3 DEF Numbered
<1>13. \A d \in Clients : client'[d].neg # None => peer'[client'[d].neg].owner = d
  <2>1. \A d \in Clients : client'[d].neg \in Peers \cup {None}
    BY <1>11 DEF Shapes, ClientRecord
  <2>2. \A d \in Clients \ {c} : client[d].neg # n
    BY <1>1, Distinct DEF SessionInv
  <2> QED
    BY <1>5, <1>6, <1>7, <1>8, <2>1, <2>2 DEF SessionInv
<1>14. ASSUME NEW d \in Clients, ~client'[d].crossed
       PROVE  Single(d)' /\ OneWait(d)'
  <2>1. CASE d = c
    <3>1. Single(c) /\ OneWait(c) /\ ~r.crossed
      BY <1>6, <1>8, <1>14, <2>1 DEF SessionInv
    <3>2. \A p \in Mine(c) : ~Used(peer'[p]) /\ p < n
      BY <1>7, <1>9, <1>10, <3>1, Distinct DEF Single, Mine
    <3>3. Single(c)'
      BY <1>6, <1>8, <1>9, <3>1, <3>2 DEF Single
    <3>4. ~peer'[n].told /\ n <= n
      BY <1>1, <1>2, <1>5, <1>7, RtcAssumption DEF Peers
    <3>5. \A p \in Mine(c) \cup {n} : p <= n
      BY <1>1, <1>9, <3>2, <3>4, RtcAssumption DEF Peers
    <3>6. n # None
      BY <1>1, Distinct
    <3>7. OneWait(c)'
      BY <1>6, <1>8, <1>9, <3>1, <3>4, <3>5, <3>6 DEF OneWait
    <3> QED
      BY <2>1, <3>3, <3>7
  <2>2. CASE d # c
    <3>1. Single(d) /\ OneWait(d) /\ (client[d].neg # None => client[d].neg \in Mine(d))
      BY <1>8, <1>14, <2>2 DEF SessionInv, Shapes, ClientRecord, Mine
    <3>2. client'[d] = client[d] /\ Mine(d)' = Mine(d) /\ \A z \in Mine(d) : peer'[z] = peer[z]
      BY <1>7, <1>8, <1>9, <2>2
    <3>3. Single(d)'
      BY <3>1, <3>2 DEF Single
    <3>4. OneWait(d)'
      BY <3>1, <3>2 DEF OneWait
    <3> QED
      BY <3>3, <3>4
  <2> QED
    BY <2>1, <2>2
<1>15. KickedStaysOut'
  <2> SUFFICES ASSUME NEW z \in Peers, peer'[z].retry, ~client'[peer'[z].owner].crossed
               PROVE  \E o \in Before(z)' : (\A y \in Before(z)' : y <= o) /\ ~peer'[o].told
    BY DEF KickedStaysOut
  <2>1. CASE z = n
    <3>1. ~r.crossed /\ retry
      BY <1>5, <1>6, <1>7, <1>8, <2>1
    <3>2. PICK p \in Mine(c) : (\A o \in Mine(c) : o <= p) /\ ~peer[p].told
      BY <3>1
    <3>3. Before(n)' = Mine(c)
      <4>1. \A y : y \in 1..n - 1 <=> y \in Peers /\ y < n
        BY <1>1, RtcAssumption DEF Peers
      <4>2. \A y \in Mine(c) : y < n
        BY <1>10, Distinct DEF Mine
      <4> QED
        BY <1>5, <1>7, <4>1, <4>2 DEF Before, Mine
    <3>4. ~peer'[p].told
      BY <1>7, <1>9, <3>2
    <3> QED
      BY <2>1, <3>2, <3>3, <3>4
  <2>2. CASE z # n
    <3>1. peer'[z] = peer[z] /\ peer[z].owner \in Clients
      BY <1>7, <2>2 DEF SessionInv, Numbered
    <3>2. ~client[peer[z].owner].crossed
      BY <1>6, <1>8, <3>1
    <3>3. PICK o \in Before(z) : (\A y \in Before(z) : y <= o) /\ ~peer[o].told
      BY <3>1, <3>2 DEF SessionInv, KickedStaysOut
    <3>4. n \notin 1..z - 1 /\ 1..z - 1 \subseteq Peers
      BY <1>1, <1>10, <3>1, Distinct, BeforePeers, RtcAssumption DEF Peers
    <3>5. Before(z)' = Before(z) /\ peer'[o] = peer[o]
      BY <1>7, <3>1, <3>3, <3>4 DEF Before
    <3> QED
      BY <3>3, <3>5
  <2> QED
    BY <2>1, <2>2
<1> QED
  BY <1>11, <1>12, <1>13, <1>14, <1>15 DEF SessionInv

LEMMA ConnectStep ==
    ASSUME SessionInv, NEW c \in Clients, Connect(c)
    PROVE  SessionInv'
<1> DEFINE s == client[c]
           m == s.crossed \/ s.awaits > 0 \/ s.strays > 0
           r == [s EXCEPT !.timer = FALSE, !.left = FALSE, !.attempts = 0, !.crossed = m]
<1>1. s \in ClientRecord /\ s.neg = None /\ s.chan = None
  BY DEF Connect, SessionInv, Shapes
<1>2. StartNegotiation(c, r, FALSE)
  BY DEF Connect
<1>3. m \in BOOLEAN
  BY <1>1 DEF ClientRecord
<1>4. ~m => ~s.crossed /\ s.awaits = 0 /\ s.strays = 0
  BY <1>1 DEF ClientRecord
<1> HIDE DEF m
<1>5. /\ r \in ClientRecord /\ r.chan = None /\ r.crossed = m
      /\ ~r.left /\ ~r.timer /\ r.strays = s.strays /\ r.awaits = s.awaits
  <2> HIDE DEF s
  <2> QED
    BY <1>1, <1>3 DEF ClientRecord
<1>6. s.crossed => m
  BY <1>4
<1> HIDE DEF r
<1> QED
  BY <1>1, <1>2, <1>4, <1>5, <1>6, StartStep

LEMMA TicketArrivesStep ==
    ASSUME SessionInv, NEW c \in Clients, TicketArrives(c)
    PROVE  SessionInv'
<1> DEFINE s == client[c]
           n == s.awaits - 1
           r == [s EXCEPT !.awaits = n]
<1>1. s \in ClientRecord /\ s.awaits > 0 /\ (s.neg # None => peer[s.neg].owner = c)
  BY DEF TicketArrives, SessionInv, Shapes
<1>2. n \in Nat /\ n = s.awaits - 1
  BY <1>1 DEF ClientRecord
<1>3. IF ~r.left THEN StartNegotiation(c, r, TRUE)
      ELSE client' = [client EXCEPT ![c] = r] /\ peer' = peer
  BY DEF TicketArrives, StillWanted
<1> HIDE DEF n
<1>4. /\ r \in ClientRecord /\ r.chan = s.chan /\ r.neg = s.neg /\ r.left = s.left /\ r.closing = s.closing
      /\ r.final = s.final /\ r.timer = s.timer /\ r.strays = s.strays /\ r.awaits = n
      /\ r.crossed = s.crossed
  <2> HIDE DEF s
  <2> QED
    BY <1>1, <1>2 DEF ClientRecord
<1>5. r.crossed \/ (Single(c) /\ OneWait(c))
  BY <1>4 DEF SessionInv
<1>6. CASE s.left
  <2>1. peer' = peer /\ client' = [client EXCEPT ![c] = r]
    BY <1>4, <1>6, <1>3
  <2>2. client'[c] = r /\ Mine(c)' = Mine(c)
    BY <2>1 DEF SessionInv, Shapes, Mine
  <2>3. Single(c) => Single(c)'
    BY <1>4, <2>1, <2>2 DEF Single
  <2>4. OneWait(c) => OneWait(c)'
    BY <1>1, <1>2, <1>4, <2>1, <2>2 DEF OneWait, ClientRecord
  <2> HIDE DEF r
  <2> QED
    BY <1>1, <1>4, <1>5, <2>1, <2>3, <2>4, SamePeers, Quieter
<1>7. CASE ~s.left
  <2>1. StartNegotiation(c, r, TRUE)
    BY <1>4, <1>7, <1>3
  <2> HIDE DEF r
  <2>2. CASE s.crossed
    <3>1. r.crossed
      BY <1>4, <2>2
    <3> QED
      BY <1>4, <2>1, <3>1, StartStep
  <2>3. CASE ~s.crossed
    <3>1. s.neg = None /\ s.chan = None /\ s.strays = 0 /\ s.awaits = 1 /\ ~s.timer
      BY <1>1, <1>4, <1>5, <2>3 DEF Single, OneWait, ClientRecord
    <3>2. \E p \in Mine(c) : (\A o \in Mine(c) : o <= p) /\ ~peer[p].told
      BY <1>1, <1>4, <1>5, <1>7, <2>3 DEF OneWait
    <3>3. /\ ~client[c].crossed /\ client[c].neg = None /\ r.chan = None
          /\ ~r.left /\ ~r.timer /\ r.strays = 0 /\ r.awaits = 0
      BY <1>2, <1>4, <1>7, <2>3, <3>1
    <3> QED
      BY <1>4, <2>1, <3>2, <3>3, StartStep
  <2> QED
    BY <2>2, <2>3
<1> QED
  BY <1>6, <1>7

-----------------------------------------------------------------------------
(* Every step.                                                             *)

LEMMA SessionInit == Init => SessionInv
<1> SUFFICES ASSUME Init PROVE SessionInv
  OBVIOUS
<1>1. Shapes
  <2> DEFINE q0 == [owner |-> None, retry |-> FALSE, sig |-> "none", inbox |-> <<>>, view |-> None,
                    pc |-> "none", offer |-> "none", ticket |-> "none", frame |-> FALSE,
                    told |-> FALSE, late |-> FALSE]
  <2>1. IsPeer(q0) /\ peer = [p \in Peers |-> q0]
    BY DEF Init, IsPeer, PeerFields
  <2> HIDE DEF q0
  <2>2. ArePeers(peer)
    BY <2>1 DEF ArePeers
  <2>3. client \in [Clients -> ClientRecord]
    BY DEF Init, ClientRecord
  <2> QED
    BY <2>2, <2>3 DEF Shapes
<1>2. \A p \in Peers : /\ peer[p].owner = None /\ ~Used(peer[p]) /\ ~peer[p].late
                       /\ ~peer[p].told /\ ~peer[p].retry
  BY DEF Init, Used, Alive
<1>3. \A c \in Clients : Mine(c) = {}
  BY <1>2, Distinct DEF Mine
<1>4. \A c \in Clients : /\ client[c].neg = None /\ client[c].chan = None /\ ~client[c].left
                         /\ client[c].strays = 0 /\ client[c].awaits = 0 /\ ~client[c].timer
  BY DEF Init
<1>5. \A c \in Clients : Single(c) /\ OneWait(c)
  BY <1>3, <1>4 DEF Single, OneWait
<1>6. Numbered /\ KickedStaysOut
  BY <1>2 DEF Numbered, KickedStaysOut
<1> QED
  BY <1>1, <1>4, <1>5, <1>6 DEF SessionInv

LEMMA SessionStep == SessionInv /\ [Next]_vars => SessionInv'
<1> SUFFICES ASSUME SessionInv, [Next]_vars PROVE SessionInv'
  OBVIOUS
<1>1. ASSUME NEW c \in Clients,
             Connect(c) \/ Disconnect(c) \/ TimerFires(c) \/ TicketArrives(c) \/ TicketFails(c)
      PROVE  SessionInv'
  BY <1>1, ConnectStep, DisconnectStep, TimerSteps, TicketArrivesStep
<1>2. ASSUME NEW p \in Peers,
             \/ SignalUp(p) \/ SignalLost(p) \/ HearSignal(p) \/ SendOffer(p) \/ IceEnds(p) \/ NetworkCut(p)
             \/ ChannelOpens(p) \/ HearKick(p) \/ HearDown(p) \/ LateEvent(p)
      PROVE  SessionInv'
  BY <1>2, SignalSteps, SignalLostStep, SilentSteps, ChannelOpensStep, HearKickStep, DownSteps
<1>3. ASSUME NEW p \in Peers,
             \/ HearOffer(p) \/ SendAnswer(p) \/ HostConnected(p) \/ NegotiationTimesOut(p)
             \/ HostHearsDown(p) \/ HostChannel(p) \/ HearTicket(p) \/ Refuse(p) \/ Grant(p)
             \/ HostHearsClose(p) \/ SecondChannel(p) \/ SecondCloses(p) \/ Kick(p)
      PROVE  SessionInv'
  BY <1>3, SignalSteps, SilentSteps
<1>4. CASE HostConnects
  BY <1>4, QuietStep DEF HostConnects
<1>5. CASE HostSignalLost \/ Dispose
  BY <1>5, HostSignalLostStep, DisposeStep
<1>6. CASE UNCHANGED vars
  BY <1>6, QuietStep DEF vars
<1> QED
  BY <1>1, <1>2, <1>3, <1>4, <1>5, <1>6 DEF Next

-----------------------------------------------------------------------------
(* The maps of the transport.                                              *)

TableRecord ==
    [channels : [Actors -> Peers \cup {None}], peerToActor : [Peers -> Actors \cup {None}],
     closed : SUBSET Actors, unreliable : [Actors -> Peers \cup {None}],
     pending : SUBSET Peers, layer : SUBSET Actors]

ServeRecord ==
    [pc : {"none", "fresh", "new", "connected"}, chan : {"none", "open", "closing", "closed"},
     adm : {"none", "ticket", "granting", "over", "in"}, actor : Actors \cup {None},
     second : {"none", "waiting", "wired", "over"}]

\* With generated ids an actor has the name of its peer.
TableBooks(t) ==
    /\ t \in TableRecord
    /\ t.layer = {a \in Actors : t.channels[a] # None}
    /\ \A a \in Actors :
         /\ t.channels[a] # None =>
               a \in Peers /\ t.channels[a] = a /\ t.peerToActor[a] = a /\ a \notin t.closed
         /\ t.unreliable[a] # None => t.unreliable[a] = a /\ t.channels[a] = a
    /\ \A p \in Peers : t.peerToActor[p] # None => t.peerToActor[p] = p /\ t.channels[p] = p

\* What the table t knows of peer p is so, for x its end of the negotiation: who is not
\* admitted yet was never closed, who has a channel was admitted and did not close.
PeerBooks(t, p, x) ==
    /\ x \in ServeRecord
    /\ t.channels[p] = p => x.adm = "in" /\ x.chan # "closed"
    /\ x.actor = IF x.adm = "in" THEN p ELSE None
    /\ x.adm \in {"none", "ticket", "granting"} => p \notin t.closed
    /\ x.second = "wired" => x.adm = "in"

LedgerInv ==
    /\ TableBooks(table) /\ serve = [p \in Peers |-> serve[p]]
    /\ \A p \in Peers : PeerBooks(table, p, serve[p])

LEMMA LedgerProperty == LedgerInv => LedgerAgrees
<1> SUFFICES ASSUME LedgerInv PROVE LedgerAgrees
  OBVIOUS
<1>1. None \notin Actors /\ Peers \subseteq Actors
  BY Distinct DEF Actors
<1>2. \A p \in Peers, a \in Actors : table.peerToActor[p] = a <=> table.channels[a] = p
  BY <1>1 DEF LedgerInv, TableBooks
<1>3. \A p \in Peers : serve[p].chan = "closed" => table.peerToActor[p] = None
  BY DEF LedgerInv, TableBooks, PeerBooks
<1> QED
  BY <1>1, <1>2, <1>3 DEF LedgerInv, TableBooks, LedgerAgrees

LEMMA SamePeerBooks ==
    ASSUME NEW t, NEW u, NEW p, NEW x, PeerBooks(t, p, x),
           u.channels[p] = t.channels[p] \/ u.channels[p] # p,
           p \in u.closed => p \in t.closed \/ x.adm \notin {"none", "ticket", "granting"}
    PROVE  PeerBooks(u, p, x)
  BY DEF PeerBooks

\* triggerClose takes a peer's actor out of every map and out of the layer.
LEMMA CloseBooks ==
    ASSUME NEW t, TableBooks(t), NEW p \in Peers
    PROVE  LET u == TriggerClose(t, p, p) IN
           /\ TableBooks(u) /\ u.channels[p] = None
           /\ \A q \in Peers \ {p} : u.channels[q] = t.channels[q] /\ (q \in u.closed <=> q \in t.closed)
<1> DEFINE u == TriggerClose(t, p, p)
<1>1. None \notin Actors /\ Peers \subseteq Actors
  BY Distinct DEF Actors
<1>2. CASE p \in t.closed
  <2>1. u = t
    BY <1>2 DEF TriggerClose
  <2>2. t.channels[p] = None
    BY <1>1, <1>2 DEF TableBooks
  <2> QED
    BY <2>1, <2>2
<1>3. CASE p \notin t.closed
  <2> DEFINE v == [t EXCEPT !.closed = @ \cup {p}, !.channels[p] = None, !.peerToActor[p] = None,
                            !.pending = @ \ {p}, !.unreliable[p] = None, !.layer = @ \ {p}]
  <2>1. u = v
    BY <1>3 DEF TriggerClose
  <2>2. /\ v.closed = t.closed \cup {p} /\ v.channels = [t.channels EXCEPT ![p] = None]
        /\ v.peerToActor = [t.peerToActor EXCEPT ![p] = None] /\ v.pending = t.pending \ {p}
        /\ v.unreliable = [t.unreliable EXCEPT ![p] = None] /\ v.layer = t.layer \ {p}
    BY DEF TableBooks, TableRecord
  <2>3. v \in TableRecord
    <3> DEFINE cl == t.closed \cup {p}
               ch == [t.channels EXCEPT ![p] = None]
               pa == [t.peerToActor EXCEPT ![p] = None]
               pe == t.pending \ {p}
               un == [t.unreliable EXCEPT ![p] = None]
               la == t.layer \ {p}
    <3>1. v = [t EXCEPT !.closed = cl, !.channels = ch, !.peerToActor = pa, !.pending = pe,
                        !.unreliable = un, !.layer = la]
      BY DEF TableBooks, TableRecord
    <3>2. /\ cl \in SUBSET Actors /\ ch \in [Actors -> Peers \cup {None}]
          /\ pa \in [Peers -> Actors \cup {None}] /\ pe \in SUBSET Peers
          /\ un \in [Actors -> Peers \cup {None}] /\ la \in SUBSET Actors
      BY <1>1 DEF TableBooks, TableRecord
    <3>3. t \in TableRecord
      BY DEF TableBooks
    <3> HIDE DEF v, cl, ch, pa, pe, un, la
    <3> QED
      BY <3>1, <3>2, <3>3 DEF TableRecord
  <2> HIDE DEF v
  <2>4. TableBooks(v)
    BY <1>1, <2>2, <2>3 DEF TableBooks, TableRecord
  <2> HIDE DEF u
  <2> QED
    BY <1>1, <2>1, <2>2, <2>4 DEF TableBooks, TableRecord, u
<1> QED
  BY <1>2, <1>3

LEMMA OneEnd ==
    ASSUME LedgerInv, NEW p \in Peers, NEW x, serve' = [serve EXCEPT ![p] = x],
           TableBooks(table'), PeerBooks(table', p, x),
           \A q \in Peers \ {p} : /\ table'.channels[q] = table.channels[q]
                                  /\ q \in table'.closed => q \in table.closed
    PROVE  LedgerInv'
<1>1. serve'[p] = x /\ (\A q \in Peers \ {p} : serve'[q] = serve[q]) /\ serve' = [q \in Peers |-> serve'[q]]
  BY DEF LedgerInv
<1>2. \A q \in Peers \ {p} : PeerBooks(table', q, serve'[q])
  <2> SUFFICES ASSUME NEW q \in Peers \ {p} PROVE PeerBooks(table', q, serve[q])
    BY <1>1
  <2>1. PeerBooks(table, q, serve[q])
    BY DEF LedgerInv
  <2> QED
    BY <2>1, SamePeerBooks
<1> QED
  BY <1>1, <1>2 DEF LedgerInv

LEMMA OneEndOnly ==
    ASSUME LedgerInv, NEW p \in Peers, NEW x, serve' = [serve EXCEPT ![p] = x], table' = table,
           PeerBooks(table, p, x)
    PROVE  LedgerInv'
<1>1. TableBooks(table')
  BY DEF LedgerInv
<1>2. PeerBooks(table', p, x)
  OBVIOUS
<1> QED
  BY <1>1, <1>2, OneEnd

\* The end that serves p, whatever else it does, is as far in its admission as it was.
LEMMA SameEnd ==
    ASSUME NEW t, NEW p \in Peers, NEW x, NEW y, PeerBooks(t, p, x), y \in ServeRecord,
           y.adm = x.adm, y.actor = x.actor, y.chan = "closed" => x.chan = "closed",
           y.second = "wired" => x.second = "wired" \/ x.adm = "in"
    PROVE  PeerBooks(t, p, y)
  BY DEF PeerBooks

\* Steps of admission that leave the maps alone.
LEMMA EndSteps ==
    ASSUME LedgerInv, NEW p \in Peers,
           \/ HearOffer(p) \/ SendAnswer(p) \/ HostConnected(p) \/ HostChannel(p) \/ HearTicket(p)
           \/ Refuse(p) \/ Kick(p)
    PROVE  LedgerInv'
<1> DEFINE s == serve[p]
<1>1. PeerBooks(table, p, s) /\ s \in ServeRecord /\ serve = [q \in Peers |-> serve[q]]
  BY DEF LedgerInv, PeerBooks
<1>2. table' = table
  BY DEF HearOffer, SendAnswer, HostConnected, HostChannel, HearTicket, Refuse, Kick
<1> HIDE DEF s
<1>3. s.pc \in {"none", "fresh", "new", "connected"} /\ [s EXCEPT !.pc = "fresh"] \in ServeRecord
      /\ [s EXCEPT !.pc = "new"] \in ServeRecord /\ [s EXCEPT !.pc = "connected"] \in ServeRecord
  BY <1>1 DEF ServeRecord
<1>4. CASE HearOffer(p) \/ SendAnswer(p) \/ HostConnected(p)
  <2>1. PICK c \in {"fresh", "new", "connected"} : serve' = [serve EXCEPT ![p] = [s EXCEPT !.pc = c]] \/ serve' = serve
    BY <1>4 DEF HearOffer, SendAnswer, HostConnected, s
  <2> DEFINE x == [s EXCEPT !.pc = c]
  <2>2. x \in ServeRecord /\ x.adm = s.adm /\ x.actor = s.actor /\ x.chan = s.chan /\ x.second = s.second
    BY <1>1 DEF ServeRecord
  <2>3. serve' = [serve EXCEPT ![p] = x] \/ serve' = [serve EXCEPT ![p] = s]
    BY <1>1, <2>1 DEF s
  <2> HIDE DEF x
  <2>4. PeerBooks(table, p, x)
    BY <1>1, <2>2, SameEnd
  <2> QED
    BY <1>1, <1>2, <2>3, <2>4, OneEndOnly
<1>5. CASE HostChannel(p)
  <2> DEFINE x == [s EXCEPT !.chan = "open", !.adm = "ticket"]
  <2>1. serve' = [serve EXCEPT ![p] = x] /\ s.adm = "none"
    BY <1>1, <1>5 DEF HostChannel, s
  <2>2. x \in ServeRecord /\ x.adm = "ticket" /\ x.actor = s.actor /\ x.chan = "open" /\ x.second = s.second
    BY <1>1 DEF ServeRecord
  <2> HIDE DEF x
  <2>3. PeerBooks(table, p, x)
    BY <1>1, <2>1, <2>2 DEF PeerBooks
  <2> QED
    BY <1>2, <2>1, <2>3, OneEndOnly
<1>6. CASE HearTicket(p)
  <2> DEFINE x == [s EXCEPT !.adm = "granting"]
  <2>1. serve' = [serve EXCEPT ![p] = x] /\ s.adm = "ticket"
    BY <1>1, <1>6 DEF HearTicket, s
  <2>2. x \in ServeRecord /\ x.adm = "granting" /\ x.actor = s.actor /\ x.chan = s.chan /\ x.second = s.second
    BY <1>1 DEF ServeRecord
  <2> HIDE DEF x
  <2>3. PeerBooks(table, p, x)
    BY <1>1, <2>1, <2>2 DEF PeerBooks
  <2> QED
    BY <1>2, <2>1, <2>3, OneEndOnly
<1>7. CASE Refuse(p)
  <2> DEFINE y == [s EXCEPT !.adm = "over"]
             x == Closing(y)
  <2>1. serve' = [serve EXCEPT ![p] = x] /\ s.adm = "granting"
    BY <1>1, <1>7 DEF Refuse, s
  <2>2. y \in ServeRecord /\ y.adm = "over" /\ y.actor = s.actor /\ y.chan = s.chan /\ y.second = s.second
    BY <1>1 DEF ServeRecord
  <2> HIDE DEF y
  <2>3. x \in ServeRecord /\ x.adm = "over" /\ x.actor = s.actor /\ x.second = s.second
    BY <2>2 DEF ServeRecord, Closing
  <2> HIDE DEF x
  <2>4. PeerBooks(table, p, x)
    BY <1>1, <2>1, <2>3 DEF PeerBooks
  <2> QED
    BY <1>2, <2>1, <2>4, OneEndOnly
<1>8. CASE Kick(p)
  <2> DEFINE x == Closing(s)
  <2>1. serve' = [serve EXCEPT ![p] = x]
    BY <1>1, <1>8 DEF Kick, s
  <2>2. x \in ServeRecord /\ x.adm = s.adm /\ x.actor = s.actor /\ x.second = s.second
        /\ (x.chan = "closed" => s.chan = "closed")
    BY <1>1 DEF ServeRecord, Closing
  <2> HIDE DEF x
  <2>3. PeerBooks(table, p, x)
    BY <1>1, <2>2, SameEnd
  <2> QED
    BY <1>2, <2>1, <2>3, OneEndOnly
<1> QED
  BY <1>4, <1>5, <1>6, <1>7, <1>8

LEMMA NoActor == None \notin Actors /\ Peers \subseteq Actors
  BY Distinct DEF Actors

\* The connection of p is over: its actor is closed if it has one.
LEMMA EndConnectionSteps ==
    ASSUME LedgerInv, NEW p \in Peers, NegotiationTimesOut(p) \/ HostHearsDown(p)
    PROVE  LedgerInv'
<1> DEFINE s == serve[p]
           x == [s EXCEPT !.pc = "none"]
           u == TriggerClose(table, p, p)
<1>1. PeerBooks(table, p, s) /\ s \in ServeRecord /\ serve = [q \in Peers |-> serve[q]] /\ TableBooks(table)
  BY DEF LedgerInv, PeerBooks
<1>2. serve' = [serve EXCEPT ![p] = x] /\ table' = CloseActorOf(table, p)
  BY <1>1 DEF NegotiationTimesOut, HostHearsDown
<1> HIDE DEF s
<1>3. x \in ServeRecord /\ x.adm = s.adm /\ x.actor = s.actor /\ x.chan = s.chan /\ x.second = s.second
  BY <1>1 DEF ServeRecord
<1> HIDE DEF x
<1>4. PeerBooks(table, p, x)
  BY <1>1, <1>3, SameEnd
<1>5. CASE table.peerToActor[p] = None
  <2>1. table' = table
    BY <1>2, <1>5 DEF CloseActorOf
  <2> QED
    BY <1>2, <1>4, <2>1, OneEndOnly
<1>6. CASE table.peerToActor[p] # None
  <2>1. table.peerToActor[p] = p /\ table.channels[p] = p
    BY <1>1, <1>6 DEF TableBooks
  <2>2. table' = u
    BY <1>2, <1>6, <2>1 DEF CloseActorOf
  <2>3. /\ TableBooks(u) /\ u.channels[p] = None
        /\ \A q \in Peers \ {p} : u.channels[q] = table.channels[q] /\ (q \in u.closed <=> q \in table.closed)
    BY <1>1, CloseBooks
  <2> HIDE DEF u
  <2>4. x.adm = "in"
    BY <1>4, <2>1 DEF PeerBooks
  <2>5. PeerBooks(u, p, x)
    BY <1>4, <2>3, <2>4, Distinct, SamePeerBooks
  <2> QED
    BY <1>2, <2>2, <2>3, <2>5, OneEnd
<1> QED
  BY <1>5, <1>6

LEMMA HostHearsCloseStep ==
    ASSUME LedgerInv, NEW p \in Peers, HostHearsClose(p)
    PROVE  LedgerInv'
<1> DEFINE s == serve[p]
           x == [s EXCEPT !.chan = "closed"]
           u == TriggerClose(table, p, p)
<1>1. PeerBooks(table, p, s) /\ s \in ServeRecord /\ serve = [q \in Peers |-> serve[q]] /\ TableBooks(table)
  BY DEF LedgerInv, PeerBooks
<1>2. /\ serve' = [serve EXCEPT ![p] = x]
      /\ table' = IF s.actor = None THEN table ELSE TriggerClose(table, s.actor, p)
  BY <1>1 DEF HostHearsClose
<1> HIDE DEF s
<1>3. x \in ServeRecord /\ x.adm = s.adm /\ x.actor = s.actor /\ x.second = s.second
  BY <1>1 DEF ServeRecord
<1> HIDE DEF x
<1>4. CASE s.actor = None
  <2>1. table' = table
    BY <1>2, <1>4
  <2>2. s.adm # "in"
    BY <1>1, <1>4, Distinct DEF PeerBooks
  <2>3. PeerBooks(table, p, x)
    BY <1>1, <1>3, <2>2 DEF PeerBooks
  <2> QED
    BY <1>2, <2>1, <2>3, OneEndOnly
<1>5. CASE s.actor # None
  <2>1. s.actor = p /\ s.adm = "in"
    BY <1>1, <1>5 DEF PeerBooks
  <2>2. table' = u
    BY <1>2, <1>5, <2>1
  <2>3. /\ TableBooks(u) /\ u.channels[p] = None
        /\ \A q \in Peers \ {p} : u.channels[q] = table.channels[q] /\ (q \in u.closed <=> q \in table.closed)
    BY <1>1, CloseBooks
  <2> HIDE DEF u
  <2>4. PeerBooks(u, p, x)
    BY <1>1, <1>3, <2>1, <2>3, Distinct DEF PeerBooks
  <2> QED
    BY <1>2, <2>2, <2>3, <2>4, OneEnd
<1> QED
  BY <1>4, <1>5

\* grantAccess resolves, and the channel is still there or it is not.
LEMMA GrantStep ==
    ASSUME ~StableIds, LedgerInv, NEW p \in Peers, Grant(p)
    PROVE  LedgerInv'
<1> DEFINE s == serve[p]
           la == table.layer \cup {p}
           joined == [table EXCEPT !.layer = la]
           extra == p \in table.pending
<1>1. PeerBooks(table, p, s) /\ s \in ServeRecord /\ serve = [q \in Peers |-> serve[q]] /\ TableBooks(table)
  BY DEF LedgerInv, PeerBooks
<1>2. ActorId(p) = p
  BY DEF ActorId
<1>3. s.adm = "granting" /\ p \notin table.closed
  BY <1>1 DEF Grant, PeerBooks
<1>4. table \in TableRecord /\ table.channels[p] = None
  BY <1>1, <1>3, NoActor DEF TableBooks, PeerBooks
<1>5. CASE s.chan = "closed"
  <2> DEFINE x == [s EXCEPT !.adm = "over"]
             u == TriggerClose(table, p, p)
  <2>1. serve' = [serve EXCEPT ![p] = x] /\ table' = TriggerClose(joined, p, p)
    BY <1>1, <1>2, <1>5 DEF Grant, ClosedMeanwhile
  <2>2. TriggerClose(joined, p, p) = u
    <3>1. p \notin table.layer
      BY <1>1, <1>4 DEF TableBooks
    <3>2. la \ {p} = table.layer \ {p}
      OBVIOUS
    <3> QED
      BY <1>3, <1>4, <3>1, <3>2 DEF TriggerClose, TableRecord
  <2>3. /\ TableBooks(u) /\ u.channels[p] = None
        /\ \A q \in Peers \ {p} : u.channels[q] = table.channels[q] /\ (q \in u.closed <=> q \in table.closed)
    BY <1>1, CloseBooks
  <2> HIDE DEF u, s, joined
  <2>4. x \in ServeRecord /\ x.adm = "over" /\ x.actor = s.actor /\ x.second = s.second
    BY <1>1 DEF ServeRecord
  <2> HIDE DEF x
  <2>5. PeerBooks(u, p, x)
    BY <1>1, <1>3, <2>3, <2>4, Distinct DEF PeerBooks
  <2> QED
    BY <2>1, <2>2, <2>3, <2>5, OneEnd
<1>6. CASE s.chan # "closed"
  <2> DEFINE sec == IF extra THEN "wired" ELSE s.second
             x == [s EXCEPT !.adm = "in", !.actor = p, !.second = sec]
             un == IF extra THEN p ELSE table.unreliable[p]
             u == [joined EXCEPT !.channels[p] = p, !.peerToActor[p] = p,
                                 !.pending = @ \ {p}, !.unreliable[p] = un]
  <2>1. serve' = [serve EXCEPT ![p] = x]
    BY <1>1, <1>2, <1>6 DEF Grant, ClosedMeanwhile
  <2>2. table' = u
    BY <1>1, <1>2, <1>4, <1>6, NoActor DEF Grant, ClosedMeanwhile, TableRecord
  <2>3. /\ u.closed = table.closed /\ u.channels = [table.channels EXCEPT ![p] = p]
        /\ u.peerToActor = [table.peerToActor EXCEPT ![p] = p] /\ u.pending = table.pending \ {p}
        /\ u.unreliable = [table.unreliable EXCEPT ![p] = un] /\ u.layer = table.layer \cup {p}
    BY <1>4 DEF TableRecord
  <2>4. u \in TableRecord
    <3> DEFINE ch == [table.channels EXCEPT ![p] = p]
               pa == [table.peerToActor EXCEPT ![p] = p]
               pe == table.pending \ {p}
               ul == [table.unreliable EXCEPT ![p] = un]
    <3>1. u = [table EXCEPT !.channels = ch, !.peerToActor = pa, !.pending = pe,
                            !.unreliable = ul, !.layer = la]
      BY <1>4 DEF TableRecord
    <3>2. /\ ch \in [Actors -> Peers \cup {None}]
          /\ pa \in [Peers -> Actors \cup {None}] /\ pe \in SUBSET Peers
          /\ ul \in [Actors -> Peers \cup {None}] /\ la \in SUBSET Actors
      BY <1>4, NoActor DEF TableRecord
    <3> HIDE DEF u, ch, pa, pe, ul, la
    <3> QED
      BY <1>4, <3>1, <3>2 DEF TableRecord
  <2>5. un \in {p, None}
    BY <1>1, <1>4, NoActor DEF TableBooks
  <2> HIDE DEF u, s, un
  <2>6. TableBooks(u)
    BY <1>1, <1>3, <1>4, <2>3, <2>4, <2>5, NoActor DEF TableBooks, TableRecord
  <2>7. x \in ServeRecord /\ x.adm = "in" /\ x.actor = p /\ x.chan = s.chan
    BY <1>1, NoActor DEF ServeRecord
  <2> HIDE DEF x
  <2>8. PeerBooks(u, p, x)
    BY <1>6, <2>7 DEF PeerBooks
  <2>9. \A q \in Peers \ {p} : u.channels[q] = table.channels[q] /\ (q \in u.closed => q \in table.closed)
    BY <1>4, <2>3, NoActor DEF TableRecord
  <2> QED
    BY <2>1, <2>2, <2>6, <2>8, <2>9, OneEnd
<1> QED
  BY <1>5, <1>6

LEMMA SecondSteps ==
    ASSUME LedgerInv, NEW p \in Peers, SecondChannel(p) \/ SecondCloses(p)
    PROVE  LedgerInv'
<1> DEFINE s == serve[p]
<1>1. PeerBooks(table, p, s) /\ s \in ServeRecord /\ serve = [q \in Peers |-> serve[q]] /\ TableBooks(table)
  BY DEF LedgerInv, PeerBooks
<1>2. table \in TableRecord
  BY <1>1 DEF TableBooks
<1>3. PICK c \in {"waiting", "wired", "over"} :
        /\ serve' = [serve EXCEPT ![p] = [s EXCEPT !.second = c]]
        /\ c = "wired" => table.peerToActor[p] # None
        /\ \/ c = "waiting" /\ table' = [table EXCEPT !.pending = table.pending \cup {p}]
           \/ c = "wired" /\ table' = [table EXCEPT !.unreliable[table.peerToActor[p]] = p]
           \/ c = "over" /\ s.second = "wired" /\ table' = [table EXCEPT !.unreliable[s.actor] = None]
  BY <1>1 DEF SecondChannel, SecondCloses
<1> DEFINE x == [s EXCEPT !.second = c]
<1> HIDE DEF s
<1>4. x \in ServeRecord /\ x.adm = s.adm /\ x.actor = s.actor /\ x.chan = s.chan /\ x.second = c
  BY <1>1 DEF ServeRecord
<1>5. table.peerToActor[p] # None => table.peerToActor[p] = p /\ table.channels[p] = p /\ s.adm = "in"
  BY <1>1 DEF TableBooks, PeerBooks
<1>6. s.second = "wired" => s.actor = p
  BY <1>1 DEF PeerBooks
<1>7. serve' = [serve EXCEPT ![p] = x]
  BY <1>3
<1> HIDE DEF x
<1>8. PeerBooks(table, p, x)
  BY <1>1, <1>3, <1>4, <1>5 DEF PeerBooks
<1>9. TableBooks(table') /\ table'.channels = table.channels /\ table'.closed = table.closed
  <2>1. CASE c = "waiting"
    <3> DEFINE pe == table.pending \cup {p}
    <3>1. table' = [table EXCEPT !.pending = pe] /\ pe \in SUBSET Peers
      BY <1>2, <1>3, <2>1 DEF TableRecord
    <3> HIDE DEF pe
    <3> QED
      BY <1>1, <1>2, <3>1 DEF TableBooks, TableRecord
  <2>2. CASE c \in {"wired", "over"}
    <3>1. PICK v \in {p, None} : /\ table' = [table EXCEPT !.unreliable[p] = v]
                                 /\ v = p => table.channels[p] = p
      BY <1>3, <1>5, <1>6, <2>2, Distinct
    <3> DEFINE un == [table.unreliable EXCEPT ![p] = v]
    <3>2. table' = [table EXCEPT !.unreliable = un] /\ un \in [Actors -> Peers \cup {None}]
      BY <1>2, <3>1, NoActor DEF TableRecord
    <3>3. \A a \in Actors : un[a] # None => un[a] = a /\ table.channels[a] = a
      BY <1>1, <1>2, <3>1, NoActor DEF TableBooks, TableRecord
    <3> HIDE DEF un
    <3>4. /\ table' \in TableRecord /\ table'.unreliable = un /\ table'.channels = table.channels
          /\ table'.closed = table.closed /\ table'.peerToActor = table.peerToActor
          /\ table'.layer = table.layer
      BY <1>2, <3>2 DEF TableRecord
    <3> QED
      BY <1>1, <3>3, <3>4 DEF TableBooks
  <2> QED
    BY <1>3, <2>1, <2>2
<1>10. PeerBooks(table', p, x)
  BY <1>8, <1>9, SamePeerBooks
<1> QED
  BY <1>7, <1>9, <1>10, OneEnd

LEMMA DisposeBooks ==
    ASSUME LedgerInv, Dispose
    PROVE  LedgerInv'
<1> DEFINE open == {a \in Actors : table.channels[a] # None}
           Ours(p) == \E a \in open : table.channels[a] = p
           e(p) == IF Ours(p) THEN Closing(serve[p]) ELSE serve[p]
           x(p) == [e(p) EXCEPT !.pc = "none"]
           ch == [a \in Actors |-> None]
           pa == [p \in Peers |-> None]
           cl == table.closed \cup open
           la == table.layer \ open
<1>1. /\ table' = [table EXCEPT !.channels = ch, !.peerToActor = pa, !.closed = cl, !.pending = {},
                                !.unreliable = ch, !.layer = la]
      /\ serve' = [p \in Peers |-> x(p)]
  BY DEF Dispose
<1>2. table \in TableRecord /\ TableBooks(table)
  BY DEF LedgerInv, TableBooks
<1>3. /\ ch \in [Actors -> Peers \cup {None}] /\ pa \in [Peers -> Actors \cup {None}]
      /\ cl \in SUBSET Actors /\ la = {} /\ la \in SUBSET Actors
  BY <1>2 DEF TableBooks, TableRecord
<1>4. \A p \in Peers : PeerBooks(table, p, serve[p]) /\ serve[p] \in ServeRecord
  BY DEF LedgerInv, PeerBooks
<1>5. \A p \in open : p \in Peers /\ table.channels[p] = p
  BY <1>2 DEF TableBooks
<1>6. (\A a \in Actors : ch[a] = None) /\ (\A p \in Peers : pa[p] = None)
  OBVIOUS
<1> HIDE DEF ch, pa, la
<1>7. /\ table' \in TableRecord /\ table'.channels = ch /\ table'.peerToActor = pa /\ table'.closed = cl
      /\ table'.unreliable = ch /\ table'.layer = la
  <2> HIDE DEF cl
  <2> QED
    BY <1>1, <1>2, <1>3 DEF TableRecord
<1>8. TableBooks(table')
  BY <1>3, <1>6, <1>7 DEF TableBooks
<1>9. ASSUME NEW p \in Peers
      PROVE  PeerBooks(table', p, x(p))
  <2>1. /\ e(p) \in ServeRecord /\ e(p).adm = serve[p].adm /\ e(p).actor = serve[p].actor
        /\ e(p).chan = "closed" => serve[p].chan = "closed"
        /\ e(p).second = serve[p].second
    <3> HIDE DEF Ours
    <3> QED
      BY <1>4 DEF Closing, ServeRecord
  <2> DEFINE y == e(p)
             z == [y EXCEPT !.pc = "none"]
  <2>2. y \in ServeRecord
    BY <2>1
  <2> HIDE DEF y
  <2>3. z \in ServeRecord /\ z.adm = y.adm /\ z.actor = y.actor /\ z.chan = y.chan /\ z.second = y.second
    BY <2>2 DEF ServeRecord
  <2>4. x(p) = z
    BY DEF y
  <2> HIDE DEF z
  <2>5. PeerBooks(table, p, z)
    BY <1>4, <2>1, <2>3, SameEnd DEF y
  <2>6. p \in open => z.adm = "in"
    BY <1>5, <2>5 DEF PeerBooks
  <2>7. table'.channels[p] # p /\ (p \in table'.closed => p \in table.closed \/ p \in open)
    BY <1>6, <1>7, NoActor
  <2>8. p \in table'.closed => p \in table.closed \/ z.adm \notin {"none", "ticket", "granting"}
    BY <2>6, <2>7
  <2>9. PeerBooks(table', p, z)
    BY <2>5, <2>7, <2>8, SamePeerBooks
  <2> QED
    BY <2>4, <2>9
<1> HIDE DEF x
<1>10. serve' = [p \in Peers |-> serve'[p]] /\ \A p \in Peers : serve'[p] = x(p)
  BY <1>1
<1> QED
  BY <1>8, <1>9, <1>10 DEF LedgerInv

LEMMA LedgerKept ==
    ASSUME LedgerInv, serve' = serve, table' = table
    PROVE  LedgerInv'
  BY DEF LedgerInv

LEMMA LedgerInit == Init => LedgerInv
<1> SUFFICES ASSUME Init PROVE LedgerInv
  OBVIOUS
<1>1. TableBooks(table)
  BY NoActor DEF Init, EmptyTable, TableBooks, TableRecord
<1>2. \A p \in Peers : PeerBooks(table, p, serve[p])
  BY NoActor, Distinct DEF Init, EmptyTable, PeerBooks, ServeRecord
<1>3. serve = [p \in Peers |-> serve[p]]
  BY DEF Init
<1> QED
  BY <1>1, <1>2, <1>3 DEF LedgerInv

LEMMA LedgerStep == ~StableIds /\ LedgerInv /\ [Next]_vars => LedgerInv'
<1> SUFFICES ASSUME ~StableIds, LedgerInv, [Next]_vars PROVE LedgerInv'
  OBVIOUS
<1>1. ASSUME NEW c \in Clients,
             Connect(c) \/ Disconnect(c) \/ TimerFires(c) \/ TicketArrives(c) \/ TicketFails(c)
      PROVE  LedgerInv'
  BY <1>1, LedgerKept DEF Connect, Disconnect, TimerFires, TicketArrives, TicketFails
<1>2. ASSUME NEW p \in Peers,
             \/ SignalUp(p) \/ SignalLost(p) \/ HearSignal(p) \/ SendOffer(p) \/ IceEnds(p) \/ NetworkCut(p)
             \/ ChannelOpens(p) \/ HearKick(p) \/ HearDown(p) \/ LateEvent(p)
      PROVE  LedgerInv'
  BY <1>2, LedgerKept DEF SignalUp, SignalLost, HearSignal, SendOffer, IceEnds, NetworkCut, ChannelOpens,
       HearKick, HearDown, LateEvent
<1>3. ASSUME NEW p \in Peers,
             \/ HearOffer(p) \/ SendAnswer(p) \/ HostConnected(p) \/ NegotiationTimesOut(p)
             \/ HostHearsDown(p) \/ HostChannel(p) \/ HearTicket(p) \/ Refuse(p) \/ Grant(p)
             \/ HostHearsClose(p) \/ SecondChannel(p) \/ SecondCloses(p) \/ Kick(p)
      PROVE  LedgerInv'
  BY <1>3, EndSteps, EndConnectionSteps, HostHearsCloseStep, GrantStep, SecondSteps
<1>4. CASE HostConnects \/ HostSignalLost
  BY <1>4, LedgerKept DEF HostConnects, HostSignalLost
<1>5. CASE Dispose
  BY <1>5, DisposeBooks
<1>6. CASE UNCHANGED vars
  BY <1>6, LedgerKept DEF vars
<1> QED
  BY <1>1, <1>2, <1>3, <1>4, <1>5, <1>6 DEF Next

-----------------------------------------------------------------------------
(* The signaling room.                                                     *)

Message == {"welcome", "elected", "answer"} \X (Peers \cup {Host, None})

Ears(q) == IsPeer(q) /\ q.inbox \in Seq(Message)

\* Whoever is behind q has been told, or will be, that h is the host.
Heard(q, h) ==
    \/ News(q) = {} /\ q.view = h
    \/ \E i \in News(q) : (\A j \in News(q) : j <= i) /\ q.inbox[i][2] = h

Has(s, id) == \E i \in DOMAIN s : s[i] = id

Once(s) == \A i, j \in DOMAIN s : s[i] = s[j] => i = j

\* The senior member is the host.
RoomOK(r) ==
    /\ r.order \in Seq(Peers \cup {Host}) /\ Once(r.order)
    /\ r.host = IF r.order = <<>> THEN None ELSE Head(r.order)

\* Members, but for one that is about to go, know the host.
PeersOK(r, f, out) ==
    \A p \in Peers :
        /\ Ears(f[p])
        /\ p = out => f[p].sig # "in"
        /\ p # out => (f[p].sig = "in" <=> Has(r.order, p)) /\ (f[p].sig = "in" => Heard(f[p], r.host))

RoomInv ==
    /\ RoomOK(room) /\ PeersOK(room, peer, None)
    /\ hosting.signal = "off" => ~Has(room.order, Host)

LEMMA HeardIsLast ==
    ASSUME NEW q, Ears(q), NEW h, Heard(q, h)
    PROVE  LastTold(q) = h
<1>1. News(q) \subseteq Nat
  BY DEF Ears, News
<1>2. CASE News(q) = {}
  BY <1>2 DEF Heard, LastTold
<1>3. CASE News(q) # {}
  <2>1. PICK i \in News(q) : (\A j \in News(q) : j <= i) /\ q.inbox[i][2] = h
    BY <1>3 DEF Heard
  <2>2. Latest(q) \in News(q) /\ \A j \in News(q) : j <= Latest(q)
    BY <2>1 DEF Latest
  <2>3. Latest(q) = i
    BY <1>1, <2>1, <2>2
  <2> QED
    BY <1>3, <2>1, <2>3 DEF LastTold
<1> QED
  BY <1>2, <1>3

LEMMA RoomProperty == RoomInv => RoomAgrees
<1> SUFFICES ASSUME RoomInv PROVE RoomAgrees
  OBVIOUS
<1>1. \A p \in Peers : p # None
  BY Distinct
<1>2. \A p \in Peers : Ears(peer[p]) /\ (peer[p].sig = "in" <=> Has(room.order, p))
                       /\ (peer[p].sig = "in" => Heard(peer[p], room.host))
  BY <1>1 DEF RoomInv, PeersOK
<1> QED
  BY <1>2, HeardIsLast DEF RoomInv, RoomOK, RoomAgrees, InRoom, Has

\* An actor leaves: the others stay, in their order.
LEMMA WithoutIs ==
    ASSUME NEW S, NEW s \in Seq(S), Once(s), NEW id
    PROVE  LET t == Without(s, id) IN
           /\ t \in Seq(S) /\ Once(t)
           /\ \A x : Has(t, x) <=> Has(s, x) /\ x # id
           /\ s # <<>> /\ Head(s) # id => t # <<>> /\ Head(t) = Head(s)
           /\ s = <<>> => t = <<>>
<1> DEFINE places == {i \in DOMAIN s : s[i] = id}
           k == CHOOSE i \in places : TRUE
           t == [i \in 1..Len(s) - 1 |-> s[IF i < k THEN i ELSE i + 1]]
<1>1. s \in [1..Len(s) -> S] /\ Len(s) \in Nat /\ DOMAIN s = 1..Len(s)
  OBVIOUS
<1>2. CASE places = {}
  <2>1. Without(s, id) = s
    BY <1>2 DEF Without
  <2>2. \A x : Has(s, x) => x # id
    BY <1>2 DEF Has
  <2> QED
    BY <2>1, <2>2
<1>3. CASE places # {}
  <2>1. Without(s, id) = t
    BY <1>3 DEF Without
  <2>2. k \in 1..Len(s) /\ s[k] = id
    BY <1>1, <1>3
  <2> HIDE DEF k
  <2>3. \A i \in 1..Len(s) - 1 : (IF i < k THEN i ELSE i + 1) \in 1..Len(s)
    BY <1>1
  <2>4. Len(s) - 1 \in Nat /\ t \in [1..Len(s) - 1 -> S]
    BY <1>1, <2>2, <2>3
  <2>5. t \in Seq(S) /\ Len(t) = Len(s) - 1 /\ DOMAIN t = 1..Len(s) - 1
    BY <2>4
  <2>6. \A i \in 1..Len(s) - 1 : t[i] = s[IF i < k THEN i ELSE i + 1]
    OBVIOUS
  <2> HIDE DEF t
  <2>7. Once(t)
    <3> SUFFICES ASSUME NEW i \in 1..Len(s) - 1, NEW j \in 1..Len(s) - 1, t[i] = t[j] PROVE i = j
      BY <2>5 DEF Once
    <3>1. (IF i < k THEN i ELSE i + 1) = (IF j < k THEN j ELSE j + 1)
      BY <1>1, <2>3, <2>6 DEF Once
    <3> QED
      BY <1>1, <2>2, <3>1
  <2>8. ASSUME NEW x PROVE Has(t, x) <=> Has(s, x) /\ x # id
    <3>1. Has(t, x) => Has(s, x) /\ x # id
      BY <1>1, <2>2, <2>3, <2>5, <2>6 DEF Has, Once
    <3>2. ASSUME NEW i \in 1..Len(s), s[i] # id
          PROVE  \E j \in 1..Len(s) - 1 : t[j] = s[i]
      <4>1. CASE i < k
        <5>1. i \in 1..Len(s) - 1 /\ t[i] = s[i]
          BY <1>1, <2>2, <2>6, <4>1
        <5> QED
          BY <5>1
      <4>2. CASE ~(i < k)
        <5>1. i - 1 \in 1..Len(s) - 1 /\ ~(i - 1 < k) /\ (i - 1) + 1 = i
          BY <1>1, <2>2, <3>2, <4>2
        <5>2. t[i - 1] = s[i]
          BY <2>6, <5>1
        <5> QED
          BY <5>1, <5>2
      <4> QED
        BY <4>1, <4>2
    <3> QED
      BY <1>1, <2>5, <3>1, <3>2 DEF Has
  <2>9. s # <<>> /\ Head(s) # id => t # <<>> /\ Head(t) = Head(s)
    <3> SUFFICES ASSUME s # <<>>, Head(s) # id PROVE t # <<>> /\ Head(t) = Head(s)
      OBVIOUS
    <3>1. Head(s) = s[1] /\ k # 1 /\ k > 1 /\ Len(s) - 1 >= 1
      BY <1>1, <2>2
    <3>2. t[1] = s[1] /\ t # <<>>
      BY <2>5, <2>6, <3>1
    <3> QED
      BY <2>5, <3>1, <3>2
  <2> QED
    BY <1>1, <2>1, <2>2, <2>5, <2>7, <2>8, <2>9
<1> QED
  BY <1>2, <1>3

LEMMA Somebody == None \notin Peers \cup {Host} /\ Host \notin Peers
  BY RtcAssumption DEF Peers

LEMMA ElectOK ==
    ASSUME NEW r, RoomOK(r), NEW id \in Peers \cup {Host}
    PROVE  LET v == Elect(r, id) IN
           /\ RoomOK(v) /\ \A x : Has(v.order, x) <=> Has(r.order, x) /\ x # id
           /\ id # r.host => v.host = r.host
           /\ v.host \in Peers \cup {Host, None}
           /\ v.host = None => v.order = <<>>
<1> DEFINE t == Without(r.order, id)
           h == IF id # r.host THEN r.host ELSE IF t = <<>> THEN None ELSE Head(t)
<1>1. /\ t \in Seq(Peers \cup {Host}) /\ Once(t)
      /\ \A x : Has(t, x) <=> Has(r.order, x) /\ x # id
      /\ r.order # <<>> /\ Head(r.order) # id => t # <<>> /\ Head(t) = Head(r.order)
      /\ r.order = <<>> => t = <<>>
  BY WithoutIs DEF RoomOK
<1>2. Elect(r, id) = [order |-> t, host |-> h]
  BY DEF Elect
<1> HIDE DEF t
<1>3. h = IF t = <<>> THEN None ELSE Head(t)
  BY <1>1, Somebody DEF RoomOK
<1>4. t # <<>> => Head(t) \in Peers \cup {Host}
  BY <1>1
<1> HIDE DEF h
<1>5. id # r.host => h = r.host
  BY DEF h
<1> QED
  BY <1>1, <1>2, <1>3, <1>4, <1>5, Somebody DEF RoomOK

LEMMA JoinedOK ==
    ASSUME NEW r, RoomOK(r), NEW id \in Peers \cup {Host}, ~Has(r.order, id)
    PROVE  LET v == Joined(r, id) IN
           /\ RoomOK(v) /\ \A x : Has(v.order, x) <=> Has(r.order, x) \/ x = id
           /\ v.host \in Peers \cup {Host}
           /\ \A x : Has(r.order, x) => v.host = r.host
<1> DEFINE s == r.order
           t == Append(s, id)
           h == IF r.host = None THEN id ELSE r.host
<1>1. Joined(r, id) = [order |-> t, host |-> h]
  BY DEF Joined
<1>2. s \in Seq(Peers \cup {Host}) /\ Once(s) /\ Len(s) \in Nat /\ DOMAIN s = 1..Len(s)
  BY DEF RoomOK
<1>3. ~Has(s, id)
  OBVIOUS
<1>4. r.host = IF s = <<>> THEN None ELSE Head(s)
  BY DEF RoomOK
<1> HIDE DEF s
<1>5. /\ t \in Seq(Peers \cup {Host}) /\ t # <<>> /\ DOMAIN t = 1..Len(s) + 1 /\ t[Len(s) + 1] = id
      /\ \A i \in 1..Len(s) : t[i] = s[i]
  <2>1. /\ t \in Seq(Peers \cup {Host}) /\ Len(t) = Len(s) + 1 /\ t[Len(s) + 1] = id
        /\ \A i \in 1..Len(s) : t[i] = s[i]
    BY <1>2
  <2> HIDE DEF t
  <2>2. t # <<>> /\ DOMAIN t = 1..Len(s) + 1
    BY <1>2, <2>1
  <2> QED
    BY <2>1, <2>2
<1>6. Once(t)
  BY <1>2, <1>3, <1>5 DEF Once, Has
<1>7. \A x : Has(t, x) <=> Has(s, x) \/ x = id
  <2>1. \A i \in 1..Len(s) : i \in 1..Len(s) + 1
    BY <1>2
  <2>2. Len(s) + 1 \in 1..Len(s) + 1 /\ \A i \in 1..Len(s) + 1 : i \in 1..Len(s) \/ i = Len(s) + 1
    BY <1>2
  <2> QED
    BY <1>2, <1>5, <2>1, <2>2 DEF Has
<1>8. h = Head(t) /\ h \in Peers \cup {Host} /\ (s # <<>> => h = r.host)
  <2>1. CASE s = <<>>
    <3>1. Len(s) = 0
      BY <2>1
    <3>2. h = id /\ t[1] = id /\ Head(t) = t[1]
      BY <1>2, <1>4, <1>5, <2>1, <3>1
    <3> QED
      BY <2>1, <3>2
  <2>2. CASE s # <<>>
    <3>1. Len(s) >= 1 /\ Head(s) = s[1] /\ s[1] \in Peers \cup {Host}
      BY <1>2, <2>2
    <3>2. Head(t) = t[1] /\ t[1] = s[1]
      BY <1>2, <1>5, <3>1
    <3>3. h = r.host /\ r.host = Head(s)
      BY <1>4, <2>2, <3>1, Somebody
    <3> QED
      BY <3>1, <3>2, <3>3
  <2> QED
    BY <2>1, <2>2
<1>9. \A x : Has(s, x) => s # <<>>
  BY <1>2 DEF Has
<1> HIDE DEF t, h
<1> QED
  BY <1>1, <1>5, <1>6, <1>7, <1>8, <1>9 DEF RoomOK, s

\* A message at the end of an inbox is the last that counts, unless it is an answer.
LEMMA AppendHeard ==
    ASSUME NEW q, Ears(q), NEW m \in Message
    PROVE  LET x == [q EXCEPT !.inbox = Append(q.inbox, m)] IN
           /\ Ears(x) /\ x.sig = q.sig
           /\ m[1] # "answer" => Heard(x, m[2])
           /\ m[1] = "answer" => \A h : Heard(q, h) => Heard(x, h)
<1> DEFINE s == q.inbox
           b == Append(s, m)
           x == [q EXCEPT !.inbox = b]
<1>1. s \in Seq(Message) /\ Len(s) \in Nat /\ DOMAIN s = 1..Len(s)
  BY DEF Ears
<1>2. /\ b \in Seq(Message) /\ DOMAIN b = 1..Len(s) + 1 /\ b[Len(s) + 1] = m
      /\ \A i \in 1..Len(s) : b[i] = s[i]
  BY <1>1
<1> HIDE DEF b
<1>3. IsPeer(x) /\ x.inbox = b /\ x.sig = q.sig /\ x.view = q.view
  BY DEF Ears, IsPeer, PeerFields
<1>4. Ears(x)
  BY <1>2, <1>3 DEF Ears
<1> HIDE DEF x, s
<1>5. News(q) = {i \in 1..Len(s) : s[i][1] # "answer"}
  BY <1>1 DEF News, s
<1>6. News(x) = {i \in 1..Len(s) + 1 : b[i][1] # "answer"}
  BY <1>2, <1>3 DEF News
<1>7. CASE m[1] # "answer"
  <2>1. Len(s) + 1 \in News(x) /\ \A j \in News(x) : j <= Len(s) + 1
    BY <1>1, <1>2, <1>6, <1>7
  <2>2. Heard(x, m[2])
    BY <1>2, <1>3, <2>1 DEF Heard
  <2> QED
    BY <1>3, <1>4, <1>7, <2>2 DEF b, x, s
<1>8. CASE m[1] = "answer"
  <2>1. News(x) = News(q)
    BY <1>1, <1>2, <1>5, <1>6, <1>8
  <2>2. \A i \in News(q) : x.inbox[i] = q.inbox[i]
    BY <1>2, <1>3, <1>5 DEF s
  <2>3. \A h : Heard(q, h) => Heard(x, h)
    BY <1>3, <2>1, <2>2 DEF Heard
  <2> QED
    BY <1>3, <1>4, <1>8, <2>3 DEF b, x, s
<1> QED
  BY <1>7, <1>8

\* A message that is heard moves from what is on its way to what is known.
LEMMA SignalHeard ==
    ASSUME NEW q, Ears(q), q.inbox # <<>>, NEW p
    PROVE  LET x == OnSignal(q, p) IN
           /\ Ears(x) /\ x.sig = q.sig
           /\ \A h : Heard(q, h) => Heard(x, h)
<1> DEFINE s == q.inbox
           b == Tail(s)
           kind == Head(s)[1]
           host == Head(s)[2]
           rest == [q EXCEPT !.inbox = b]
           x == OnSignal(q, p)
<1>1. s \in Seq(Message) /\ Len(s) \in Nat \ {0} /\ DOMAIN s = 1..Len(s) /\ Head(s) = s[1]
  BY DEF Ears
<1>2. /\ b \in Seq(Message) /\ DOMAIN b = 1..Len(s) - 1
      /\ \A i \in 1..Len(s) - 1 : b[i] = s[i + 1]
  BY <1>1
<1>3. kind = s[1][1] /\ host = s[1][2]
  BY <1>1
<1>4. PICK v, c : x = [rest EXCEPT !.view = v, !.pc = c] /\ v = (IF kind = "answer" THEN q.view ELSE host)
  <2> DEFINE c1 == IF host \in {None, p} THEN "none" ELSE "new"
             c2 == IF rest.pc = "offered" THEN "answered" ELSE rest.pc
  <2>1. rest.view = q.view /\ IsPeer(rest)
    BY DEF Ears, IsPeer, PeerFields
  <2>2. CASE kind = "welcome"
    <3>1. x = [rest EXCEPT !.view = host, !.pc = c1]
      BY <2>2 DEF OnSignal
    <3> QED
      BY <2>2, <3>1
  <2>3. CASE kind = "elected"
    <3>1. x = [rest EXCEPT !.view = host]
      BY <2>3 DEF OnSignal
    <3> HIDE DEF rest, x
    <3>2. x = [rest EXCEPT !.view = host, !.pc = rest.pc]
      BY <2>1, <3>1 DEF IsPeer, PeerFields
    <3> QED
      BY <2>3, <3>2
  <2>4. CASE kind = "answer"
    <3>1. x = [rest EXCEPT !.pc = c2]
      BY <2>4 DEF OnSignal
    <3> HIDE DEF rest, x, c2
    <3>2. x = [rest EXCEPT !.view = q.view, !.pc = c2]
      BY <2>1, <3>1 DEF IsPeer, PeerFields
    <3> QED
      BY <2>4, <3>2
  <2>5. kind \in {"welcome", "elected", "answer"}
    BY <1>1, <1>3 DEF Message
  <2> QED
    BY <2>2, <2>3, <2>4, <2>5
<1> HIDE DEF b, kind, host
<1>5. IsPeer(rest) /\ rest.inbox = b /\ rest.sig = q.sig
  BY DEF Ears, IsPeer, PeerFields
<1> HIDE DEF rest, x
<1>6. IsPeer(x) /\ x.inbox = b /\ x.sig = q.sig /\ x.view = v
  BY <1>4, <1>5 DEF IsPeer, PeerFields
<1>7. Ears(x)
  BY <1>2, <1>6 DEF Ears
<1> HIDE DEF s
<1>8. News(q) = {i \in 1..Len(s) : s[i][1] # "answer"}
  BY <1>1 DEF News, s
<1>9. News(x) = {i \in 1..Len(s) - 1 : s[i + 1][1] # "answer"}
  BY <1>2, <1>6 DEF News
<1>10. \A i \in 1..Len(s) - 1 : i \in News(x) <=> i + 1 \in News(q)
  BY <1>1, <1>8, <1>9
<1>11. ASSUME NEW h, Heard(q, h)
       PROVE  Heard(x, h)
  <2>1. CASE News(q) = {}
    <3>1. News(x) = {}
      BY <1>9, <1>10, <2>1
    <3>2. kind = "answer"
      BY <1>1, <1>3, <1>8, <2>1
    <3> QED
      BY <1>4, <1>6, <1>11, <2>1, <3>1, <3>2 DEF Heard
  <2>2. CASE News(q) # {}
    <3>1. PICK i \in News(q) : (\A j \in News(q) : j <= i) /\ q.inbox[i][2] = h
      BY <1>11, <2>2 DEF Heard
    <3>2. CASE i = 1
      <4>1. kind # "answer" /\ host = h
        BY <1>3, <1>8, <3>1, <3>2 DEF s
      <4>2. News(x) = {}
        <5> SUFFICES ASSUME NEW j \in News(x) PROVE FALSE
          OBVIOUS
        <5>1. j \in 1..Len(s) - 1 /\ j + 1 \in News(q)
          BY <1>9, <1>10
        <5> QED
          BY <1>1, <3>1, <3>2, <5>1
      <4> QED
        BY <1>4, <1>6, <4>1, <4>2 DEF Heard
    <3>3. CASE i # 1
      <4>1. i - 1 \in 1..Len(s) - 1 /\ (i - 1) + 1 = i
        BY <1>1, <1>8, <3>3
      <4>2. i - 1 \in News(x)
        BY <1>10, <4>1
      <4>3. \A j \in News(x) : j <= i - 1
        <5> SUFFICES ASSUME NEW j \in News(x) PROVE j <= i - 1
          OBVIOUS
        <5>1. j \in 1..Len(s) - 1 /\ j + 1 \in News(q)
          BY <1>9, <1>10
        <5>2. j + 1 <= i /\ i \in Nat /\ j \in Nat
          BY <1>1, <1>8, <3>1, <5>1
        <5> QED
          BY <5>2
      <4>4. x.inbox[i - 1] = q.inbox[i]
        BY <1>2, <1>6, <4>1 DEF s
      <4> QED
        BY <3>1, <4>2, <4>3, <4>4 DEF Heard
    <3> QED
      BY <3>2, <3>3
  <2> QED
    BY <2>1, <2>2
<1> QED
  BY <1>6, <1>7, <1>11 DEF x

-----------------------------------------------------------------------------
(* Who leaves, and the worlds of handlers.                                 *)

\* id leaves: the others are as before, and know of a new host if it was the host.
LEMMA LeaveOK ==
    ASSUME NEW w, IsWorld(w), NEW id \in Peers \cup {Host}, RoomOK(w.room), PeersOK(w.room, w.peer, id)
    PROVE  LET v == OnLeave(w, id) IN
           /\ RoomOK(v.room) /\ PeersOK(v.room, v.peer, None)
           /\ \A x : Has(v.room.order, x) <=> Has(w.room.order, x) /\ x # id
<1> DEFINE r == Elect(w.room, id)
           Told(p) == id = w.room.host /\ r.host # None /\ w.peer[p].sig = "in"
           m == <<"elected", r.host>>
           f == [p \in Peers |-> IF Told(p)
                   THEN [w.peer[p] EXCEPT !.inbox = Append(@, m)]
                   ELSE w.peer[p]]
<1>1. OnLeave(w, id).room = r /\ OnLeave(w, id).peer = f
  BY DEF OnLeave, IsWorld
<1>2. /\ RoomOK(r) /\ \A x : Has(r.order, x) <=> Has(w.room.order, x) /\ x # id
      /\ id # w.room.host => r.host = w.room.host
      /\ r.host \in Peers \cup {Host, None}
      /\ r.host = None => r.order = <<>>
  BY ElectOK
<1>3. m \in Message /\ m[1] # "answer" /\ m[2] = r.host
  BY <1>2 DEF Message
<1> HIDE DEF r, m
<1>4. ASSUME NEW p \in Peers
      PROVE  /\ Ears(f[p]) /\ (f[p].sig = "in" <=> Has(r.order, p))
             /\ f[p].sig = "in" => Heard(f[p], r.host)
  <2> DEFINE q == w.peer[p]
             x == [q EXCEPT !.inbox = Append(q.inbox, m)]
  <2>1. /\ Ears(q) /\ (p = id => q.sig # "in")
        /\ p # id => (q.sig = "in" <=> Has(w.room.order, p)) /\ (q.sig = "in" => Heard(q, w.room.host))
    BY DEF PeersOK
  <2>2. f[p] = IF Told(p) THEN x ELSE q
    OBVIOUS
  <2>3. Ears(x) /\ x.sig = q.sig /\ Heard(x, r.host)
    BY <1>3, <2>1, AppendHeard
  <2> HIDE DEF q, x, f
  <2>4. q.sig = "in" <=> Has(r.order, p)
    BY <1>2, <2>1
  <2>5. CASE Told(p)
    BY <2>2, <2>3, <2>4, <2>5
  <2>6. CASE ~Told(p)
    <3>1. Has(r.order, p) => r.host # None
      BY <1>2 DEF Has
    <3>2. q.sig = "in" => id # w.room.host
      BY <2>4, <2>6, <3>1 DEF q
    <3> QED
      BY <1>2, <2>1, <2>2, <2>4, <2>6, <3>2
  <2> QED
    BY <2>5, <2>6
<1>5. PeersOK(r, f, None)
  BY <1>4, Somebody DEF PeersOK
<1> QED
  BY <1>1, <1>2, <1>5

SameEars(q, x) == IsPeer(x) /\ x.sig = q.sig /\ x.inbox = q.inbox /\ x.view = q.view

LEMMA SameEarsHear ==
    ASSUME NEW q, NEW x, Ears(q), SameEars(q, x)
    PROVE  Ears(x) /\ \A h : Heard(q, h) => Heard(x, h)
  BY DEF Ears, SameEars, Heard, News

\* A world that is as it should be; the host does not join by itself.
RoomWorld(w) ==
    /\ IsWorld(w) /\ RoomOK(w.room) /\ PeersOK(w.room, w.peer, None)
    /\ Has(w.room.order, Host) => Has(room.order, Host)

LEMMA RoomWorldNow == Shapes /\ RoomInv => RoomWorld(World)
  BY DEF Shapes, RoomInv, RoomWorld, IsWorld, World

LEMMA RoomFromWorld ==
    ASSUME NEW w, RoomWorld(w), RoomInv, room' = w.room, peer' = w.peer,
           hosting'.signal = "off" => hosting.signal = "off"
    PROVE  RoomInv'
  BY DEF RoomWorld, RoomInv

\* One peer of a world changes nothing that others see.
LEMMA OneEarOK ==
    ASSUME NEW w, NEW v, RoomWorld(w), IsWorld(v), v.room = w.room, NEW p \in Peers, NEW x,
           v.peer = [w.peer EXCEPT ![p] = x], SameEars(w.peer[p], x)
    PROVE  RoomWorld(v)
<1>1. \A q \in Peers : Ears(w.peer[q])
  BY DEF RoomWorld, PeersOK
<1>2. v.peer[p] = x /\ \A q \in Peers \ {p} : v.peer[q] = w.peer[q]
  BY DEF RoomWorld, IsWorld, ArePeers
<1>3. Ears(x) /\ (\A h : Heard(w.peer[p], h) => Heard(x, h)) /\ x.sig = w.peer[p].sig
  BY <1>1, SameEarsHear DEF SameEars
<1> QED
  BY <1>2, <1>3 DEF RoomWorld, PeersOK

LEMMA SignalOverOK ==
    ASSUME NEW w, RoomWorld(w), NEW p \in Peers
    PROVE  RoomWorld(SignalOver(w, p))
<1> DEFINE x == [w.peer[p] EXCEPT !.sig = "gone", !.inbox = <<>>, !.view = None]
           v == [w EXCEPT !.peer[p].sig = "gone", !.peer[p].inbox = <<>>, !.peer[p].view = None]
<1>1. IsWorld(w) /\ IsPeer(w.peer[p]) /\ w.peer = [q \in Peers |-> w.peer[q]] /\ \A q \in Peers : IsPeer(w.peer[q])
  BY DEF RoomWorld, IsWorld, ArePeers
<1>2. v.room = w.room /\ v.link = w.link /\ v.peer = [w.peer EXCEPT ![p] = x]
  BY <1>1 DEF IsWorld, ArePeers
<1>3. v = [f \in {"room", "peer", "link"} |-> v[f]]
  BY <1>1 DEF IsWorld
<1>4. SignalOver(w, p) = OnLeave(v, p)
  BY DEF SignalOver
<1>5. IsPeer(x) /\ x.inbox = <<>> /\ x.sig = "gone"
  BY <1>1 DEF IsPeer, PeerFields
<1> HIDE DEF v, x
<1>6. v.peer[p] = x /\ \A q \in Peers \ {p} : v.peer[q] = w.peer[q]
  BY <1>1, <1>2
<1>7. IsWorld(v)
  BY <1>1, <1>2, <1>3, <1>5, <1>6 DEF IsWorld, ArePeers
<1>8. Ears(x)
  BY <1>5 DEF Ears
<1>9. RoomOK(v.room) /\ PeersOK(v.room, v.peer, p)
  BY <1>2, <1>5, <1>6, <1>8, Somebody DEF RoomWorld, PeersOK
<1>10. /\ RoomOK(OnLeave(v, p).room) /\ PeersOK(OnLeave(v, p).room, OnLeave(v, p).peer, None)
       /\ Has(OnLeave(v, p).room.order, Host) => Has(v.room.order, Host)
       /\ IsWorld(OnLeave(v, p))
  BY <1>7, <1>9, LeaveOK, LeaveLooks
<1> QED
  BY <1>2, <1>4, <1>10 DEF RoomWorld

LEMMA HangUpOK ==
    ASSUME NEW w, RoomWorld(w), NEW p \in Peers
    PROVE  RoomWorld(HangUp(w, p))
<1> DEFINE y == w.peer[p]
           x == [y EXCEPT !.pc = IF @ = "none" THEN @ ELSE "closed",
                          !.frame = FALSE,
                          !.offer = IF @ = "lost" THEN "none" ELSE @,
                          !.late = @ \/ Alive(y)]
           cut == IF w.link[p] = "up" THEN "cut" ELSE w.link[p]
           v == [w EXCEPT !.peer[p] = x, !.link[p] = cut]
<1>1. IsWorld(w) /\ IsPeer(y) /\ w.peer = [q \in Peers |-> w.peer[q]] /\ \A q \in Peers : IsPeer(w.peer[q])
  BY DEF RoomWorld, IsWorld, ArePeers
<1>2. HangUp(w, p) = SignalOver(v, p)
  BY DEF HangUp
<1>3. SameEars(y, x)
  <2> HIDE DEF y
  <2> QED
    BY <1>1 DEF IsPeer, PeerFields, SameEars
<1> HIDE DEF x, cut
<1>4. /\ v.room = w.room /\ v.peer = [w.peer EXCEPT ![p] = x]
      /\ v = [f \in {"room", "peer", "link"} |-> v[f]]
  BY <1>1 DEF IsWorld
<1> HIDE DEF v
<1>5. IsWorld(v)
  <2>1. v.peer[p] = x /\ \A q \in Peers \ {p} : v.peer[q] = w.peer[q]
    BY <1>1, <1>4
  <2> QED
    BY <1>1, <1>3, <1>4, <2>1 DEF IsWorld, ArePeers, SameEars
<1>6. RoomWorld(v)
  BY <1>3, <1>4, <1>5, OneEarOK
<1> QED
  BY <1>2, <1>6, SignalOverOK

LEMMA LossOK ==
    ASSUME RoomInv, NEW c, NEW r, NEW w, RoomWorld(w), r.neg \in Peers \cup {None},
           TriggerDisconnect(c, r, w), hosting' = hosting
    PROVE  RoomInv'
<1> DEFINE v == IF r.closing \/ r.neg = None THEN w ELSE HangUp(w, r.neg)
<1>1. room' = v.room /\ peer' = v.peer
  BY DEF TriggerDisconnect, Becomes
<1>2. RoomWorld(v)
  BY HangUpOK
<1> HIDE DEF v
<1> QED
  BY <1>1, <1>2, RoomFromWorld

-----------------------------------------------------------------------------
(* Steps that nobody hears of in the room.                                 *)

LEMMA RoomKept ==
    ASSUME RoomInv, room' = room, hosting'.signal = "off" => hosting.signal = "off",
           \A p \in Peers : SameEars(peer[p], peer'[p])
    PROVE  RoomInv'
<1>1. ASSUME NEW p \in Peers
      PROVE  /\ Ears(peer'[p]) /\ (peer'[p].sig = "in" <=> Has(room.order, p))
             /\ peer'[p].sig = "in" => Heard(peer'[p], room.host)
  <2>1. /\ Ears(peer[p]) /\ (peer[p].sig = "in" <=> Has(room.order, p))
        /\ peer[p].sig = "in" => Heard(peer[p], room.host)
    BY Distinct DEF RoomInv, PeersOK
  <2>2. SameEars(peer[p], peer'[p])
    OBVIOUS
  <2> QED
    BY <2>1, <2>2, SameEarsHear DEF SameEars
<1> QED
  BY <1>1, Distinct DEF RoomInv, PeersOK

LEMMA PeerKept ==
    ASSUME SessionInv, RoomInv, NEW p \in Peers, NEW x, SameEars(peer[p], x),
           peer' = [peer EXCEPT ![p] = x], room' = room, hosting' = hosting
    PROVE  RoomInv'
<1>1. \A q \in Peers : SameEars(peer[q], peer'[q])
  BY DEF SessionInv, Shapes, ArePeers, SameEars
<1> QED
  BY <1>1, RoomKept

LEMMA PeersKept ==
    ASSUME SessionInv, RoomInv, peer' = peer, room' = room, hosting' = hosting
    PROVE  RoomInv'
<1>1. \A q \in Peers : SameEars(peer[q], peer'[q])
  BY DEF SessionInv, Shapes, ArePeers, SameEars
<1> QED
  BY <1>1, RoomKept

LEMMA EarsExcept ==
    ASSUME NEW q, IsPeer(q), NEW u, NEW v
    PROVE  /\ SameEars(q, [q EXCEPT !.pc = u, !.offer = v]) /\ SameEars(q, [q EXCEPT !.offer = v])
           /\ SameEars(q, [q EXCEPT !.pc = u, !.ticket = v]) /\ SameEars(q, [q EXCEPT !.ticket = v])
           /\ SameEars(q, [q EXCEPT !.frame = u, !.told = v]) /\ SameEars(q, [q EXCEPT !.frame = v])
<1>1. SameEars(q, [q EXCEPT !.pc = u, !.offer = v])
  BY DEF SameEars, IsPeer, PeerFields
<1>2. SameEars(q, [q EXCEPT !.offer = v])
  BY DEF SameEars, IsPeer, PeerFields
<1>3. SameEars(q, [q EXCEPT !.pc = u, !.ticket = v])
  BY DEF SameEars, IsPeer, PeerFields
<1>4. SameEars(q, [q EXCEPT !.ticket = v])
  BY DEF SameEars, IsPeer, PeerFields
<1>5. SameEars(q, [q EXCEPT !.frame = u, !.told = v])
  BY DEF SameEars, IsPeer, PeerFields
<1>6. SameEars(q, [q EXCEPT !.frame = v])
  BY DEF SameEars, IsPeer, PeerFields
<1> QED
  BY <1>1, <1>2, <1>3, <1>4, <1>5, <1>6

\* What a handshake, a channel and its frames change.
LEMMA UnheardSteps ==
    ASSUME SessionInv, RoomInv, NEW p \in Peers,
           \/ SendOffer(p) \/ ChannelOpens(p) \/ HearKick(p) \/ HearOffer(p)
           \/ NegotiationTimesOut(p) \/ HearTicket(p) \/ HostHearsClose(p) \/ Kick(p)
    PROVE  RoomInv'
<1> DEFINE q == peer[p]
<1>1. IsPeer(q) /\ peer = [x \in Peers |-> peer[x]]
  BY DEF SessionInv, Shapes, ArePeers
<1>2. room' = room /\ hosting' = hosting
  BY DEF SendOffer, ChannelOpens, HearKick, HearOffer, NegotiationTimesOut, HearTicket, HostHearsClose, Kick
<1>3. \E u, v : LET f == [peer EXCEPT ![p] = [q EXCEPT !.pc = u, !.offer = v]]
                    g == [peer EXCEPT ![p] = [q EXCEPT !.offer = v]]
                    h == [peer EXCEPT ![p] = [q EXCEPT !.pc = u, !.ticket = v]]
                    i == [peer EXCEPT ![p] = [q EXCEPT !.ticket = v]]
                    j == [peer EXCEPT ![p] = [q EXCEPT !.frame = u, !.told = v]]
                    k == [peer EXCEPT ![p] = [q EXCEPT !.frame = v]]
                IN  peer' = f \/ peer' = g \/ peer' = h \/ peer' = i \/ peer' = j \/ peer' = k
  <2>1. CASE SendOffer(p)
    <3>1. peer' = [peer EXCEPT ![p] = [q EXCEPT !.pc = "offered",
                     !.offer = IF q.view = Host /\ InRoom(Host) THEN "sent" ELSE "lost"]]
      BY <1>1, <2>1 DEF SendOffer
    <3> QED
      BY <3>1
  <2>2. CASE ChannelOpens(p)
    <3>1. peer' = [peer EXCEPT ![p] = [q EXCEPT !.pc = "open", !.ticket = "sent"]]
      BY <1>1, <2>2 DEF ChannelOpens
    <3> QED
      BY <3>1
  <2>3. CASE HearKick(p)
    <3>1. peer' = [peer EXCEPT ![p] = [q EXCEPT !.frame = FALSE, !.told = TRUE]]
      BY <1>1, <2>3 DEF HearKick
    <3> QED
      BY <3>1
  <2>4. CASE HearOffer(p) \/ NegotiationTimesOut(p)
    <3>1. \E v : peer' = [peer EXCEPT ![p] = [q EXCEPT !.offer = v]]
      BY <2>4 DEF HearOffer, NegotiationTimesOut
    <3> QED
      BY <3>1
  <2>5. CASE HearTicket(p) \/ HostHearsClose(p)
    <3>1. peer' = [peer EXCEPT ![p] = [q EXCEPT !.ticket = "none"]]
      BY <2>5 DEF HearTicket, HostHearsClose
    <3> QED
      BY <3>1
  <2>6. CASE Kick(p)
    <3>1. peer' = [peer EXCEPT ![p] = [q EXCEPT !.frame = TRUE]]
      BY <2>6 DEF Kick
    <3> QED
      BY <3>1
  <2> QED
    BY <2>1, <2>2, <2>3, <2>4, <2>5, <2>6
<1> HIDE DEF q
<1>4. PICK x : peer' = [peer EXCEPT ![p] = x] /\ SameEars(q, x)
  BY <1>1, <1>3, EarsExcept
<1> QED
  BY <1>2, <1>4, PeerKept DEF q

-----------------------------------------------------------------------------
(* Steps of one peer in the room.                                          *)

LEMMA PeerMoves ==
    ASSUME SessionInv, RoomInv, NEW p \in Peers, NEW x, peer' = [peer EXCEPT ![p] = x],
           hosting' = hosting, RoomOK(room'), Ears(x),
           x.sig = "in" <=> Has(room'.order, p), x.sig = "in" => Heard(x, room'.host),
           \A id : id # p => (Has(room'.order, id) <=> Has(room.order, id)),
           \A id : Has(room.order, id) => room'.host = room.host
    PROVE  RoomInv'
<1>1. peer'[p] = x /\ \A q \in Peers \ {p} : peer'[q] = peer[q]
  BY DEF SessionInv, Shapes, ArePeers
<1>2. ASSUME NEW q \in Peers
      PROVE  /\ Ears(peer'[q]) /\ (peer'[q].sig = "in" <=> Has(room'.order, q))
             /\ peer'[q].sig = "in" => Heard(peer'[q], room'.host)
  <2>1. CASE q = p
    BY <1>1, <2>1
  <2>2. CASE q # p
    <3>1. /\ Ears(peer[q]) /\ (peer[q].sig = "in" <=> Has(room.order, q))
          /\ peer[q].sig = "in" => Heard(peer[q], room.host)
      BY Distinct DEF RoomInv, PeersOK
    <3> QED
      BY <1>1, <2>2, <3>1
  <2> QED
    BY <2>1, <2>2
<1>3. hosting'.signal = "off" => ~Has(room'.order, Host)
  BY Somebody DEF RoomInv
<1> QED
  BY <1>2, <1>3, Distinct DEF RoomInv, PeersOK

LEMMA EarsNow ==
    ASSUME SessionInv, RoomInv, NEW p \in Peers
    PROVE  /\ RoomOK(room) /\ Ears(peer[p]) /\ IsPeer(peer[p])
           /\ (peer[p].sig = "in" <=> Has(room.order, p)) /\ (peer[p].sig = "in" => Heard(peer[p], room.host))
  BY Distinct DEF RoomInv, PeersOK, Ears

\* A peer joins and is welcomed.
LEMMA SignalUpRoom ==
    ASSUME SessionInv, RoomInv, NEW p \in Peers, SignalUp(p)
    PROVE  RoomInv'
<1> DEFINE q == peer[p]
           m == <<"welcome", room'.host>>
           x == [q EXCEPT !.sig = "in", !.inbox = <<m>>]
<1>1. RoomOK(room) /\ IsPeer(q) /\ q.sig = "dialing" /\ ~Has(room.order, p)
  BY EarsNow DEF SignalUp
<1>2. /\ RoomOK(room') /\ \A id : Has(room'.order, id) <=> Has(room.order, id) \/ id = p
      /\ room'.host \in Peers \cup {Host}
      /\ \A id : Has(room.order, id) => room'.host = room.host
  BY <1>1, JoinedOK DEF SignalUp
<1>3. peer' = [peer EXCEPT ![p] = x] /\ hosting' = hosting
  BY DEF SignalUp, SessionInv, Shapes, ArePeers
<1>4. IsPeer(x) /\ x.sig = "in" /\ x.inbox = <<m>>
  <2> HIDE DEF q, m
  <2> QED
    BY <1>1 DEF IsPeer, PeerFields
<1>5. m \in Message /\ m[1] = "welcome" /\ m[2] = room'.host
  BY <1>2 DEF Message
<1> HIDE DEF x, m
<1>6. Ears(x)
  BY <1>4, <1>5 DEF Ears
<1>7. News(x) = {1}
  BY <1>4, <1>5 DEF News
<1>8. Heard(x, room'.host)
  BY <1>4, <1>5, <1>7 DEF Heard
<1> QED
  BY <1>2, <1>3, <1>4, <1>6, <1>8, PeerMoves

LEMMA HearSignalRoom ==
    ASSUME SessionInv, RoomInv, NEW p \in Peers, HearSignal(p)
    PROVE  RoomInv'
<1> DEFINE x == OnSignal(peer[p], p)
<1>1. peer' = [peer EXCEPT ![p] = x] /\ peer[p].inbox # <<>> /\ room' = room /\ hosting' = hosting
  BY DEF HearSignal, SessionInv, Shapes, ArePeers
<1>2. Ears(x) /\ x.sig = peer[p].sig /\ \A h : Heard(peer[p], h) => Heard(x, h)
  BY <1>1, EarsNow, SignalHeard
<1> HIDE DEF x
<1> QED
  BY <1>1, <1>2, EarsNow, PeerMoves

LEMMA SendAnswerRoom ==
    ASSUME SessionInv, RoomInv, NEW p \in Peers, SendAnswer(p)
    PROVE  RoomInv'
<1> DEFINE q == peer[p]
           m == <<"answer", Host>>
           x == [q EXCEPT !.inbox = Append(q.inbox, m)]
           y == [q EXCEPT !.offer = "lost"]
<1>1. peer' = [peer EXCEPT ![p] = x] \/ peer' = [peer EXCEPT ![p] = y]
  BY DEF SendAnswer, SessionInv, Shapes, ArePeers
<1>2. room' = room /\ hosting' = hosting
  BY DEF SendAnswer
<1>3. m \in Message /\ m[1] = "answer"
  BY DEF Message
<1>4. RoomOK(room) /\ Ears(q) /\ IsPeer(q) /\ (q.sig = "in" <=> Has(room.order, p))
      /\ (q.sig = "in" => Heard(q, room.host))
  BY EarsNow
<1>5. Ears(x) /\ x.sig = q.sig /\ \A h : Heard(q, h) => Heard(x, h)
  <2> HIDE DEF q, m
  <2> QED
    BY <1>3, <1>4, AppendHeard
<1>6. SameEars(q, y)
  BY <1>4, EarsExcept
<1> HIDE DEF x, y
<1>7. CASE peer' = [peer EXCEPT ![p] = x]
  BY <1>2, <1>4, <1>5, <1>7, PeerMoves
<1>8. CASE peer' = [peer EXCEPT ![p] = y]
  BY <1>2, <1>6, <1>8, PeerKept
<1> QED
  BY <1>1, <1>7, <1>8

\* A negotiation that starts is not in the room yet.
LEMMA StartRoom ==
    ASSUME SessionInv, RoomInv, NEW c, NEW r, NEW retry, StartNegotiation(c, r, retry), hosting' = hosting
    PROVE  RoomInv'
<1>1. PICK n \in Peers : n = NextPeer /\ peer[n].owner = None
  BY NextIsLeast DEF StartNegotiation, Unused
<1> DEFINE q == peer[n]
           x == [q EXCEPT !.owner = c, !.retry = retry, !.sig = "dialing"]
<1>2. RoomOK(room) /\ Ears(q) /\ IsPeer(q) /\ (q.sig = "in" <=> Has(room.order, n)) /\ q.sig # "in"
  BY <1>1, EarsNow DEF SessionInv, Numbered, Used
<1>3. peer' = [peer EXCEPT ![n] = x] /\ room' = room
  BY <1>1 DEF StartNegotiation, SessionInv, Shapes, ArePeers
<1>4. IsPeer(x) /\ x.inbox = q.inbox /\ x.sig = "dialing"
  <2> HIDE DEF q
  <2> QED
    BY <1>2 DEF IsPeer, PeerFields
<1> HIDE DEF x
<1>5. Ears(x)
  BY <1>2, <1>4 DEF Ears
<1> QED
  BY <1>2, <1>3, <1>4, <1>5, PeerMoves

-----------------------------------------------------------------------------
(* Steps by which a member is lost, and those of the host.                 *)

LEMMA DisconnectRoom ==
    ASSUME SessionInv, RoomInv, NEW c \in Clients, Disconnect(c)
    PROVE  RoomInv'
<1> DEFINE n == client[c].neg
           w == IF n = None THEN World ELSE HangUp(World, n)
<1>1. n \in Peers \cup {None}
  BY DEF SessionInv, Shapes, ClientRecord
<1>2. room' = w.room /\ peer' = w.peer /\ hosting' = hosting
  BY DEF Disconnect, Becomes
<1>3. RoomWorld(World)
  BY RoomWorldNow DEF SessionInv
<1>4. RoomWorld(w)
  BY <1>1, <1>3, HangUpOK
<1> HIDE DEF w
<1> QED
  BY <1>2, <1>4, RoomFromWorld

LEMMA SignalLostRoom ==
    ASSUME SessionInv, RoomInv, NEW p \in Peers, SignalLost(p)
    PROVE  RoomInv'
<1>1. PICK c \in Clients : c = peer[p].owner
  BY OwnerOf DEF SignalLost, Used
<1> DEFINE s == client[c]
           w == SignalOver(World, p)
           told == [s EXCEPT !.final = TRUE]
           Gone(r) == IF r.chan = None THEN TriggerDisconnect(c, r, w)
                      ELSE Becomes(w) /\ client' = [client EXCEPT ![c] = r]
<1>2. PICK r : (r = s \/ r = told) /\ Gone(r)
  <2>1. PICK kicked \in BOOLEAN : Gone(IF kicked THEN told ELSE s)
    BY <1>1 DEF SignalLost
  <2> HIDE DEF Gone, told, s
  <2> QED
    BY <2>1
<1>3. RoomWorld(w)
  BY RoomWorldNow, SignalOverOK DEF SessionInv
<1>4. s \in ClientRecord
  BY <1>1 DEF SessionInv, Shapes
<1>5. hosting' = hosting /\ r.neg \in Peers \cup {None}
  BY <1>2, <1>4 DEF SignalLost, ClientRecord
<1> HIDE DEF w, s, told
<1>6. CASE r.chan = None
  BY <1>2, <1>3, <1>5, <1>6, LossOK
<1>7. CASE r.chan # None
  <2>1. room' = w.room /\ peer' = w.peer
    BY <1>2, <1>7 DEF Becomes
  <2> QED
    BY <1>3, <1>5, <2>1, RoomFromWorld
<1> QED
  BY <1>6, <1>7

LEMMA DownRoom ==
    ASSUME SessionInv, RoomInv, NEW p \in Peers, HearDown(p) \/ LateEvent(p)
    PROVE  RoomInv'
<1> DEFINE q == peer[p]
           c == q.owner
           w1 == [World EXCEPT !.peer[p].pc = "closed", !.peer[p].frame = FALSE,
                               !.peer[p].late = TRUE, !.link[p] = "cut"]
           w2 == [World EXCEPT !.peer[p].late = FALSE]
           x1 == [q EXCEPT !.pc = "closed", !.frame = FALSE, !.late = TRUE]
           x2 == [q EXCEPT !.late = FALSE]
<1>1. c \in Clients
  BY OwnerOf DEF HearDown, Down, ChannelDown, LateEvent, Used, Alive
<1>2. IsPeer(q) /\ peer = [z \in Peers |-> peer[z]] /\ \A z \in Peers : IsPeer(peer[z])
  BY DEF SessionInv, Shapes, ArePeers
<1>3. client[c].neg \in Peers \cup {None} /\ hosting' = hosting
  BY <1>1 DEF SessionInv, Shapes, ClientRecord, HearDown, LateEvent
<1>4. \E w, x : /\ TriggerDisconnect(c, client[c], w) /\ w = [f \in {"room", "peer", "link"} |-> w[f]]
                /\ w.room = room /\ w.peer = [peer EXCEPT ![p] = x] /\ SameEars(q, x)
  <2>1. w1 = [f \in {"room", "peer", "link"} |-> w1[f]] /\ w1.room = room /\ w1.peer = [peer EXCEPT ![p] = x1]
    BY <1>2 DEF World
  <2>2. w2 = [f \in {"room", "peer", "link"} |-> w2[f]] /\ w2.room = room /\ w2.peer = [peer EXCEPT ![p] = x2]
    BY <1>2 DEF World
  <2>3. SameEars(q, x1) /\ SameEars(q, x2)
    <3> HIDE DEF q
    <3> QED
      BY <1>2 DEF SameEars, IsPeer, PeerFields
  <2>4. TriggerDisconnect(c, client[c], w1) \/ TriggerDisconnect(c, client[c], w2)
    BY DEF HearDown, LateEvent
  <2> HIDE DEF w1, w2, x1, x2
  <2> QED
    BY <2>1, <2>2, <2>3, <2>4
<1>5. PICK w, x : /\ TriggerDisconnect(c, client[c], w) /\ w = [f \in {"room", "peer", "link"} |-> w[f]]
                  /\ w.room = room /\ w.peer = [peer EXCEPT ![p] = x] /\ SameEars(q, x)
  BY <1>4
<1>6. IsWorld(w)
  <2>1. w.peer[p] = x /\ \A z \in Peers \ {p} : w.peer[z] = peer[z]
    BY <1>2, <1>5
  <2> QED
    BY <1>2, <1>5, <2>1 DEF IsWorld, ArePeers, SameEars
<1>7. RoomWorld(World) /\ World.room = room /\ World.peer = peer
  BY RoomWorldNow DEF SessionInv, World
<1>8. RoomWorld(w)
  BY <1>5, <1>6, <1>7, OneEarOK
<1> QED
  BY <1>3, <1>5, <1>8, LossOK

LEMMA HostConnectsRoom ==
    ASSUME SessionInv, RoomInv, HostConnects
    PROVE  RoomInv'
<1>1. ~Has(room.order, Host) /\ RoomOK(room) /\ peer' = peer /\ hosting'.signal # "off"
  BY DEF RoomInv, HostConnects
<1>2. /\ RoomOK(room') /\ \A x : Has(room'.order, x) <=> Has(room.order, x) \/ x = Host
      /\ \A x : Has(room.order, x) => room'.host = room.host
  BY <1>1, JoinedOK DEF HostConnects
<1>3. PeersOK(room', peer', None)
  BY <1>1, <1>2, Somebody DEF RoomInv, PeersOK
<1> QED
  BY <1>1, <1>2, <1>3 DEF RoomInv

LEMMA HostLeavesOK ==
    ASSUME SessionInv, RoomInv
    PROVE  RoomWorld(OnLeave(World, Host))
<1>1. IsWorld(World) /\ RoomOK(World.room) /\ PeersOK(World.room, World.peer, None) /\ World.room = room
  BY RoomWorldNow DEF SessionInv, RoomWorld, World
<1>2. PeersOK(World.room, World.peer, Host)
  BY <1>1, Somebody DEF PeersOK
<1>3. LET v == OnLeave(World, Host) IN
      /\ RoomOK(v.room) /\ PeersOK(v.room, v.peer, None)
      /\ \A x : Has(v.room.order, x) <=> Has(World.room.order, x) /\ x # Host
  BY <1>1, <1>2, LeaveOK
<1>4. IsWorld(OnLeave(World, Host))
  BY <1>1, LeaveLooks
<1> QED
  BY <1>1, <1>3, <1>4 DEF RoomWorld

LEMMA HostSignalLostRoom ==
    ASSUME SessionInv, RoomInv, HostSignalLost
    PROVE  RoomInv'
<1> DEFINE w == OnLeave(World, Host)
<1>1. room' = w.room /\ peer' = w.peer /\ hosting'.signal # "off"
  BY DEF HostSignalLost, Becomes
<1>2. RoomWorld(w)
  BY HostLeavesOK
<1> HIDE DEF w
<1> QED
  BY <1>1, <1>2, RoomFromWorld

LEMMA DisposeRoom ==
    ASSUME SessionInv, RoomInv, Dispose
    PROVE  RoomInv'
<1> DEFINE w == IF hosting.signal = "in" THEN OnLeave(World, Host) ELSE World
           open == {a \in Actors : table.channels[a] # None}
           Hit(p) == \E a \in open : table.channels[a] = p
           t(p) == w.peer[p].frame \/ (Hit(p) /\ serve[p].chan = "open")
           o(p) == IF serve[p].pc = "fresh" THEN "lost" ELSE w.peer[p].offer
           l == [p \in Peers |-> IF p \in Negotiating THEN "cut" ELSE link[p]]
           f == [p \in Peers |-> [w.peer[p] EXCEPT !.frame = t(p), !.offer = o(p)]]
           v == [w EXCEPT !.peer = f, !.link = l]
<1>1. RoomWorld(w)
  BY HostLeavesOK, RoomWorldNow DEF SessionInv
<1>2. IsWorld(w) /\ \A p \in Peers : IsPeer(w.peer[p]) /\ Ears(w.peer[p])
  BY <1>1 DEF RoomWorld, IsWorld, ArePeers, PeersOK
<1>3. room' = v.room /\ peer' = v.peer /\ hosting'.signal # "off"
  <2>1. \A p \in Peers : [w.peer[p] EXCEPT !.frame = @ \/ (Hit(p) /\ serve[p].chan = "open"),
                                          !.offer = IF serve[p].pc = "fresh" THEN "lost" ELSE @]
                         = [w.peer[p] EXCEPT !.frame = t(p), !.offer = o(p)]
    BY <1>2 DEF IsPeer, PeerFields
  <2>2. hosting'.signal # "off"
    BY DEF Dispose
  <2> QED
    BY <2>1, <2>2 DEF Dispose, Becomes
<1> HIDE DEF w, t, o, l, Hit, open
<1>4. \A p \in Peers : SameEars(w.peer[p], f[p])
  <2> SUFFICES ASSUME NEW p \in Peers PROVE SameEars(w.peer[p], f[p])
    OBVIOUS
  <2> DEFINE q == w.peer[p]
             x == [q EXCEPT !.frame = t(p), !.offer = o(p)]
  <2>1. IsPeer(q) /\ f[p] = x
    BY <1>2
  <2> HIDE DEF q, f
  <2>2. SameEars(q, x)
    BY <2>1 DEF SameEars, IsPeer, PeerFields
  <2> QED
    BY <2>1, <2>2 DEF q
<1>5. f = [p \in Peers |-> f[p]]
  OBVIOUS
<1> HIDE DEF f
<1>6. v.room = w.room /\ v.peer = f /\ IsWorld(v)
  BY <1>2, <1>4, <1>5 DEF IsWorld, ArePeers, SameEars
<1> HIDE DEF v
<1>7. \A p \in Peers : /\ Ears(v.peer[p]) /\ v.peer[p].sig = w.peer[p].sig
                       /\ \A h : Heard(w.peer[p], h) => Heard(v.peer[p], h)
  BY <1>2, <1>4, <1>6, SameEarsHear DEF SameEars
<1>8. RoomWorld(v)
  BY <1>1, <1>6, <1>7 DEF RoomWorld, PeersOK
<1> QED
  BY <1>3, <1>8, RoomFromWorld

LEMMA RoomInit == Init => RoomInv
<1> SUFFICES ASSUME Init PROVE RoomInv
  OBVIOUS
<1>1. room.order = <<>> /\ room.host = None /\ hosting.signal = "off"
  BY DEF Init
<1>2. RoomOK(room) /\ \A id : ~Has(room.order, id)
  BY <1>1 DEF RoomOK, Once, Has
<1>3. \A p \in Peers : peer[p].sig = "none" /\ peer[p].inbox = <<>> /\ IsPeer(peer[p])
  BY DEF Init, IsPeer, PeerFields
<1>4. \A p \in Peers : Ears(peer[p])
  <2>1. <<>> \in Seq(Message)
    OBVIOUS
  <2> QED
    BY <1>3, <2>1 DEF Ears
<1> QED
  BY <1>1, <1>2, <1>3, <1>4 DEF RoomInv, PeersOK

LEMMA RoomStep == SessionInv /\ RoomInv /\ [Next]_vars => RoomInv'
<1> SUFFICES ASSUME SessionInv, RoomInv, [Next]_vars PROVE RoomInv'
  OBVIOUS
<1>1. ASSUME NEW c \in Clients,
             Connect(c) \/ Disconnect(c) \/ TimerFires(c) \/ TicketArrives(c) \/ TicketFails(c)
      PROVE  RoomInv'
  <2>1. CASE Connect(c)
    BY <2>1, StartRoom DEF Connect
  <2>2. CASE TicketArrives(c)
    BY <2>2, StartRoom, PeersKept DEF TicketArrives
  <2>3. CASE TimerFires(c) \/ TicketFails(c)
    BY <2>3, PeersKept DEF TimerFires, TicketFails
  <2> QED
    BY <1>1, <2>1, <2>2, <2>3, DisconnectRoom
<1>2. ASSUME NEW p \in Peers,
             \/ SignalUp(p) \/ SignalLost(p) \/ HearSignal(p) \/ SendOffer(p)
             \/ ChannelOpens(p) \/ HearKick(p) \/ HearDown(p) \/ LateEvent(p)
             \/ HearOffer(p) \/ SendAnswer(p) \/ NegotiationTimesOut(p) \/ HearTicket(p)
             \/ HostHearsClose(p) \/ Kick(p)
      PROVE  RoomInv'
  BY <1>2, SignalUpRoom, SignalLostRoom, HearSignalRoom, UnheardSteps, DownRoom, SendAnswerRoom
<1>3. ASSUME NEW p \in Peers,
             \/ IceEnds(p) \/ NetworkCut(p) \/ HostConnected(p) \/ HostHearsDown(p) \/ HostChannel(p)
             \/ Refuse(p) \/ Grant(p) \/ SecondChannel(p) \/ SecondCloses(p)
      PROVE  RoomInv'
  BY <1>3, PeersKept DEF IceEnds, NetworkCut, HostConnected, HostHearsDown, HostChannel, Refuse, Grant,
       SecondChannel, SecondCloses
<1>4. CASE HostConnects \/ HostSignalLost \/ Dispose
  BY <1>4, HostConnectsRoom, HostSignalLostRoom, DisposeRoom
<1>5. CASE UNCHANGED vars
  BY <1>5, PeersKept DEF vars
<1> QED
  BY <1>1, <1>2, <1>3, <1>4, <1>5 DEF Next

-----------------------------------------------------------------------------
(* The theorems.                                                           *)

\* Every negotiation of a client is the one it knows, and wanted, unless connect() was
\* called while an old attempt waited for its ticket (RTCClient.ts: performReconnect,
\* triggerDisconnect).
THEOREM NegotiationsWantedAndAlone == Spec => []WantedAndAlone
<1>1. Spec => []SessionInv
  BY SessionInit, SessionStep, PTL DEF Spec
<1> QED
  BY <1>1, SessionProperty, PTL

\* The senior member of the signaling room is its host, and every member knows so, or
\* will by what is on its way to it (SignalRoom.ts: onJoin, onLeave).
THEOREM ElectionsAlwaysAgree == Spec => []RoomAgrees
<1>1. Spec => [](SessionInv /\ RoomInv)
  <2>1. Init => SessionInv /\ RoomInv
    BY SessionInit, RoomInit
  <2>2. SessionInv /\ RoomInv /\ [Next]_vars => (SessionInv /\ RoomInv)'
    BY SessionStep, RoomStep
  <2> QED
    BY <2>1, <2>2, PTL DEF Spec
<1> QED
  BY <1>1, RoomProperty, PTL

\* With actor ids that the server makes, the maps of the transport, the layer and the
\* channels tell one story, and the signaling room another that its members know
\* (RTCTransport.ts: admitPeer, triggerClose, dispose; SignalRoom.ts).
THEOREM BooksAlwaysAgree ==
    ASSUME ~StableIds
    PROVE  Spec => []BooksAgree
<1>1. Spec => []LedgerInv
  <2>1. LedgerInv /\ [Next]_vars => LedgerInv'
    BY LedgerStep
  <2> QED
    BY <2>1, LedgerInit, PTL DEF Spec
<1>2. LedgerInv /\ RoomAgrees => BooksAgree
  BY LedgerProperty DEF BooksAgree
<1> QED
  BY <1>1, <1>2, ElectionsAlwaysAgree, PTL
==============================================================================
