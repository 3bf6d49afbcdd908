-------------------------- MODULE BrowserRtcProofs --------------------------
(***************************************************************************)
(* No candidate of a browser's peer connection is missed, for any number   *)
(* of clients, negotiations, attempts and disturbances: what is queued     *)
(* behind a description, on the wire or in an opQueue, stays behind it.    *)
(***************************************************************************)
EXTENDS BrowserRtc, WellFoundedInduction, TLAPS

-----------------------------------------------------------------------------
(* Order in a queue.                                                       *)

Holds(s, y) == \E i \in DOMAIN s : s[i] = y

\* Every x of the queue s has a y before it.
Behind(s, x, y) == \A i \in DOMAIN s : s[i] = x => \E j \in DOMAIN s : j < i /\ s[j] = y

-----------------------------------------------------------------------------
(* Shapes.                                                                 *)

Op == {"offer", "answer", "set offer", "set answer", "candidate"}
Signal == {"welcome", "answer", "ice", "elected"}

EndFields == {"pc", "ops", "local", "remote", "sent", "found"}
PeerFields == EndFields \cup {"owner", "sig", "inbox", "host", "ticket", "wire", "late"}
ServeFields == EndFields \cup {"chan", "adm", "deaf"}

IsEnd(q) == q.ops \in Seq(Op) /\ {q.local, q.remote} \subseteq BOOLEAN

IsPeer(q) ==
    /\ q = [f \in PeerFields |-> q[f]] /\ IsEnd(q)
    /\ q.inbox \in Seq(Signal) /\ q.host \in BOOLEAN

IsServe(h) == h = [f \in ServeFields |-> h[f]] /\ IsEnd(h)

Shapes ==
    /\ peer = [p \in Peers |-> peer[p]] /\ \A p \in Peers : IsPeer(peer[p])
    /\ serve = [p \in Peers |-> serve[p]] /\ \A p \in Peers : IsServe(serve[p])
    /\ toHost \in Seq({"offer", "ice"} \X Peers)

-----------------------------------------------------------------------------
(* The invariant.                                                          *)

\* A connection that is not there, or no more, has nothing.
Idle(q) == Live(q) \/ (q.ops = <<>> /\ ~q.local /\ ~q.remote)

\* The client's end: its answer is set after its offer is, candidates after the answer.
PeerSound(q) ==
    /\ Idle(q)
    /\ ~Holds(q.ops, "answer")
    /\ q.owner = None => q.pc = "none" /\ q.sig \notin {"dialing", "in"}
    /\ q.sig \notin {"in", "gone"} => q.pc = "none"
    /\ q.sig # "in" => q.inbox = <<>>
    /\ \A i \in DOMAIN q.inbox : q.inbox[i] = "welcome" => i = 1 /\ q.pc = "none"
    /\ Holds(q.inbox, "answer") \/ Holds(q.inbox, "ice") => q.pc # "none"
    /\ Live(q) => /\ q.local \/ Holds(q.ops, "offer")
                  /\ q.local \/ Behind(q.ops, "set answer", "offer")
                  /\ q.remote \/ Behind(q.ops, "candidate", "set answer")
                  /\ q.remote \/ Holds(q.ops, "set answer") \/ Behind(q.inbox, "ice", "answer")

\* The host's end: the offer is set before the candidates are added.
ServeSound(h) ==
    /\ Idle(h) /\ ~Holds(h.ops, "offer")
    /\ Live(h) => /\ h.remote \/ Holds(h.ops, "set offer")
                  /\ h.remote \/ Behind(h.ops, "candidate", "set offer")

\* Between them, with th on its way to the host, whose socket is ho: who has set the
\* description that it sent has sent it, if it could be heard.
WaySound(p, q, h, th, ho) ==
    /\ q.host \/ h.pc # "none" => ho # "off"
    /\ h.pc # "none" => q.pc # "none"
    /\ \A i \in DOMAIN th : th[i][2] = p => q.pc # "none"
    /\ h.pc # "none" \/ Behind(th, <<"ice", p>>, <<"offer", p>>)
    /\ q.local /\ q.sig = "in" /\ q.host /\ ho = "in" => h.pc # "none" \/ Holds(th, <<"offer", p>>)
    /\ h.local /\ q.sig = "in" /\ ho = "in" /\ Live(q) =>
          q.remote \/ Holds(q.ops, "set answer") \/ Holds(q.inbox, "answer")

Sound(p, q, h, th, ho) == PeerSound(q) /\ ServeSound(h) /\ WaySound(p, q, h, th, ho)

BrowserInv ==
    /\ Shapes
    /\ \A p \in Peers : Sound(p, peer[p], serve[p], toHost, hosting)
    /\ toHost # <<>> => hosting = "in"
    /\ missed = {}

LEMMA BrowserProperty == BrowserInv => NothingMissed
  BY DEF BrowserInv, NothingMissed

-----------------------------------------------------------------------------
(* What queues keep.                                                       *)

LEMMA AppendKeeps ==
    ASSUME NEW S, NEW s \in Seq(S), NEW z \in S
    PROVE  LET t == Append(s, z) IN
           /\ t \in Seq(S) /\ DOMAIN t = 1..Len(s) + 1 /\ t[Len(s) + 1] = z
           /\ \A i \in DOMAIN s : i \in DOMAIN t /\ t[i] = s[i]
           /\ \A y : Holds(t, y) <=> Holds(s, y) \/ y = z
           /\ \A x, y : Behind(s, x, y) /\ (z = x => Holds(s, y)) => Behind(t, x, y)
<1> DEFINE t == Append(s, z)
<1>1. /\ t \in Seq(S) /\ DOMAIN t = 1..Len(s) + 1 /\ t[Len(s) + 1] = z /\ Len(s) \in Nat
      /\ DOMAIN s = 1..Len(s) /\ \A i \in 1..Len(s) : t[i] = s[i]
  OBVIOUS
<1> HIDE DEF t
<1>2. /\ \A i \in 1..Len(s) : i \in 1..Len(s) + 1
      /\ Len(s) + 1 \in 1..Len(s) + 1 /\ \A i \in 1..Len(s) + 1 : i \in 1..Len(s) \/ i = Len(s) + 1
      /\ \A i \in 1..Len(s) : i < Len(s) + 1
  BY <1>1
<1>3. \A y : Holds(t, y) <=> Holds(s, y) \/ y = z
  BY <1>1, <1>2 DEF Holds
<1>4. ASSUME NEW x, NEW y, Behind(s, x, y), z = x => Holds(s, y)
      PROVE  Behind(t, x, y)
  <2> SUFFICES ASSUME NEW i \in 1..Len(s) + 1, t[i] = x
               PROVE  \E j \in 1..Len(s) + 1 : j < i /\ t[j] = y
    BY <1>1 DEF Behind
  <2>1. CASE i \in 1..Len(s)
    <3>1. PICK j \in 1..Len(s) : j < i /\ s[j] = y
      BY <1>1, <1>4, <2>1 DEF Behind
    <3> QED
      BY <1>1, <1>2, <3>1
  <2>2. CASE i = Len(s) + 1
    <3>1. PICK j \in 1..Len(s) : s[j] = y
      BY <1>1, <1>4, <2>2 DEF Holds
    <3> QED
      BY <1>1, <1>2, <2>2, <3>1
  <2> QED
    BY <1>2, <2>1, <2>2
<1> QED
  BY <1>1, <1>2, <1>3, <1>4 DEF t

\* What stands at the head has nothing before it.
LEMMA TailKeeps ==
    ASSUME NEW S, NEW s \in Seq(S), s # <<>>
    PROVE  LET t == Tail(s) IN
           /\ t \in Seq(S) /\ Head(s) \in S
           /\ DOMAIN s = 1..Len(s) /\ 1 \in DOMAIN s /\ Head(s) = s[1] /\ Len(s) \in Nat
           /\ DOMAIN t = 1..Len(s) - 1 /\ \A i \in DOMAIN t : i + 1 \in DOMAIN s /\ t[i] = s[i + 1]
           /\ Holds(s, Head(s))
           /\ \A y : Holds(t, y) => Holds(s, y)
           /\ \A y : Holds(s, y) /\ Head(s) # y => Holds(t, y)
           /\ \A x, y : Behind(s, x, y) => Head(s) # x
           /\ \A x, y : Behind(s, x, y) /\ Head(s) # y => Behind(t, x, y)
<1> DEFINE t == Tail(s)
<1>1. /\ t \in Seq(S) /\ DOMAIN s = 1..Len(s) /\ Len(s) \in Nat \ {0} /\ Head(s) = s[1] /\ s[1] \in S
      /\ DOMAIN t = 1..Len(s) - 1 /\ \A i \in 1..Len(s) - 1 : t[i] = s[i + 1]
  OBVIOUS
<1> HIDE DEF t
<1>2. 1 \in 1..Len(s) /\ \A i \in 1..Len(s) - 1 : i + 1 \in 1..Len(s)
  BY <1>1
<1>3. \A i \in 1..Len(s) : i # 1 => i - 1 \in 1..Len(s) - 1 /\ (i - 1) + 1 = i /\ ~(i < 1)
  BY <1>1
<1>4. \A i \in 1..Len(s) : i # 1 => t[i - 1] = s[i]
  BY <1>1, <1>3
<1>5. ASSUME NEW y, Holds(s, y), Head(s) # y
      PROVE  Holds(t, y)
  BY <1>1, <1>3, <1>4, <1>5 DEF Holds
<1>6. ASSUME NEW x, NEW y, Behind(s, x, y)
      PROVE  Head(s) # x
  <2>1. ~ \E j \in 1..Len(s) : j < 1
    BY <1>1
  <2> QED
    BY <1>1, <1>2, <1>6, <2>1 DEF Behind
<1>7. ASSUME NEW x, NEW y, Behind(s, x, y), Head(s) # y
      PROVE  Behind(t, x, y)
  <2> SUFFICES ASSUME NEW i \in 1..Len(s) - 1, t[i] = x
               PROVE  \E j \in 1..Len(s) - 1 : j < i /\ t[j] = y
    BY <1>1 DEF Behind
  <2>1. PICK j \in 1..Len(s) : j < i + 1 /\ s[j] = y
    BY <1>1, <1>2, <1>7 DEF Behind
  <2>2. j # 1
    BY <1>1, <1>7, <2>1
  <2>3. j - 1 < i /\ t[j - 1] = y /\ j - 1 \in 1..Len(s) - 1
    BY <1>1, <1>3, <1>4, <2>1, <2>2
  <2> QED
    BY <2>3
<1>8. \A y : Holds(t, y) => Holds(s, y)
  BY <1>1, <1>2 DEF Holds
<1>9. Holds(s, Head(s))
  BY <1>1, <1>2 DEF Holds
<1> QED
  BY <1>1, <1>2, <1>5, <1>6, <1>7, <1>8, <1>9 DEF t

LEMMA EmptyQueue ==
    ASSUME NEW S
    PROVE  <<>> \in Seq(S) /\ \A x, y : ~Holds(<<>>, y) /\ Behind(<<>>, x, y)
  BY DEF Holds, Behind

-----------------------------------------------------------------------------
(* What the invariant does not tell apart.                                 *)

TwinEnd(q, x) == x.pc = q.pc /\ x.ops = q.ops /\ x.local = q.local /\ x.remote = q.remote

TwinPeer(q, x) ==
    IsPeer(x) /\ TwinEnd(q, x) /\ x.owner = q.owner /\ x.sig = q.sig /\ x.inbox = q.inbox /\ x.host = q.host

TwinServe(h, k) == IsServe(k) /\ TwinEnd(h, k)

LEMMA TwinsSound ==
    ASSUME NEW p, NEW q, NEW x, NEW h, NEW k, NEW th, NEW ho, Sound(p, q, h, th, ho),
           TwinPeer(q, x), TwinServe(h, k)
    PROVE  Sound(p, x, k, th, ho)
<1>1. PeerSound(x)
  BY DEF Sound, PeerSound, TwinPeer, TwinEnd, Idle, Live
<1>2. ServeSound(k)
  BY DEF Sound, ServeSound, TwinServe, TwinEnd, Idle, Live
<1>3. WaySound(p, x, k, th, ho)
  BY DEF Sound, WaySound, TwinPeer, TwinServe, TwinEnd, Live
<1> QED
  BY <1>1, <1>2, <1>3 DEF Sound

LEMMA TwinsNow ==
    ASSUME BrowserInv, NEW p \in Peers
    PROVE  /\ TwinPeer(peer[p], peer[p]) /\ TwinServe(serve[p], serve[p])
           /\ IsPeer(peer[p]) /\ IsServe(serve[p])
           /\ Sound(p, peer[p], serve[p], toHost, hosting)
  BY DEF BrowserInv, Shapes, TwinPeer, TwinServe, TwinEnd

\* The negotiation p takes a step; others see of it what is on its way to the host.
LEMMA OneStep ==
    ASSUME BrowserInv, NEW p \in Peers, NEW x, NEW k, IsPeer(x), IsServe(k),
           peer' = [peer EXCEPT ![p] = x], serve' = [serve EXCEPT ![p] = k],
           toHost' \in Seq({"offer", "ice"} \X Peers), hosting' = hosting, missed' = missed,
           toHost' # <<>> => hosting = "in",
           Sound(p, x, k, toHost', hosting),
           \A r \in Peers \ {p} : WaySound(r, peer[r], serve[r], toHost, hosting)
                                     => WaySound(r, peer[r], serve[r], toHost', hosting)
    PROVE  BrowserInv'
<1>1. /\ peer' = [r \in Peers |-> peer'[r]] /\ serve' = [r \in Peers |-> serve'[r]]
      /\ peer'[p] = x /\ serve'[p] = k
      /\ \A r \in Peers \ {p} : peer'[r] = peer[r] /\ serve'[r] = serve[r]
  BY DEF BrowserInv, Shapes
<1>2. Shapes'
  BY <1>1 DEF BrowserInv, Shapes
<1>3. ASSUME NEW r \in Peers
      PROVE  Sound(r, peer'[r], serve'[r], toHost', hosting')
  <2>1. CASE r = p
    BY <1>1, <2>1
  <2>2. CASE r # p
    <3>1. Sound(r, peer[r], serve[r], toHost, hosting)
      BY DEF BrowserInv
    <3> QED
      BY <1>1, <2>2, <3>1 DEF Sound
  <2> QED
    BY <2>1, <2>2
<1> QED
  BY <1>2, <1>3 DEF BrowserInv

\* Nothing goes to the host or comes from it.
LEMMA QuietWay ==
    ASSUME BrowserInv, NEW p \in Peers, NEW x, NEW k, IsPeer(x), IsServe(k),
           peer' = [peer EXCEPT ![p] = x], serve' = [serve EXCEPT ![p] = k],
           toHost' = toHost, hosting' = hosting, missed' = missed,
           Sound(p, x, k, toHost, hosting)
    PROVE  BrowserInv'
  BY OneStep DEF BrowserInv, Shapes

LEMMA QuietStep ==
    ASSUME BrowserInv, NEW p \in Peers, NEW x, NEW k, TwinPeer(peer[p], x), TwinServe(serve[p], k),
           peer' = [peer EXCEPT ![p] = x], serve' = [serve EXCEPT ![p] = k],
           toHost' = toHost, hosting' = hosting, missed' = missed
    PROVE  BrowserInv'
<1>1. Sound(p, peer[p], serve[p], toHost, hosting)
  BY DEF BrowserInv
<1>2. Sound(p, x, k, toHost, hosting)
  BY <1>1, TwinsSound
<1> QED
  BY <1>2, QuietWay DEF TwinPeer, TwinServe

LEMMA SameEnds ==
    ASSUME BrowserInv, NEW p \in Peers
    PROVE  peer = [peer EXCEPT ![p] = peer[p]] /\ serve = [serve EXCEPT ![p] = serve[p]]
  BY DEF BrowserInv, Shapes

LEMMA NothingChanges ==
    ASSUME BrowserInv, peer' = peer, serve' = serve, toHost' = toHost, hosting' = hosting, missed' = missed
    PROVE  BrowserInv'
  BY DEF BrowserInv, Shapes

LEMMA TwinExcept ==
    ASSUME NEW q, IsPeer(q), NEW h, IsServe(h), NEW u, NEW v
    PROVE  /\ TwinPeer(q, [q EXCEPT !.ticket = u]) /\ TwinPeer(q, [q EXCEPT !.wire = u])
           /\ TwinPeer(q, [q EXCEPT !.late = u]) /\ TwinPeer(q, [q EXCEPT !.sent = u])
           /\ TwinServe(h, [h EXCEPT !.chan = u, !.adm = v]) /\ TwinServe(h, [h EXCEPT !.adm = u])
           /\ TwinServe(h, [h EXCEPT !.chan = u]) /\ TwinServe(h, [h EXCEPT !.sent = u])
           /\ TwinServe(h, [h EXCEPT !.deaf = u])
<1>1. TwinPeer(q, [q EXCEPT !.ticket = u])
  BY DEF TwinPeer, TwinEnd, IsPeer, IsEnd, PeerFields, EndFields
<1>2. TwinPeer(q, [q EXCEPT !.wire = u])
  BY DEF TwinPeer, TwinEnd, IsPeer, IsEnd, PeerFields, EndFields
<1>3. TwinPeer(q, [q EXCEPT !.late = u])
  BY DEF TwinPeer, TwinEnd, IsPeer, IsEnd, PeerFields, EndFields
<1>4. TwinPeer(q, [q EXCEPT !.sent = u])
  BY DEF TwinPeer, TwinEnd, IsPeer, IsEnd, PeerFields, EndFields
<1>5. TwinServe(h, [h EXCEPT !.chan = u, !.adm = v])
  BY DEF TwinServe, TwinEnd, IsServe, IsEnd, ServeFields, EndFields
<1>6. TwinServe(h, [h EXCEPT !.adm = u])
  BY DEF TwinServe, TwinEnd, IsServe, IsEnd, ServeFields, EndFields
<1>7. TwinServe(h, [h EXCEPT !.chan = u])
  BY DEF TwinServe, TwinEnd, IsServe, IsEnd, ServeFields, EndFields
<1>8. TwinServe(h, [h EXCEPT !.sent = u])
  BY DEF TwinServe, TwinEnd, IsServe, IsEnd, ServeFields, EndFields
<1>9. TwinServe(h, [h EXCEPT !.deaf = u])
  BY DEF TwinServe, TwinEnd, IsServe, IsEnd, ServeFields, EndFields
<1> QED
  BY <1>1, <1>2, <1>3, <1>4, <1>5, <1>6, <1>7, <1>8, <1>9

\* ICE, frames, the channel and the admission.
LEMMA ConnectionSteps ==
    ASSUME BrowserInv, NEW p \in Peers, IceSucceeds(p) \/ IceFails(p) \/ NetworkCut(p)
    PROVE  BrowserInv'
  BY NothingChanges DEF IceSucceeds, IceFails, NetworkCut

LEMMA ChannelSteps ==
    ASSUME BrowserInv, NEW p \in Peers, ChannelOpens(p) \/ HearFrame(p)
    PROVE  BrowserInv'
<1> DEFINE q == peer[p]
<1>1. IsPeer(q) /\ IsServe(serve[p]) /\ TwinServe(serve[p], serve[p])
  BY TwinsNow
<1>2. PICK u : peer' = [peer EXCEPT ![p] = [q EXCEPT !.ticket = u]] \/ peer' = [peer EXCEPT ![p] = [q EXCEPT !.wire = u]]
  BY DEF ChannelOpens, HearFrame
<1>3. /\ toHost' = toHost /\ hosting' = hosting /\ missed' = missed
      /\ serve' = [serve EXCEPT ![p] = serve[p]]
  BY SameEnds DEF ChannelOpens, HearFrame
<1>4. TwinPeer(q, [q EXCEPT !.ticket = u]) /\ TwinPeer(q, [q EXCEPT !.wire = u])
  BY <1>1, TwinExcept
<1> QED
  BY <1>1, <1>2, <1>3, <1>4, QuietStep

LEMMA AdmissionSteps ==
    ASSUME BrowserInv, NEW p \in Peers,
           HostChannel(p) \/ HearTicket(p) \/ RefusePeer(p) \/ GrantPeer(p) \/ HostHearsClose(p) \/ KickPeer(p)
    PROVE  BrowserInv'
<1> DEFINE q == peer[p]
           h == serve[p]
<1>1. IsPeer(q) /\ IsServe(h) /\ TwinPeer(q, q)
  BY TwinsNow
<1>2. toHost' = toHost /\ hosting' = hosting /\ missed' = missed
  BY DEF HostChannel, HearTicket, RefusePeer, GrantPeer, HostHearsClose, KickPeer
<1>3. PICK x : peer' = [peer EXCEPT ![p] = x] /\ TwinPeer(q, x)
  <2>1. peer = [peer EXCEPT ![p] = q]
    BY SameEnds
  <2>2. \E u : peer' = peer \/ peer' = [peer EXCEPT ![p] = [q EXCEPT !.ticket = u]]
                 \/ peer' = [peer EXCEPT ![p] = [q EXCEPT !.wire = u]]
    BY DEF HostChannel, HearTicket, RefusePeer, GrantPeer, HostHearsClose, KickPeer, Sends
  <2> HIDE DEF q
  <2>3. \A u : TwinPeer(q, [q EXCEPT !.ticket = u]) /\ TwinPeer(q, [q EXCEPT !.wire = u])
    BY <1>1, TwinExcept
  <2> QED
    BY <1>1, <2>1, <2>2, <2>3
<1>4. PICK k : serve' = [serve EXCEPT ![p] = k] /\ TwinServe(h, k)
  <2>1. \A u, v : /\ TwinServe(h, [h EXCEPT !.chan = u, !.adm = v]) /\ TwinServe(h, [h EXCEPT !.adm = u])
                  /\ TwinServe(h, [h EXCEPT !.chan = u])
    BY <1>1, TwinExcept
  <2>2. CASE HostChannel(p)
    <3>1. serve' = [serve EXCEPT ![p] = [h EXCEPT !.chan = "open", !.adm = "ticket"]]
      BY <2>2, <1>1 DEF HostChannel, BrowserInv, Shapes
    <3> QED
      BY <2>1, <3>1
  <2>3. CASE HearTicket(p) \/ GrantPeer(p) \/ HostHearsClose(p)
    <3>1. \E u : serve' = [serve EXCEPT ![p] = [h EXCEPT !.adm = u]] \/ serve' = [serve EXCEPT ![p] = [h EXCEPT !.chan = u]]
      BY <2>3 DEF HearTicket, GrantPeer, HostHearsClose
    <3> QED
      BY <2>1, <3>1
  <2>4. CASE RefusePeer(p)
    <3> DEFINE g == [h EXCEPT !.adm = "over"]
    <3>1. serve' = [serve EXCEPT ![p] = Closing(g)]
      BY <2>4, <1>1 DEF RefusePeer, BrowserInv, Shapes
    <3>2. Closing(g) = [h EXCEPT !.chan = IF h.chan = "open" THEN "closing" ELSE h.chan, !.adm = "over"]
      <4> HIDE DEF h
      <4> QED
        BY <1>1 DEF Closing, IsServe, ServeFields, EndFields
    <3> QED
      BY <2>1, <3>1, <3>2
  <2>5. CASE KickPeer(p)
    <3>1. serve' = [serve EXCEPT ![p] = [h EXCEPT !.chan = IF h.chan = "open" THEN "closing" ELSE h.chan]]
      BY <2>5, <1>1 DEF KickPeer, BrowserInv, Shapes, Closing
    <3> QED
      BY <2>1, <3>1
  <2> QED
    BY <2>2, <2>3, <2>4, <2>5
<1> QED
  BY <1>2, <1>3, <1>4, QuietStep

-----------------------------------------------------------------------------
(* Losing a connection, or only its signaling socket.                      *)

Deafer(q, x) == (x.sig = q.sig /\ x.inbox = q.inbox) \/ (x.sig = "gone" /\ x.inbox = <<>>)

Ended(x) == x.sig = "gone" /\ x.pc = "over" /\ x.ops = <<>> /\ ~x.local /\ ~x.remote

Dropped(q, x) ==
    /\ IsPeer(x) /\ x.owner = q.owner /\ x.host = q.host /\ Deafer(q, x)
    /\ TwinEnd(q, x) \/ (Ended(x) /\ q.pc # "none")

LEMMA DroppedTwice ==
    ASSUME NEW q, NEW x, NEW y, Dropped(q, x), Dropped(x, y)
    PROVE  Dropped(q, y)
  BY DEF Dropped, Deafer, Ended, TwinEnd

LEMMA DropSound ==
    ASSUME NEW p, NEW q, NEW x, NEW h, NEW th, NEW ho, Sound(p, q, h, th, ho), Dropped(q, x)
    PROVE  Sound(p, x, h, th, ho)
<1>1. \A a, b : ~Holds(<<>>, a) /\ Behind(<<>>, a, b) /\ DOMAIN <<>> = {}
  BY EmptyQueue
<1>2. PeerSound(x)
  <2>1. CASE Ended(x) /\ q.pc # "none"
    <3>1. q.owner # None /\ x.owner = q.owner
      BY <2>1 DEF Sound, PeerSound, Dropped
    <3>2. x.inbox = <<>>
      BY <2>1, <1>1 DEF Sound, PeerSound, Dropped, Deafer, Ended
    <3> QED
      BY <1>1, <2>1, <3>1, <3>2 DEF PeerSound, Ended, Idle, Live
  <2>2. CASE TwinEnd(q, x) /\ x.sig = q.sig /\ x.inbox = q.inbox
    BY <2>2 DEF Sound, PeerSound, Dropped, TwinEnd, Idle, Live
  <2>3. CASE TwinEnd(q, x) /\ x.sig = "gone" /\ x.inbox = <<>>
    BY <1>1, <2>3 DEF Sound, PeerSound, Dropped, TwinEnd, Idle, Live
  <2> QED
    BY <2>1, <2>2, <2>3 DEF Dropped, Deafer
<1>3. WaySound(p, x, h, th, ho)
  BY DEF Sound, WaySound, Dropped, Deafer, Ended, TwinEnd, Live
<1> QED
  BY <1>2, <1>3 DEF Sound

ArePeers(f) == f = [p \in Peers |-> f[p]] /\ \A p \in Peers : IsPeer(f[p])

LEMMA DropsKeep ==
    ASSUME BrowserInv, ArePeers(peer'), \A p \in Peers : Dropped(peer[p], peer'[p]),
           serve' = serve, toHost' = toHost, hosting' = hosting, missed' = missed
    PROVE  BrowserInv'
<1>1. Shapes'
  BY DEF BrowserInv, Shapes, ArePeers
<1>2. ASSUME NEW p \in Peers
      PROVE  Sound(p, peer'[p], serve'[p], toHost', hosting')
  <2>1. Sound(p, peer[p], serve[p], toHost, hosting) /\ Dropped(peer[p], peer'[p])
    BY DEF BrowserInv
  <2> QED
    BY <2>1, DropSound
<1> QED
  BY <1>1, <1>2 DEF BrowserInv

LEMMA TwinDropped ==
    ASSUME NEW q, NEW x, TwinPeer(q, x)
    PROVE  Dropped(q, x)
  BY DEF TwinPeer, TwinEnd, Dropped, Deafer, Ended

LEMMA SelfDropped ==
    ASSUME NEW q, IsPeer(q)
    PROVE  Dropped(q, q)
  BY DEF Dropped, Deafer, Ended, TwinEnd

\* PeerNegotiator.disconnect, with whatever negotiation the client has by then.
LEMMA HangUpDrops ==
    ASSUME NEW w, w = [f \in {"peer", "link"} |-> w[f]], ArePeers(w.peer), NEW n
    PROVE  LET v == HangUp(w, n).peer IN
           ArePeers(v) /\ \A p \in Peers : Dropped(w.peer[p], v[p])
<1> DEFINE q == w.peer[n]
           late == q.late \/ Live(q)
           x == [Closed(q) EXCEPT !.sig = "gone", !.inbox = <<>>, !.ticket = FALSE, !.wire = <<>>,
                                  !.late = late]
           v == HangUp(w, n).peer
<1>1. v = [w.peer EXCEPT ![n] = x]
  BY DEF HangUp
<1>2. CASE n \in Peers
  <2>1. IsPeer(q)
    BY <1>2 DEF ArePeers
  <2>2. Dropped(q, x)
    <3> HIDE DEF q
    <3> DEFINE y == [q EXCEPT !.pc = "over", !.ops = <<>>, !.local = FALSE, !.remote = FALSE, !.sent = FALSE]
    <3>0. <<>> \in Seq(Op) /\ <<>> \in Seq(Signal)
      OBVIOUS
    <3>1. CASE ~Live(q)
      <4>1. x = [q EXCEPT !.sig = "gone", !.inbox = <<>>, !.ticket = FALSE, !.wire = <<>>, !.late = late]
        BY <3>1 DEF Closed
      <4> HIDE DEF late, x
      <4>2. /\ x = [f \in PeerFields |-> x[f]] /\ TwinEnd(q, x) /\ x.owner = q.owner /\ x.host = q.host
            /\ x.sig = "gone" /\ x.inbox = <<>>
        BY <2>1, <4>1 DEF IsPeer, PeerFields, EndFields, TwinEnd
      <4> QED
        BY <2>1, <3>0, <4>2 DEF Dropped, Deafer, Ended, TwinEnd, IsPeer, IsEnd
    <3>2. CASE Live(q)
      <4>1. x = [y EXCEPT !.sig = "gone", !.inbox = <<>>, !.ticket = FALSE, !.wire = <<>>, !.late = late]
        BY <3>2 DEF Closed
      <4>2. /\ y = [f \in PeerFields |-> y[f]] /\ y.pc = "over" /\ y.ops = <<>> /\ y.local = FALSE
            /\ y.remote = FALSE /\ y.owner = q.owner /\ y.host = q.host
        BY <2>1 DEF IsPeer, PeerFields, EndFields
      <4> HIDE DEF late, x, y
      <4>3. /\ x = [f \in PeerFields |-> x[f]] /\ x.owner = q.owner /\ x.host = q.host
            /\ x.sig = "gone" /\ x.inbox = <<>> /\ x.pc = "over" /\ x.ops = <<>> /\ x.local = FALSE
            /\ x.remote = FALSE
        BY <4>1, <4>2 DEF PeerFields, EndFields
      <4> QED
        BY <2>1, <3>0, <3>2, <4>3 DEF Dropped, Deafer, Ended, IsPeer, IsEnd, Live
    <3> QED
      BY <3>1, <3>2
  <2> HIDE DEF x, v
  <2>3. v[n] = x /\ \A p \in Peers \ {n} : v[p] = w.peer[p]
    BY <1>1, <1>2 DEF ArePeers
  <2>4. \A p \in Peers : Dropped(w.peer[p], v[p])
    BY <2>2, <2>3, SelfDropped DEF ArePeers
  <2>5. v = [p \in Peers |-> v[p]]
    BY <1>1 DEF ArePeers
  <2>6. ArePeers(v)
    BY <2>4, <2>5 DEF ArePeers, Dropped
  <2> QED
    BY <2>4, <2>6 DEF v
<1>3. CASE n \notin Peers
  <2>1. v = w.peer
    BY <1>1, <1>3 DEF ArePeers
  <2> QED
    BY <2>1, SelfDropped DEF ArePeers
<1> QED
  BY <1>2, <1>3

\* triggerDisconnect in a world in which something may have been dropped already.
LEMMA LossKeeps ==
    ASSUME BrowserInv, NEW c, NEW r, NEW w, w = [f \in {"peer", "link"} |-> w[f]], ArePeers(w.peer),
           \A p \in Peers : Dropped(peer[p], w.peer[p]), TriggerDisconnect(c, r, w),
           serve' = serve, toHost' = toHost, hosting' = hosting, missed' = missed
    PROVE  BrowserInv'
<1> DEFINE v == IF r.disconnecting \/ r.neg = None THEN w ELSE HangUp(w, r.neg)
<1>1. peer' = v.peer
  BY DEF TriggerDisconnect
<1>2. ArePeers(v.peer) /\ \A p \in Peers : Dropped(peer[p], v.peer[p])
  <2>1. LET u == HangUp(w, r.neg).peer IN ArePeers(u) /\ \A p \in Peers : Dropped(w.peer[p], u[p])
    BY HangUpDrops
  <2> QED
    BY <2>1, DroppedTwice
<1> HIDE DEF v
<1> QED
  BY <1>1, <1>2, DropsKeep

LEMMA PeersNow ==
    ASSUME BrowserInv
    PROVE  /\ ArePeers(peer) /\ BWorld.peer = peer /\ BWorld = [f \in {"peer", "link"} |-> BWorld[f]]
           /\ \A p \in Peers : Dropped(peer[p], peer[p])
  BY SelfDropped DEF BrowserInv, Shapes, ArePeers, BWorld

LEMMA DisconnectStep ==
    ASSUME BrowserInv, NEW c \in Clients, DisconnectRtc(c)
    PROVE  BrowserInv'
<1> DEFINE n == client[c].neg
           w == IF n = None THEN BWorld ELSE HangUp(BWorld, n)
<1>1. /\ peer' = w.peer /\ serve' = serve /\ toHost' = toHost /\ hosting' = hosting /\ missed' = missed
  BY DEF DisconnectRtc
<1>2. ArePeers(w.peer) /\ \A p \in Peers : Dropped(peer[p], w.peer[p])
  <2>1. LET u == HangUp(BWorld, n).peer IN ArePeers(u) /\ \A p \in Peers : Dropped(BWorld.peer[p], u[p])
    BY PeersNow, HangUpDrops
  <2> QED
    BY <2>1, PeersNow
<1> HIDE DEF w
<1> QED
  BY <1>1, <1>2, DropsKeep

LEMMA DownSteps ==
    ASSUME BrowserInv, NEW p \in Peers, HearDown(p) \/ LateEvent(p)
    PROVE  BrowserInv'
<1>1. serve' = serve /\ toHost' = toHost /\ hosting' = hosting /\ missed' = missed
  BY DEF HearDown, LateEvent
<1>2. CASE HearDown(p)
  BY <1>1, <1>2, PeersNow, LossKeeps DEF HearDown
<1>3. CASE LateEvent(p)
  <2> DEFINE q == peer[p]
             x == [q EXCEPT !.late = FALSE]
             w == [BWorld EXCEPT !.peer[p].late = FALSE]
  <2>1. TriggerDisconnect(q.owner, client[q.owner], w)
    BY <1>3 DEF LateEvent
  <2>2. w = [f \in {"peer", "link"} |-> w[f]] /\ w.peer = [peer EXCEPT ![p] = x]
    BY PeersNow
  <2>3. IsPeer(q) /\ IsServe(serve[p])
    BY TwinsNow
  <2>4. TwinPeer(q, x)
    <3> HIDE DEF q
    <3> QED
      BY <2>3, TwinExcept
  <2>5. Dropped(q, x)
    BY <2>4, TwinDropped
  <2> HIDE DEF w, x
  <2>6. w.peer[p] = x /\ (\A o \in Peers \ {p} : w.peer[o] = peer[o]) /\ w.peer = [o \in Peers |-> w.peer[o]]
    BY <2>2, PeersNow DEF ArePeers
  <2>7. ArePeers(w.peer) /\ \A o \in Peers : Dropped(peer[o], w.peer[o])
    BY <2>5, <2>6, PeersNow DEF ArePeers, Dropped
  <2> QED
    BY <1>1, <2>1, <2>2, <2>7, LossKeeps
<1> QED
  BY <1>2, <1>3

LEMMA SignalLostStep ==
    ASSUME BrowserInv, NEW p \in Peers, SignalLost(p)
    PROVE  BrowserInv'
<1> DEFINE q == peer[p]
           x == [q EXCEPT !.sig = "gone", !.inbox = <<>>]
           w == [BWorld EXCEPT !.peer[p].sig = "gone", !.peer[p].inbox = <<>>]
<1>1. serve' = serve /\ toHost' = toHost /\ hosting' = hosting /\ missed' = missed
  BY DEF SignalLost
<1>2. PICK c, r : TriggerDisconnect(c, r, w) \/ peer' = w.peer
  BY DEF SignalLost
<1>3. w = [f \in {"peer", "link"} |-> w[f]] /\ w.peer = [peer EXCEPT ![p] = x]
  BY PeersNow
<1>4. IsPeer(q)
  BY TwinsNow
<1>5. Dropped(q, x)
  <2> HIDE DEF q
  <2>1. <<>> \in Seq(Signal)
    OBVIOUS
  <2>2. /\ x = [f \in PeerFields |-> x[f]] /\ TwinEnd(q, x) /\ x.owner = q.owner /\ x.host = q.host
        /\ x.sig = "gone" /\ x.inbox = <<>>
    BY <1>4 DEF IsPeer, PeerFields, EndFields, TwinEnd
  <2> HIDE DEF x
  <2> QED
    BY <1>4, <2>1, <2>2 DEF Dropped, Deafer, Ended, TwinEnd, IsPeer, IsEnd
<1> HIDE DEF w, x
<1>6. w.peer[p] = x /\ (\A o \in Peers \ {p} : w.peer[o] = peer[o]) /\ w.peer = [o \in Peers |-> w.peer[o]]
  BY <1>3, PeersNow DEF ArePeers
<1>7. ArePeers(w.peer) /\ \A o \in Peers : Dropped(peer[o], w.peer[o])
  BY <1>5, <1>6, PeersNow DEF ArePeers, Dropped
<1> QED
  BY <1>1, <1>2, <1>3, <1>7, LossKeeps, DropsKeep

-----------------------------------------------------------------------------
(* A negotiation is started.                                               *)

LEMMA NextIsUnused ==
    ASSUME Unused # {}
    PROVE  NextPeer \in Peers /\ peer[NextPeer].owner = None
<1> DEFINE R == {ss \in Nat \X Nat : ss[1] < ss[2]}
<1>1. Unused \subseteq Nat
  BY BrowserAssumption DEF Unused, Peers
<1>2. \A x, y \in Nat : x < y => <<x, y>> \in R
  OBVIOUS
<1>3. PICK x \in Unused : \A y \in Unused : <<y, x>> \notin R
  <2>1. IsWellFoundedOn(R, Nat)
    BY NatLessThanWellFounded DEF OpToRel
  <2> HIDE DEF R
  <2> QED
    BY <1>1, <2>1, WFMin
<1> HIDE DEF R
<1>4. \A y \in Unused : x <= y
  <2> SUFFICES ASSUME NEW y \in Unused PROVE x <= y
    OBVIOUS
  <2>1. x \in Nat /\ y \in Nat /\ ~(y < x)
    BY <1>1, <1>2, <1>3
  <2> QED
    BY <2>1
<1> QED
  BY <1>3, <1>4 DEF NextPeer, Unused

\* An end of a negotiation that is not there, or no more, has nothing to lose.
LEMMA StartKeeps ==
    ASSUME BrowserInv, NEW c \in Clients, NEW r, StartNegotiation(c, r)
    PROVE  BrowserInv'
<1>1. PICK n \in Peers : n = NextPeer /\ peer[n].owner = None
  BY NextIsUnused DEF StartNegotiation
<1> DEFINE q == peer[n]
           x == [q EXCEPT !.owner = c, !.sig = "dialing"]
           h == serve[n]
<1>2. IsPeer(q) /\ IsServe(h) /\ Sound(n, q, h, toHost, hosting)
  BY TwinsNow
<1>3. /\ peer' = [peer EXCEPT ![n] = x] /\ serve' = [serve EXCEPT ![n] = h]
      /\ toHost' = toHost /\ hosting' = hosting /\ missed' = missed
  BY <1>1, SameEnds DEF StartNegotiation, BrowserInv, Shapes
<1>4. q.owner = None
  BY <1>1
<1> HIDE DEF q, h
<1>5. IsPeer(x) /\ TwinEnd(q, x) /\ x.inbox = q.inbox /\ x.host = q.host /\ x.owner = c /\ x.sig = "dialing"
  BY <1>2 DEF IsPeer, IsEnd, PeerFields, EndFields, TwinEnd
<1> HIDE DEF x
<1>6. q.pc = "none" /\ x.owner # None
  BY <1>2, <1>4, <1>5, BrowserAssumption DEF Sound, PeerSound
<1>7. q.inbox = <<>> \/ q.sig = "in"
  BY <1>2 DEF Sound, PeerSound
<1>8. PeerSound(x)
  BY <1>2, <1>4, <1>5, <1>6, <1>7, EmptyQueue DEF Sound, PeerSound, TwinEnd, Idle, Live
<1>9. WaySound(n, x, h, toHost, hosting)
  BY <1>2, <1>5, <1>6 DEF Sound, WaySound, TwinEnd, Live
<1> QED
  BY <1>2, <1>3, <1>5, <1>8, <1>9, QuietWay DEF Sound

LEMMA StartSteps ==
    ASSUME BrowserInv, NEW c \in Clients, ConnectRtc(c) \/ ReconnectRtc(c)
    PROVE  BrowserInv'
  BY StartKeeps DEF ConnectRtc, ReconnectRtc

LEMMA SignalUpStep ==
    ASSUME BrowserInv, NEW p \in Peers, SignalUp(p)
    PROVE  BrowserInv'
<1> DEFINE q == peer[p]
           h == serve[p]
           x == [q EXCEPT !.sig = "in", !.inbox = <<"welcome">>, !.host = (hosting = "in")]
<1>1. IsPeer(q) /\ IsServe(h) /\ Sound(p, q, h, toHost, hosting)
  BY TwinsNow
<1>2. /\ peer' = [peer EXCEPT ![p] = x] /\ serve' = [serve EXCEPT ![p] = h]
      /\ toHost' = toHost /\ hosting' = hosting /\ missed' = missed
  BY SameEnds DEF SignalUp, BrowserInv, Shapes
<1>3. q.sig = "dialing"
  BY DEF SignalUp
<1> HIDE DEF q, h
<1>4. /\ IsPeer(x) /\ TwinEnd(q, x) /\ x.inbox = <<"welcome">> /\ x.host = (hosting = "in")
      /\ x.owner = q.owner /\ x.sig = "in"
  <2>1. <<"welcome">> \in Seq(Signal)
    BY DEF Signal
  <2> QED
    BY <1>1, <2>1 DEF IsPeer, IsEnd, PeerFields, EndFields, TwinEnd
<1> HIDE DEF x
<1>5. q.pc = "none" /\ q.owner # None
  BY <1>1, <1>3 DEF Sound, PeerSound
<1>6. \A i \in DOMAIN x.inbox : i = 1 /\ x.inbox[i] = "welcome"
  BY <1>4
<1>7. PeerSound(x)
  BY <1>1, <1>4, <1>5, <1>6 DEF Sound, PeerSound, TwinEnd, Idle, Live, Holds
<1>8. WaySound(p, x, h, toHost, hosting)
  BY <1>1, <1>4, <1>5 DEF Sound, PeerSound, WaySound, TwinEnd, Idle, Live
<1> QED
  BY <1>1, <1>2, <1>4, <1>7, <1>8, QuietWay DEF Sound

-----------------------------------------------------------------------------
(* The operations of a peer connection.                                    *)

\* Of an end only the queue, the descriptions and what was found may change.
SameSide(q, x) ==
    /\ DOMAIN x = DOMAIN q
    /\ \A f \in DOMAIN q \ {"ops", "local", "remote", "found"} : x[f] = q[f]

LEMMA QueueEnd ==
    ASSUME NEW q, EndFields \subseteq DOMAIN q, q = [f \in DOMAIN q |-> q[f]], NEW op
    PROVE  LET x == Queue(q, op) IN
           /\ x = [f \in DOMAIN q |-> x[f]] /\ SameSide(q, x)
           /\ x.ops = Append(q.ops, op) /\ x.local = q.local /\ x.remote = q.remote
  BY DEF Queue, SameSide, EndFields

LEMMA RanEnd ==
    ASSUME NEW q, EndFields \subseteq DOMAIN q, q = [f \in DOMAIN q |-> q[f]], IsEnd(q)
    PROVE  LET x == Ran(q) IN
           /\ x = [f \in DOMAIN q |-> x[f]] /\ SameSide(q, x) /\ {x.local, x.remote} \subseteq BOOLEAN
           /\ x.ops = Tail(q.ops)
           /\ x.local = (q.local \/ (Works(q) /\ Head(q.ops) \in {"offer", "answer"}))
           /\ x.remote = (q.remote \/ (Works(q) /\ Head(q.ops) \in {"set offer", "set answer"}))
<1> DEFINE op == Head(q.ops)
           rest == [q EXCEPT !.ops = Tail(@)]
           local == rest.local \/ op \in {"offer", "answer"}
           remote == rest.remote \/ op \in {"set offer", "set answer"}
           found == rest.found \/ op = "candidate"
<1>1. /\ rest = [f \in DOMAIN q |-> rest[f]] /\ DOMAIN rest = DOMAIN q
      /\ \A f \in DOMAIN q \ {"ops"} : rest[f] = q[f]
      /\ rest.ops = Tail(q.ops)
  BY DEF EndFields
<1>2. CASE ~Works(q)
  BY <1>1, <1>2 DEF Ran, SameSide, EndFields, IsEnd
<1>3. CASE Works(q)
  <2>1. Ran(q) = [rest EXCEPT !.local = local, !.remote = remote, !.found = found]
    BY <1>3 DEF Ran
  <2> HIDE DEF rest
  <2>2. rest.local = q.local /\ rest.remote = q.remote
    BY <1>1 DEF EndFields
  <2> QED
    BY <1>1, <1>3, <2>1, <2>2 DEF SameSide, EndFields, IsEnd
<1> QED
  BY <1>2, <1>3

\* What the client's end makes of a signal, of one that has not come too early.
LEMMA HearSignalStep ==
    ASSUME BrowserInv, NEW p \in Peers, HearSignal(p)
    PROVE  BrowserInv'
<1> DEFINE q == peer[p]
           h == serve[p]
           x == OnSignal(q)
           rest == [q EXCEPT !.inbox = Tail(@)]
<1>1. IsPeer(q) /\ IsServe(h) /\ Sound(p, q, h, toHost, hosting)
  BY TwinsNow
<1>2. /\ peer' = [peer EXCEPT ![p] = x] /\ serve' = [serve EXCEPT ![p] = h]
      /\ toHost' = toHost /\ hosting' = hosting
      /\ missed' = IF Head(q.inbox) = "ice" /\ q.pc = "none" THEN missed \cup {p} ELSE missed
  BY SameEnds DEF HearSignal, BrowserInv, Shapes
<1>3. q.sig = "in" /\ q.inbox # <<>>
  BY DEF HearSignal
<1> HIDE DEF q, h
<1> DEFINE kind == Head(q.inbox)
           left == Tail(q.inbox)
<1>4. /\ q.inbox \in Seq(Signal) /\ q.ops \in Seq(Op) /\ kind \in Signal /\ left \in Seq(Signal)
      /\ 1 \in DOMAIN q.inbox /\ kind = q.inbox[1] /\ Holds(q.inbox, kind)
      /\ \A i \in DOMAIN left : i \in Nat /\ i + 1 \in DOMAIN q.inbox /\ i + 1 # 1 /\ left[i] = q.inbox[i + 1]
      /\ \A y : Holds(left, y) => Holds(q.inbox, y)
      /\ \A y : Holds(q.inbox, y) /\ kind # y => Holds(left, y)
      /\ \A y, z : Behind(q.inbox, y, z) => kind # y
      /\ \A y, z : Behind(q.inbox, y, z) /\ kind # z => Behind(left, y, z)
  <2>1. q.inbox \in Seq(Signal) /\ q.ops \in Seq(Op)
    BY <1>1 DEF IsPeer, IsEnd
  <2>2. Len(q.inbox) \in Nat /\ DOMAIN left = 1..Len(q.inbox) - 1
    BY <1>3, <2>1, TailKeeps
  <2>3. \A i \in DOMAIN left : i \in Nat /\ i + 1 # 1
    BY <2>2
  <2> QED
    BY <1>3, <2>1, <2>3, TailKeeps
<1>5. ~ \E i \in DOMAIN left : left[i] = "welcome"
  BY <1>1, <1>4 DEF Sound, PeerSound
<1>6. kind = "ice" => q.pc # "none" /\ (Live(q) => q.remote \/ Holds(q.ops, "set answer"))
  BY <1>1, <1>4 DEF Sound, PeerSound
<1>7. missed' = missed
  BY <1>2, <1>6
<1>8. /\ IsPeer(rest) /\ TwinEnd(q, rest) /\ rest.owner = q.owner /\ rest.sig = "in" /\ rest.host = q.host
      /\ rest.inbox = left
  <2> HIDE DEF left
  <2>1. rest = [q EXCEPT !.inbox = left]
    BY DEF left
  <2> QED
    BY <1>1, <1>3, <1>4, <2>1 DEF IsPeer, IsEnd, PeerFields, EndFields, TwinEnd
<1> HIDE DEF left, rest
<1>9. /\ IsPeer(x) /\ x.owner = q.owner /\ x.sig = "in" /\ x.inbox = left /\ x.local = q.local /\ x.remote = q.remote
      /\ x.host \in {q.host, FALSE}
      /\ \/ kind = "welcome" /\ q.host /\ x.host /\ x.pc = "live" /\ x.ops = Append(q.ops, "offer")
         \/ kind = "answer" /\ Live(q) /\ x.pc = q.pc /\ x.ops = Append(q.ops, "set answer")
         \/ kind = "ice" /\ Live(q) /\ x.pc = q.pc /\ x.ops = Append(q.ops, "candidate")
         \/ x.pc = q.pc /\ x.ops = q.ops /\ (kind = "answer" => ~Live(q))
  <2>1. \A op \in Op : Append(q.ops, op) \in Seq(Op)
    BY <1>4, AppendKeeps
  <2>2. ASSUME NEW op \in Op, x = Queue(rest, op)
        PROVE  /\ IsPeer(x) /\ x.owner = q.owner /\ x.sig = "in" /\ x.inbox = left /\ x.local = q.local
               /\ x.remote = q.remote /\ x.host = q.host /\ x.pc = q.pc /\ x.ops = Append(q.ops, op)
    <3> HIDE DEF x
    <3>1. rest.ops = q.ops /\ rest.pc = q.pc /\ rest.local = q.local /\ rest.remote = q.remote
      BY <1>8 DEF TwinEnd
    <3>2. x = [rest EXCEPT !.ops = Append(q.ops, op)]
      BY <2>2, <3>1 DEF Queue
    <3> QED
      BY <1>8, <2>1, <3>1, <3>2 DEF IsPeer, IsEnd, PeerFields, EndFields
  <2>3. CASE kind = "welcome"
    <3>1. CASE q.host
      <4> DEFINE y == [rest EXCEPT !.pc = "live"]
      <4>1. x = Queue(y, "offer")
        BY <2>3, <3>1 DEF OnSignal, rest
      <4>2. /\ IsPeer(y) /\ y.ops = q.ops /\ y.local = q.local /\ y.remote = q.remote /\ y.pc = "live"
            /\ y.owner = q.owner /\ y.sig = "in" /\ y.host = q.host /\ y.inbox = left
        BY <1>8 DEF IsPeer, IsEnd, PeerFields, EndFields, TwinEnd
      <4> HIDE DEF x, y
      <4>3. x = [y EXCEPT !.ops = Append(q.ops, "offer")]
        BY <4>1, <4>2 DEF Queue
      <4>4. Append(q.ops, "offer") \in Seq(Op)
        BY <2>1 DEF Op
      <4>5. /\ IsPeer(x) /\ x.local = q.local /\ x.remote = q.remote /\ x.pc = "live" /\ x.owner = q.owner
            /\ x.sig = "in" /\ x.host = q.host /\ x.inbox = left /\ x.ops = Append(q.ops, "offer")
        BY <4>2, <4>3, <4>4 DEF IsPeer, IsEnd, PeerFields, EndFields
      <4> QED
        BY <2>3, <3>1, <4>5
    <3>2. CASE ~q.host
      <4>1. x = rest
        BY <2>3, <3>2 DEF OnSignal, rest
      <4> QED
        BY <1>8, <2>3, <4>1 DEF TwinEnd
    <3> QED
      BY <3>1, <3>2
  <2>4. CASE kind \in {"answer", "ice"} /\ ~Live(q)
    <3>1. x = rest
      BY <2>4 DEF OnSignal, rest
    <3> QED
      BY <1>8, <2>4, <3>1 DEF TwinEnd
  <2>5. CASE kind = "answer" /\ Live(q)
    <3>1. x = Queue(rest, "set answer") /\ "set answer" \in Op
      BY <2>5 DEF OnSignal, rest, Op
    <3> HIDE DEF x
    <3> QED
      BY <2>2, <2>5, <3>1
  <2>6. CASE kind = "ice" /\ Live(q)
    <3>1. x = Queue(rest, "candidate") /\ "candidate" \in Op
      BY <2>6 DEF OnSignal, rest, Op
    <3> HIDE DEF x
    <3> QED
      BY <2>2, <2>6, <3>1
  <2>7. CASE kind = "elected"
    <3>1. x = [rest EXCEPT !.host = FALSE]
      BY <2>7 DEF OnSignal, rest
    <3> HIDE DEF x
    <3> QED
      BY <1>8, <2>7, <3>1 DEF TwinEnd, IsPeer, IsEnd, PeerFields, EndFields
  <2> QED
    BY <1>4, <2>3, <2>4, <2>5, <2>6, <2>7 DEF Signal
<1> HIDE DEF x, kind
<1>10. kind = "welcome" => /\ q.pc = "none" /\ q.ops = <<>> /\ ~q.local /\ ~q.remote /\ h.pc = "none" /\ ~h.local
                           /\ ~Holds(left, "answer") /\ ~Holds(left, "ice")
  BY <1>1, <1>4 DEF Sound, PeerSound, WaySound, ServeSound, Idle, Live
<1>11. \A op \in Op : x.ops = Append(q.ops, op) =>
           /\ \A y : Holds(x.ops, y) <=> Holds(q.ops, y) \/ y = op
           /\ \A y, z : Behind(q.ops, y, z) /\ (op = y => Holds(q.ops, z)) => Behind(x.ops, y, z)
  BY <1>4, AppendKeeps
<1>12. PeerSound(x)
  <2>1. Idle(x)
    BY <1>1, <1>9 DEF Sound, PeerSound, Idle, Live
  <2>2. ~Holds(x.ops, "answer")
    BY <1>1, <1>9, <1>11 DEF Sound, PeerSound, Op
  <2>3. x.pc = "none" => q.pc = "none"
    BY <1>9 DEF Live
  <2>4. Holds(x.inbox, "answer") \/ Holds(x.inbox, "ice") => x.pc # "none"
    BY <1>1, <1>4, <1>9, <2>3 DEF Sound, PeerSound
  <2>5. ASSUME Live(x)
        PROVE  /\ x.local \/ Holds(x.ops, "offer")
               /\ x.local \/ Behind(x.ops, "set answer", "offer")
               /\ x.remote \/ Behind(x.ops, "candidate", "set answer")
               /\ x.remote \/ Holds(x.ops, "set answer") \/ Behind(x.inbox, "ice", "answer")
    <3>1. CASE kind = "welcome" /\ x.ops = Append(q.ops, "offer")
      <4>1. \A y, z : Behind(q.ops, y, z)
        BY <1>10, <3>1, EmptyQueue
      <4>2. Behind(x.inbox, "ice", "answer")
        BY <1>9, <1>10, <3>1 DEF Holds, Behind
      <4> QED
        BY <1>11, <3>1, <4>1, <4>2 DEF Op
    <3>2. CASE kind = "answer" /\ Live(q) /\ x.ops = Append(q.ops, "set answer")
      BY <1>1, <1>9, <1>11, <3>2 DEF Sound, PeerSound, Op
    <3>3. CASE kind = "ice" /\ Live(q) /\ x.ops = Append(q.ops, "candidate")
      BY <1>1, <1>4, <1>6, <1>9, <1>11, <3>3 DEF Sound, PeerSound, Op
    <3>4. CASE x.pc = q.pc /\ x.ops = q.ops /\ (kind = "answer" => ~Live(q))
      BY <1>1, <1>4, <1>9, <2>5, <3>4 DEF Sound, PeerSound, Live
    <3> QED
      BY <1>9, <3>1, <3>2, <3>3, <3>4
  <2>6. ~(x.owner = None)
    BY <1>1, <1>3, <1>9 DEF Sound, PeerSound
  <2> QED
    BY <1>5, <1>9, <2>1, <2>2, <2>4, <2>5, <2>6 DEF PeerSound
<1>13. WaySound(p, x, h, toHost, hosting)
  <2>1. (q.pc # "none" => x.pc # "none") /\ (x.local => q.local) /\ (x.host => q.host)
    BY <1>9 DEF Live
  <2>2. h.local /\ hosting = "in" /\ Live(x) =>
            x.remote \/ Holds(x.ops, "set answer") \/ Holds(x.inbox, "answer")
    <3> SUFFICES ASSUME h.local, hosting = "in", Live(x), ~q.remote
                 PROVE  Holds(x.ops, "set answer") \/ Holds(x.inbox, "answer")
      BY <1>9
    <3>1. kind # "welcome"
      BY <1>10
    <3>2. Live(q)
      BY <1>9, <3>1 DEF Live
    <3>3. Holds(q.ops, "set answer") \/ Holds(q.inbox, "answer")
      BY <1>1, <1>3, <3>2 DEF Sound, WaySound
    <3>4. CASE kind = "answer"
      BY <1>9, <1>11, <3>2, <3>4 DEF Op
    <3>5. CASE kind # "answer"
      BY <1>4, <1>9, <1>11, <3>1, <3>3, <3>5 DEF Op
    <3> QED
      BY <3>4, <3>5
  <2> QED
    BY <1>1, <1>3, <1>9, <2>1, <2>2 DEF Sound, WaySound
<1> QED
  BY <1>1, <1>2, <1>7, <1>9, <1>12, <1>13, QuietWay DEF Sound

-----------------------------------------------------------------------------
(* What the client's peer connection does.                                 *)

LEMMA PostKeeps ==
    ASSUME BrowserInv, NEW p \in Peers, NEW kind \in {"offer", "ice"}, ToHost(p, kind)
    PROVE  /\ toHost' \in Seq({"offer", "ice"} \X Peers)
           /\ toHost' # <<>> => hosting = "in"
           /\ \A y : Holds(toHost', y) <=> Holds(toHost, y) \/ (toHost' # toHost /\ y = <<kind, p>>)
           /\ \A y, z : Behind(toHost, y, z) /\ (y = <<kind, p>> => Holds(toHost, z)) => Behind(toHost', y, z)
           /\ peer[p].sig = "in" /\ peer[p].host /\ hosting = "in" => Holds(toHost', <<kind, p>>)
           /\ \A i \in DOMAIN toHost' : toHost'[i][2] # p => i \in DOMAIN toHost /\ toHost'[i] = toHost[i]
           /\ \A r \in Peers \ {p} : \A q, h :
                 WaySound(r, q, h, toHost, hosting) => WaySound(r, q, h, toHost', hosting)
<1> DEFINE S == {"offer", "ice"} \X Peers
           z == <<kind, p>>
<1>1. toHost \in Seq(S) /\ z \in S /\ (toHost # <<>> => hosting = "in")
  BY DEF BrowserInv, Shapes
<1>2. CASE toHost' = toHost /\ ~(peer[p].sig = "in" /\ peer[p].host /\ hosting = "in")
  BY <1>1, <1>2
<1>3. CASE toHost' = Append(toHost, z) /\ peer[p].sig = "in" /\ peer[p].host /\ hosting = "in"
  <2> DEFINE t == Append(toHost, z)
  <2>1. /\ t \in Seq(S) /\ DOMAIN t = 1..Len(toHost) + 1 /\ t[Len(toHost) + 1] = z
        /\ \A i \in DOMAIN toHost : i \in DOMAIN t /\ t[i] = toHost[i]
        /\ \A y : Holds(t, y) <=> Holds(toHost, y) \/ y = z
        /\ \A x, y : Behind(toHost, x, y) /\ (z = x => Holds(toHost, y)) => Behind(t, x, y)
    <3> HIDE DEF S, z
    <3> QED
      BY <1>1, AppendKeeps
  <2>2. t # toHost /\ DOMAIN toHost = 1..Len(toHost) /\ Len(toHost) \in Nat
    <3>1. Len(t) = Len(toHost) + 1 /\ DOMAIN toHost = 1..Len(toHost) /\ Len(toHost) \in Nat
      BY <1>1
    <3> HIDE DEF t
    <3> QED
      BY <3>1
  <2> HIDE DEF t
  <2>3. \A i \in DOMAIN t : i \in DOMAIN toHost \/ i = Len(toHost) + 1
    BY <2>1, <2>2
  <2>4. \A i \in DOMAIN t : t[i][2] # p => i \in DOMAIN toHost /\ t[i] = toHost[i]
    BY <2>1, <2>3
  <2>5. ASSUME NEW r \in Peers \ {p}, NEW q, NEW h, WaySound(r, q, h, toHost, hosting)
        PROVE  WaySound(r, q, h, t, hosting)
    <3>1. z # <<"ice", r>>
      OBVIOUS
    <3> HIDE DEF z
    <3> QED
      BY <2>1, <2>4, <2>5, <3>1 DEF WaySound
  <2> QED
    BY <1>1, <1>3, <2>1, <2>2, <2>4, <2>5 DEF t
<1> QED
  BY <1>2, <1>3 DEF ToHost

\* The next operation of the client's end; the offer is sent when it is set.
LEMMA PeerOpStep ==
    ASSUME BrowserInv, NEW p \in Peers, PeerOp(p)
    PROVE  BrowserInv'
<1> DEFINE q == peer[p]
           h == serve[p]
           x == Ran(q)
           op == Head(q.ops)
<1>1. IsPeer(q) /\ IsServe(h) /\ Sound(p, q, h, toHost, hosting)
  BY TwinsNow
<1>2. /\ peer' = [peer EXCEPT ![p] = x] /\ serve' = [serve EXCEPT ![p] = h] /\ hosting' = hosting
      /\ missed' = IF MissesOne(q) THEN missed \cup {p} ELSE missed
      /\ IF op = "offer" THEN ToHost(p, "offer") ELSE toHost' = toHost
  BY SameEnds DEF PeerOp
<1>3. Live(q) /\ q.ops # <<>>
  BY DEF PeerOp
<1>4. /\ op = "offer" => ToHost(p, "offer")
      /\ op # "offer" => toHost' = toHost
      /\ toHost' \in Seq({"offer", "ice"} \X Peers)
      /\ toHost' # <<>> => hosting = "in"
      /\ \A r \in Peers \ {p} : WaySound(r, peer[r], serve[r], toHost, hosting)
                                   => WaySound(r, peer[r], serve[r], toHost', hosting)
  BY <1>2, PostKeeps DEF BrowserInv, Shapes
<1>5. op = "offer" =>
         /\ \A y : Holds(toHost, y) => Holds(toHost', y)
         /\ Behind(toHost, <<"ice", p>>, <<"offer", p>>) => Behind(toHost', <<"ice", p>>, <<"offer", p>>)
         /\ q.sig = "in" /\ q.host /\ hosting = "in" => Holds(toHost', <<"offer", p>>)
  BY <1>4, PostKeeps
<1> HIDE DEF q, h
<1>6. /\ q.ops \in Seq(Op) /\ op \in Op /\ x.ops \in Seq(Op) /\ Holds(q.ops, op)
      /\ \A y : Holds(Tail(q.ops), y) => Holds(q.ops, y)
      /\ \A y : Holds(q.ops, y) /\ op # y => Holds(Tail(q.ops), y)
      /\ \A y, z : Behind(q.ops, y, z) => op # y
      /\ \A y, z : Behind(q.ops, y, z) /\ op # z => Behind(Tail(q.ops), y, z)
      /\ x = [f \in DOMAIN q |-> x[f]] /\ SameSide(q, x) /\ {x.local, x.remote} \subseteq BOOLEAN
      /\ x.ops = Tail(q.ops)
      /\ x.local = (q.local \/ (Works(q) /\ op \in {"offer", "answer"}))
      /\ x.remote = (q.remote \/ (Works(q) /\ op \in {"set offer", "set answer"}))
      /\ DOMAIN q = PeerFields
  <2>1. IsEnd(q) /\ DOMAIN q = PeerFields /\ EndFields \subseteq DOMAIN q /\ q = [f \in DOMAIN q |-> q[f]]
        /\ q.ops \in Seq(Op)
    BY <1>1 DEF IsPeer, IsEnd, PeerFields, EndFields
  <2> DEFINE s == q.ops
             rest == Tail(s)
  <2>2. /\ rest \in Seq(Op) /\ Head(s) \in Op /\ Holds(s, Head(s))
        /\ \A y : Holds(rest, y) => Holds(s, y)
        /\ \A y : Holds(s, y) /\ Head(s) # y => Holds(rest, y)
        /\ \A y, z : Behind(s, y, z) => Head(s) # y
        /\ \A y, z : Behind(s, y, z) /\ Head(s) # z => Behind(rest, y, z)
    <3>1. s \in Seq(Op) /\ s # <<>>
      BY <1>3, <2>1
    <3> HIDE DEF s
    <3> QED
      BY <3>1, TailKeeps
  <2>3. /\ x = [f \in DOMAIN q |-> x[f]] /\ SameSide(q, x) /\ {x.local, x.remote} \subseteq BOOLEAN
        /\ x.ops = rest
        /\ x.local = (q.local \/ (Works(q) /\ op \in {"offer", "answer"}))
        /\ x.remote = (q.remote \/ (Works(q) /\ op \in {"set offer", "set answer"}))
    BY <2>1, RanEnd
  <2> HIDE DEF x
  <2> QED
    BY <2>1, <2>2, <2>3
<1> HIDE DEF x
<1>7. /\ x.pc = q.pc /\ x.sig = q.sig /\ x.inbox = q.inbox /\ x.owner = q.owner /\ x.host = q.host
      /\ x = [f \in PeerFields |-> x[f]]
  BY <1>6 DEF SameSide, PeerFields, EndFields
<1>8. IsPeer(x)
  BY <1>1, <1>6, <1>7 DEF IsPeer, IsEnd
<1>9. /\ op = "offer" => Works(q)
      /\ op = "set answer" => Works(q) /\ q.local
      /\ op = "candidate" => Works(q) /\ q.remote
      /\ op # "answer"
  BY <1>1, <1>3, <1>6 DEF Sound, PeerSound, Works
<1>10. missed' = missed
  BY <1>2, <1>9 DEF MissesOne
<1> HIDE DEF op
<1>11. PeerSound(x)
  BY <1>1, <1>3, <1>6, <1>7, <1>9 DEF Sound, PeerSound, Idle, Live
<1>12. WaySound(p, x, h, toHost', hosting)
  <2>1. x.local /\ x.sig = "in" /\ x.host /\ hosting = "in" => h.pc # "none" \/ Holds(toHost', <<"offer", p>>)
    BY <1>1, <1>4, <1>5, <1>6, <1>7, <1>9 DEF Sound, WaySound
  <2>2. h.local /\ x.sig = "in" /\ hosting = "in" /\ Live(x) =>
            x.remote \/ Holds(x.ops, "set answer") \/ Holds(x.inbox, "answer")
    BY <1>1, <1>3, <1>6, <1>7, <1>9 DEF Sound, WaySound, Live
  <2>3. h.pc # "none" \/ Behind(toHost', <<"ice", p>>, <<"offer", p>>)
    BY <1>1, <1>4, <1>5 DEF Sound, WaySound
  <2>4. x.pc # "none"
    BY <1>3, <1>7 DEF Live
  <2> QED
    BY <1>1, <1>7, <2>1, <2>2, <2>3, <2>4 DEF Sound, WaySound
<1> QED
  BY <1>1, <1>2, <1>4, <1>8, <1>10, <1>11, <1>12, OneStep DEF Sound, q, h

\* Its candidate is sent after its offer.
LEMMA PeerCandidateStep ==
    ASSUME BrowserInv, NEW p \in Peers, PeerCandidate(p)
    PROVE  BrowserInv'
<1> DEFINE q == peer[p]
           h == serve[p]
           x == [q EXCEPT !.sent = TRUE]
<1>1. IsPeer(q) /\ IsServe(h) /\ Sound(p, q, h, toHost, hosting) /\ TwinServe(h, h)
  BY TwinsNow
<1>2. /\ peer' = [peer EXCEPT ![p] = x] /\ serve' = [serve EXCEPT ![p] = h] /\ hosting' = hosting
      /\ missed' = missed /\ ToHost(p, "ice")
  BY SameEnds DEF PeerCandidate
<1>3. Live(q) /\ q.local
  BY DEF PeerCandidate
<1>4. /\ toHost' \in Seq({"offer", "ice"} \X Peers)
      /\ toHost' # <<>> => hosting = "in"
      /\ \A r \in Peers \ {p} : WaySound(r, peer[r], serve[r], toHost, hosting)
                                   => WaySound(r, peer[r], serve[r], toHost', hosting)
      /\ \A y : Holds(toHost, y) => Holds(toHost', y)
      /\ Behind(toHost, <<"ice", p>>, <<"offer", p>>) /\ Holds(toHost, <<"offer", p>>)
            => Behind(toHost', <<"ice", p>>, <<"offer", p>>)
      /\ toHost' = toHost \/ (q.sig = "in" /\ q.host /\ hosting = "in")
  BY <1>2, PostKeeps DEF ToHost
<1> HIDE DEF q, h
<1>5. TwinPeer(q, x)
  BY <1>1, TwinExcept
<1>6. Sound(p, q, h, toHost', hosting)
  <2>1. h.pc # "none" \/ Behind(toHost', <<"ice", p>>, <<"offer", p>>)
    BY <1>1, <1>3, <1>4 DEF Sound, WaySound
  <2>2. q.pc # "none"
    BY <1>3 DEF Live
  <2> QED
    BY <1>1, <1>4, <2>1, <2>2 DEF Sound, WaySound
<1>7. Sound(p, x, h, toHost', hosting)
  BY <1>1, <1>5, <1>6, TwinsSound
<1> QED
  BY <1>1, <1>2, <1>4, <1>5, <1>7, OneStep DEF TwinPeer

-----------------------------------------------------------------------------
(* What the host's peer connection does.                                   *)

\* The host answers a peer it has heard of; its candidate comes after the answer.
LEMMA AnswerKeeps ==
    ASSUME BrowserInv, NEW p \in Peers, NEW kind \in {"answer", "ice"}, ToPeer(p, kind),
           serve[p].pc # "none", kind = "ice" => serve[p].local
    PROVE  \E x : /\ peer' = [peer EXCEPT ![p] = x]
                  /\ IsPeer(x) /\ PeerSound(x) /\ TwinEnd(peer[p], x)
                  /\ x.sig = peer[p].sig /\ x.host = peer[p].host
                  /\ \A y : Holds(peer[p].inbox, y) => Holds(x.inbox, y)
                  /\ x.sig = "in" /\ hosting = "in" => Holds(x.inbox, kind)
<1> DEFINE q == peer[p]
           h == serve[p]
           x == [q EXCEPT !.inbox = Append(@, kind)]
<1>1. IsPeer(q) /\ IsServe(h) /\ Sound(p, q, h, toHost, hosting) /\ TwinEnd(q, q)
  BY TwinsNow DEF TwinPeer
<1>2. CASE ~(hosting = "in" /\ q.sig = "in")
  <2>1. peer' = [peer EXCEPT ![p] = q]
    BY <1>2, SameEnds DEF ToPeer
  <2> HIDE DEF q
  <2>2. IsPeer(q) /\ PeerSound(q) /\ TwinEnd(q, q) /\ ~(q.sig = "in" /\ hosting = "in")
    BY <1>1, <1>2 DEF Sound
  <2> QED
    BY <2>1, <2>2 DEF q
<1>3. CASE hosting = "in" /\ q.sig = "in"
  <2>1. peer' = [peer EXCEPT ![p] = x]
    BY <1>3 DEF ToPeer
  <2>2. h.pc # "none" /\ (kind = "ice" => h.local)
    OBVIOUS
  <2> HIDE DEF q, h
  <2>3. /\ q.inbox \in Seq(Signal) /\ kind \in Signal
    BY <1>1 DEF IsPeer, Signal
  <2> DEFINE t == Append(q.inbox, kind)
  <2>4. /\ t \in Seq(Signal)
        /\ \A i \in DOMAIN t : (i \in DOMAIN q.inbox /\ t[i] = q.inbox[i]) \/ t[i] = kind
        /\ \A y : Holds(t, y) <=> Holds(q.inbox, y) \/ y = kind
        /\ \A y, z : Behind(q.inbox, y, z) /\ (kind = y => Holds(q.inbox, z)) => Behind(t, y, z)
    <3>1. /\ t \in Seq(Signal) /\ DOMAIN t = 1..Len(q.inbox) + 1 /\ t[Len(q.inbox) + 1] = kind
          /\ \A i \in DOMAIN q.inbox : i \in DOMAIN t /\ t[i] = q.inbox[i]
          /\ \A y : Holds(t, y) <=> Holds(q.inbox, y) \/ y = kind
          /\ \A y, z : Behind(q.inbox, y, z) /\ (kind = y => Holds(q.inbox, z)) => Behind(t, y, z)
      BY <2>3, AppendKeeps
    <3> DEFINE s == q.inbox
    <3>2. \A i \in 1..Len(s) + 1 : i \in DOMAIN s \/ i = Len(s) + 1
      <4>1. s \in Seq(Signal)
        BY <2>3
      <4> HIDE DEF s
      <4>2. DOMAIN s = 1..Len(s) /\ Len(s) \in Nat
        BY <4>1
      <4> QED
        BY <4>2
    <3> HIDE DEF t
    <3> QED
      BY <3>1, <3>2
  <2>5. x.inbox = t
    BY <1>1 DEF IsPeer, PeerFields, EndFields
  <2> HIDE DEF t
  <2>6. IsPeer(x) /\ TwinEnd(q, x) /\ x.sig = q.sig /\ x.host = q.host /\ x.owner = q.owner
    BY <1>1, <2>4, <2>5 DEF IsPeer, IsEnd, PeerFields, EndFields, TwinEnd
  <2> HIDE DEF x
  <2>7. q.pc # "none"
    BY <1>1, <2>2 DEF Sound, WaySound
  <2>8. kind = "ice" /\ Live(q) => q.remote \/ Holds(q.ops, "set answer") \/ Holds(q.inbox, "answer")
    BY <1>1, <1>3, <2>2 DEF Sound, WaySound
  <2>9. kind # "welcome"
    OBVIOUS
  <2>10. PeerSound(x)
    <3>1. Live(x) => x.remote \/ Holds(x.ops, "set answer") \/ Behind(x.inbox, "ice", "answer")
      BY <1>1, <2>4, <2>5, <2>6, <2>8 DEF Sound, PeerSound, TwinEnd, Live
    <3>2. \A i \in DOMAIN x.inbox : x.inbox[i] = "welcome" => i = 1 /\ x.pc = "none"
      BY <1>1, <2>4, <2>5, <2>6, <2>9 DEF Sound, PeerSound, TwinEnd
    <3> QED
      BY <1>1, <1>3, <2>6, <2>7, <3>1, <3>2 DEF Sound, PeerSound, TwinEnd, Idle, Live
  <2> QED
    BY <2>1, <2>4, <2>5, <2>6, <2>10 DEF q
<1> QED
  BY <1>2, <1>3

LEMMA HostOpStep ==
    ASSUME BrowserInv, NEW p \in Peers, HostOp(p)
    PROVE  BrowserInv'
<1> DEFINE q == peer[p]
           h == serve[p]
           k == Ran(h)
           op == Head(h.ops)
<1>1. IsPeer(q) /\ IsServe(h) /\ Sound(p, q, h, toHost, hosting) /\ TwinEnd(q, q)
  BY TwinsNow DEF TwinPeer
<1>2. /\ serve' = [serve EXCEPT ![p] = k] /\ hosting' = hosting /\ toHost' = toHost
      /\ missed' = IF MissesOne(h) THEN missed \cup {p} ELSE missed
      /\ IF op = "answer" /\ Works(h) THEN ToPeer(p, "answer") ELSE peer' = peer
  BY DEF HostOp
<1>3. Live(h) /\ h.ops # <<>> /\ h.pc # "none"
  BY DEF HostOp, Live
<1>4. PICK x : /\ peer' = [peer EXCEPT ![p] = x]
               /\ IsPeer(x) /\ PeerSound(x) /\ TwinEnd(q, x) /\ x.sig = q.sig /\ x.host = q.host
               /\ \A y : Holds(q.inbox, y) => Holds(x.inbox, y)
               /\ op = "answer" /\ Works(h) /\ x.sig = "in" /\ hosting = "in" => Holds(x.inbox, "answer")
  <2>1. CASE op = "answer" /\ Works(h)
    BY <1>2, <1>3, <2>1, AnswerKeeps
  <2>2. CASE ~(op = "answer" /\ Works(h))
    <3>1. peer' = [peer EXCEPT ![p] = q]
      BY <1>2, <2>2, SameEnds
    <3> HIDE DEF q, h, op
    <3> QED
      BY <1>1, <2>2, <3>1 DEF Sound
  <2> QED
    BY <2>1, <2>2
<1> HIDE DEF q, h
<1>5. /\ op \in Op /\ k.ops \in Seq(Op) /\ Holds(h.ops, op)
      /\ \A y : Holds(k.ops, y) => Holds(h.ops, y)
      /\ \A y : Holds(h.ops, y) /\ op # y => Holds(k.ops, y)
      /\ \A y, z : Behind(h.ops, y, z) => op # y
      /\ \A y, z : Behind(h.ops, y, z) /\ op # z => Behind(k.ops, y, z)
      /\ k = [f \in ServeFields |-> k[f]] /\ k.pc = h.pc /\ {k.local, k.remote} \subseteq BOOLEAN
      /\ k.local = (h.local \/ (Works(h) /\ op \in {"offer", "answer"}))
      /\ k.remote = (h.remote \/ (Works(h) /\ op \in {"set offer", "set answer"}))
  <2>1. IsEnd(h) /\ DOMAIN h = ServeFields /\ EndFields \subseteq DOMAIN h /\ h = [f \in DOMAIN h |-> h[f]]
        /\ h.ops \in Seq(Op)
    BY <1>1 DEF IsServe, IsEnd, ServeFields, EndFields
  <2> DEFINE s == h.ops
             rest == Tail(s)
  <2>2. /\ rest \in Seq(Op) /\ Head(s) \in Op /\ Holds(s, Head(s))
        /\ \A y : Holds(rest, y) => Holds(s, y)
        /\ \A y : Holds(s, y) /\ Head(s) # y => Holds(rest, y)
        /\ \A y, z : Behind(s, y, z) => Head(s) # y
        /\ \A y, z : Behind(s, y, z) /\ Head(s) # z => Behind(rest, y, z)
    <3>1. s \in Seq(Op) /\ s # <<>>
      BY <1>3, <2>1
    <3> HIDE DEF s
    <3> QED
      BY <3>1, TailKeeps
  <2>3. /\ k = [f \in DOMAIN h |-> k[f]] /\ SameSide(h, k) /\ {k.local, k.remote} \subseteq BOOLEAN
        /\ k.ops = rest
        /\ k.local = (h.local \/ (Works(h) /\ op \in {"offer", "answer"}))
        /\ k.remote = (h.remote \/ (Works(h) /\ op \in {"set offer", "set answer"}))
    BY <2>1, RanEnd
  <2> HIDE DEF k
  <2>4. k.pc = h.pc
    BY <2>1, <2>3 DEF SameSide, EndFields
  <2> QED
    BY <2>1, <2>2, <2>3, <2>4
<1> HIDE DEF k
<1>6. IsServe(k)
  BY <1>5 DEF IsServe, IsEnd
<1>7. /\ op = "set offer" => Works(h)
      /\ op = "candidate" => Works(h)
      /\ op # "offer"
  BY <1>1, <1>3, <1>5 DEF Sound, ServeSound, Works
<1>8. missed' = missed
  BY <1>2, <1>7 DEF MissesOne
<1> HIDE DEF op
<1>9. ServeSound(k)
  BY <1>1, <1>3, <1>5, <1>7 DEF Sound, ServeSound, Idle, Live
<1>10. WaySound(p, x, k, toHost, hosting)
  <2>1. k.local => h.local \/ (op = "answer" /\ Works(h))
    BY <1>5, <1>7
  <2>2. k.local /\ x.sig = "in" /\ hosting = "in" /\ Live(x) =>
            x.remote \/ Holds(x.ops, "set answer") \/ Holds(x.inbox, "answer")
    BY <1>1, <1>4, <2>1 DEF Sound, WaySound, TwinEnd, Live
  <2> QED
    BY <1>1, <1>4, <1>5, <2>2 DEF Sound, WaySound, TwinEnd
<1> QED
  BY <1>2, <1>4, <1>6, <1>8, <1>9, <1>10, QuietWay DEF Sound

LEMMA HostCandidateStep ==
    ASSUME BrowserInv, NEW p \in Peers, HostCandidate(p)
    PROVE  BrowserInv'
<1> DEFINE q == peer[p]
           h == serve[p]
           k == [h EXCEPT !.sent = TRUE]
<1>1. IsPeer(q) /\ IsServe(h) /\ Sound(p, q, h, toHost, hosting)
  BY TwinsNow
<1>2. /\ serve' = [serve EXCEPT ![p] = k] /\ hosting' = hosting /\ toHost' = toHost /\ missed' = missed
      /\ ToPeer(p, "ice") /\ h.pc # "none" /\ h.local
  BY DEF HostCandidate, Live
<1>3. PICK x : /\ peer' = [peer EXCEPT ![p] = x]
               /\ IsPeer(x) /\ PeerSound(x) /\ TwinEnd(q, x) /\ x.sig = q.sig /\ x.host = q.host
               /\ \A y : Holds(q.inbox, y) => Holds(x.inbox, y)
  BY <1>2, AnswerKeeps
<1> HIDE DEF q, h
<1>4. TwinServe(h, k)
  BY <1>1, TwinExcept
<1> HIDE DEF k
<1>5. IsServe(k) /\ ServeSound(k)
  BY <1>1, <1>4 DEF Sound, ServeSound, TwinServe, TwinEnd, Idle, Live
<1>6. WaySound(p, x, k, toHost, hosting)
  BY <1>1, <1>3, <1>4 DEF Sound, WaySound, TwinServe, TwinEnd, Live
<1> QED
  BY <1>2, <1>3, <1>5, <1>6, QuietWay DEF Sound

-----------------------------------------------------------------------------
(* The host's end hears a signal, or is closed; the host itself goes.      *)

LEMMA HostHearsStep ==
    ASSUME BrowserInv, HostHears
    PROVE  BrowserInv'
<1> DEFINE S == {"offer", "ice"} \X Peers
           z == Head(toHost)
           left == Tail(toHost)
<1>1. toHost \in Seq(S) /\ toHost # <<>> /\ hosting = "in"
  BY DEF HostHears, BrowserInv, Shapes
<1>2. /\ left \in Seq(S) /\ z \in S /\ 1 \in DOMAIN toHost /\ z = toHost[1]
      /\ \A i \in DOMAIN left : i + 1 \in DOMAIN toHost /\ left[i] = toHost[i + 1]
      /\ \A y : Holds(toHost, y) /\ z # y => Holds(left, y)
      /\ \A x, y : Behind(toHost, x, y) => z # x
      /\ \A x, y : Behind(toHost, x, y) /\ z # y => Behind(left, x, y)
  <2> HIDE DEF S
  <2> QED
    BY <1>1, TailKeeps
<1>3. PICK kind \in {"offer", "ice"}, p \in Peers : z = <<kind, p>> /\ z[1] = kind /\ z[2] = p
  <2> HIDE DEF z
  <2> QED
    BY <1>2
<1> DEFINE q == peer[p]
           h == serve[p]
           k == OnHostSignal(h, kind)
<1>4. IsPeer(q) /\ IsServe(h) /\ Sound(p, q, h, toHost, hosting)
  BY TwinsNow
<1>5. /\ serve' = [serve EXCEPT ![p] = k] /\ peer' = [peer EXCEPT ![p] = q]
      /\ toHost' = left /\ hosting' = hosting
      /\ missed' = IF kind = "ice" /\ h.pc = "none" THEN missed \cup {p} ELSE missed
  <2>1. /\ serve' = [serve EXCEPT ![z[2]] = OnHostSignal(serve[z[2]], z[1])] /\ peer' = peer
        /\ toHost' = left /\ hosting' = hosting
        /\ missed' = IF z[1] = "ice" /\ serve[z[2]].pc = "none" THEN missed \cup {z[2]} ELSE missed
    BY DEF HostHears
  <2>2. peer = [peer EXCEPT ![p] = q]
    BY SameEnds
  <2> HIDE DEF z, left, q
  <2> QED
    BY <1>3, <2>1, <2>2
<1> HIDE DEF q, h, z, left
<1>6. q.pc # "none"
  BY <1>2, <1>3, <1>4 DEF Sound, WaySound
<1>7. kind = "ice" => h.pc # "none"
  BY <1>2, <1>3, <1>4 DEF Sound, WaySound
<1>8. missed' = missed
  BY <1>5, <1>7
<1>9. h.ops \in Seq(Op) /\ {"set offer", "answer", "candidate"} \subseteq Op
  BY <1>4 DEF IsServe, IsEnd, Op
<1> DEFINE s == Append(h.ops, "set offer")
           t == Append(s, "answer")
           u == Append(h.ops, "candidate")
<1>10. /\ s \in Seq(Op) /\ t \in Seq(Op) /\ u \in Seq(Op)
       /\ \A y : Holds(t, y) <=> Holds(h.ops, y) \/ y \in {"set offer", "answer"}
       /\ \A y : Holds(u, y) <=> Holds(h.ops, y) \/ y = "candidate"
       /\ Behind(h.ops, "candidate", "set offer") => Behind(t, "candidate", "set offer")
       /\ Behind(h.ops, "candidate", "set offer") /\ Holds(h.ops, "set offer") => Behind(u, "candidate", "set offer")
  <2>1. ASSUME NEW e \in Seq(Op), NEW op \in Op
        PROVE  /\ Append(e, op) \in Seq(Op)
               /\ \A y : Holds(Append(e, op), y) <=> Holds(e, y) \/ y = op
               /\ \A x, y : Behind(e, x, y) /\ (op = x => Holds(e, y)) => Behind(Append(e, op), x, y)
    BY AppendKeeps
  <2>2. /\ s \in Seq(Op) /\ \A y : Holds(s, y) <=> Holds(h.ops, y) \/ y = "set offer"
        /\ Behind(h.ops, "candidate", "set offer") => Behind(s, "candidate", "set offer")
    BY <1>9, <2>1
  <2>3. /\ u \in Seq(Op) /\ \A y : Holds(u, y) <=> Holds(h.ops, y) \/ y = "candidate"
        /\ Behind(h.ops, "candidate", "set offer") /\ Holds(h.ops, "set offer") => Behind(u, "candidate", "set offer")
    BY <1>9, <2>1
  <2> HIDE DEF s, u
  <2>4. /\ t \in Seq(Op) /\ \A y : Holds(t, y) <=> Holds(s, y) \/ y = "answer"
        /\ Behind(s, "candidate", "set offer") => Behind(t, "candidate", "set offer")
    BY <1>9, <2>1, <2>2
  <2> QED
    BY <2>2, <2>3, <2>4
<1>11. /\ IsServe(k) /\ k.local = h.local /\ k.remote = h.remote
       /\ \/ kind = "offer" /\ k.pc = "live" /\ k.ops = t
          \/ kind = "ice" /\ Live(h) /\ k.pc = h.pc /\ k.ops = u
          \/ kind = "ice" /\ ~Live(h) /\ k.pc = h.pc /\ k.ops = h.ops
  <2>1. CASE kind = "offer"
    <3> DEFINE a == Queue(h, "set offer")
               b == Queue(a, "answer")
    <3>1. k = [b EXCEPT !.pc = "live"]
      BY <2>1 DEF OnHostSignal
    <3>2. a = [h EXCEPT !.ops = s]
      BY DEF Queue
    <3> HIDE DEF a
    <3>3. /\ a = [f \in ServeFields |-> a[f]] /\ a.ops = s
          /\ \A f \in ServeFields \ {"ops"} : a[f] = h[f]
      <4> HIDE DEF s
      <4> QED
        BY <1>4, <3>2 DEF IsServe, ServeFields, EndFields
    <3>4. b = [a EXCEPT !.ops = t]
      BY <3>3 DEF Queue
    <3> HIDE DEF b, k, t
    <3>5. /\ k = [f \in ServeFields |-> k[f]] /\ k.ops = t /\ k.pc = "live"
          /\ \A f \in ServeFields \ {"ops", "pc"} : k[f] = h[f]
      BY <3>1, <3>3, <3>4 DEF ServeFields, EndFields
    <3> QED
      BY <1>4, <1>10, <2>1, <3>5 DEF IsServe, IsEnd, ServeFields, EndFields
  <2>2. CASE kind = "ice" /\ Live(h)
    <3>1. k = [h EXCEPT !.ops = u]
      BY <2>2 DEF OnHostSignal, Queue
    <3> HIDE DEF k, u
    <3> QED
      BY <1>4, <1>10, <2>2, <3>1 DEF IsServe, IsEnd, ServeFields, EndFields
  <2>3. CASE kind = "ice" /\ ~Live(h)
    <3>1. k = h
      BY <2>3 DEF OnHostSignal
    <3> QED
      BY <1>4, <2>3, <3>1
  <2> QED
    BY <2>1, <2>2, <2>3
<1> HIDE DEF k, s, t, u
<1>12. ServeSound(k)
  <2>1. CASE kind = "offer" /\ k.pc = "live" /\ k.ops = t
    <3>1. k.remote \/ Behind(h.ops, "candidate", "set offer")
      BY <1>4, <1>11, EmptyQueue DEF Sound, ServeSound, Idle
    <3>2. ~Holds(h.ops, "offer")
      BY <1>4 DEF Sound, ServeSound
    <3> QED
      BY <1>10, <2>1, <3>1, <3>2 DEF ServeSound, Idle, Live
  <2>2. CASE kind = "ice" /\ Live(h) /\ k.pc = h.pc /\ k.ops = u
    BY <1>4, <1>10, <1>11, <2>2 DEF Sound, ServeSound, Idle, Live
  <2>3. CASE kind = "ice" /\ ~Live(h) /\ k.pc = h.pc /\ k.ops = h.ops
    BY <1>4, <1>11, <2>3 DEF Sound, ServeSound, Idle, Live
  <2> QED
    BY <1>11, <2>1, <2>2, <2>3
<1>13. WaySound(p, q, k, left, hosting)
  <2>1. k.pc # "none"
    BY <1>7, <1>11
  <2> QED
    BY <1>1, <1>2, <1>4, <1>6, <1>11, <2>1 DEF Sound, WaySound
<1>14. ASSUME NEW r \in Peers \ {p}, WaySound(r, peer[r], serve[r], toHost, hosting)
       PROVE  WaySound(r, peer[r], serve[r], left, hosting)
  <2>1. z # <<"offer", r>>
    BY <1>3
  <2> QED
    BY <1>2, <1>14, <2>1 DEF WaySound
<1> QED
  BY <1>1, <1>2, <1>4, <1>5, <1>8, <1>11, <1>12, <1>13, <1>14, OneStep DEF Sound

\* The host's end as it was, or closed.
GivenUpEnd(h, k) ==
    /\ IsServe(k)
    /\ TwinEnd(h, k) \/ (k.pc = "over" /\ h.pc # "none" /\ k.ops = <<>> /\ ~k.local /\ ~k.remote)

LEMMA GivenUpSound ==
    ASSUME NEW p, NEW q, NEW h, NEW k, NEW th, NEW ho, Sound(p, q, h, th, ho), GivenUpEnd(h, k)
    PROVE  ServeSound(k) /\ WaySound(p, q, k, th, ho)
<1>1. ServeSound(k)
  <2>1. CASE TwinEnd(h, k)
    BY <2>1 DEF Sound, ServeSound, TwinEnd, Idle, Live
  <2>2. CASE k.pc = "over" /\ k.ops = <<>> /\ ~k.local /\ ~k.remote
    BY <2>2, EmptyQueue DEF ServeSound, Idle, Live
  <2> QED
    BY <2>1, <2>2 DEF GivenUpEnd
<1>2. WaySound(p, q, k, th, ho)
  BY DEF Sound, WaySound, GivenUpEnd, TwinEnd, Live
<1> QED
  BY <1>1, <1>2

LEMMA DeafenedEnd ==
    ASSUME NEW h, IsServe(h)
    PROVE  GivenUpEnd(h, Deafened(h))
<1> DEFINE c == Closed(h)
           deaf == c.deaf \/ (Live(h) /\ h.adm = "granting" /\ h.chan # "closed")
           k == [c EXCEPT !.deaf = deaf]
<1>1. Deafened(h) = k
  BY DEF Deafened
<1>2. /\ c = [f \in ServeFields |-> c[f]]
      /\ TwinEnd(h, c) \/ (c.pc = "over" /\ h.pc # "none" /\ c.ops = <<>> /\ c.local = FALSE /\ c.remote = FALSE)
  BY DEF IsServe, ServeFields, EndFields, Closed, TwinEnd, Live
<1> HIDE DEF c, deaf
<1>3. k = [f \in ServeFields |-> k[f]] /\ TwinEnd(c, k)
  BY <1>2 DEF ServeFields, EndFields, TwinEnd
<1> HIDE DEF k
<1>4. <<>> \in Seq(Op)
  OBVIOUS
<1>5. TwinEnd(h, k) \/ (k.pc = "over" /\ h.pc # "none" /\ k.ops = <<>> /\ ~k.local /\ ~k.remote)
  BY <1>2, <1>3 DEF TwinEnd
<1>6. {k.local, k.remote} \subseteq BOOLEAN /\ k.ops \in Seq(Op)
  BY <1>2, <1>3, <1>4 DEF TwinEnd, IsServe, IsEnd
<1> QED
  BY <1>1, <1>3, <1>5, <1>6 DEF GivenUpEnd, IsServe, IsEnd

LEMMA HostHearsDownStep ==
    ASSUME BrowserInv, NEW p \in Peers, HostHearsDown(p)
    PROVE  BrowserInv'
<1> DEFINE q == peer[p]
           h == serve[p]
           k == Deafened(h)
<1>1. IsPeer(q) /\ IsServe(h) /\ Sound(p, q, h, toHost, hosting)
  BY TwinsNow
<1>2. /\ serve' = [serve EXCEPT ![p] = k] /\ peer' = [peer EXCEPT ![p] = q]
      /\ toHost' = toHost /\ hosting' = hosting /\ missed' = missed
  BY SameEnds DEF HostHearsDown
<1> HIDE DEF q, h
<1>3. GivenUpEnd(h, k)
  BY <1>1, DeafenedEnd
<1>4. IsServe(k) /\ Sound(p, q, k, toHost, hosting)
  BY <1>1, <1>3, GivenUpSound DEF Sound, GivenUpEnd
<1> QED
  BY <1>1, <1>2, <1>4, QuietWay

\* A peer hears of an election, or does not.
Told(q, x) ==
    /\ IsPeer(x) /\ TwinEnd(q, x) /\ x.owner = q.owner /\ x.sig = q.sig /\ x.host = q.host
    /\ x.inbox = q.inbox \/ (q.sig = "in" /\ x.inbox = Append(q.inbox, "elected"))

LEMMA ToldSound ==
    ASSUME NEW q, NEW x, IsPeer(q), PeerSound(q), Told(q, x)
    PROVE  PeerSound(x)
<1>1. CASE x.inbox = q.inbox
  BY <1>1 DEF PeerSound, Told, TwinEnd, Idle, Live
<1>2. CASE q.sig = "in" /\ x.inbox = Append(q.inbox, "elected")
  <2>1. /\ \A y : Holds(x.inbox, y) <=> Holds(q.inbox, y) \/ y = "elected"
        /\ \A y, z : Behind(q.inbox, y, z) /\ ("elected" = y => Holds(q.inbox, z)) => Behind(x.inbox, y, z)
        /\ \A i \in DOMAIN x.inbox : (i \in DOMAIN q.inbox /\ x.inbox[i] = q.inbox[i]) \/ x.inbox[i] = "elected"
    <3> DEFINE s == q.inbox
               t == Append(s, "elected")
    <3>1. s \in Seq(Signal) /\ "elected" \in Signal
      BY DEF IsPeer, Signal
    <3> HIDE DEF s
    <3>2. /\ DOMAIN t = 1..Len(s) + 1 /\ t[Len(s) + 1] = "elected"
          /\ \A i \in DOMAIN s : t[i] = s[i]
          /\ \A y : Holds(t, y) <=> Holds(s, y) \/ y = "elected"
          /\ \A y, z : Behind(s, y, z) /\ ("elected" = y => Holds(s, z)) => Behind(t, y, z)
      BY <3>1, AppendKeeps
    <3>3. \A i \in 1..Len(s) + 1 : i \in DOMAIN s \/ i = Len(s) + 1
      <4>1. DOMAIN s = 1..Len(s) /\ Len(s) \in Nat
        BY <3>1
      <4> QED
        BY <4>1
    <3>4. x.inbox = t
      BY <1>2 DEF s
    <3> HIDE DEF t
    <3> QED
      BY <3>2, <3>3, <3>4 DEF s
  <2>2. x.sig = "in"
    BY <1>2 DEF Told
  <2>3. \A i \in DOMAIN x.inbox : x.inbox[i] = "welcome" => i = 1 /\ x.pc = "none"
    BY <2>1 DEF PeerSound, Told, TwinEnd
  <2> QED
    BY <2>1, <2>2, <2>3 DEF PeerSound, Told, TwinEnd, Idle, Live
<1> QED
  BY <1>1, <1>2 DEF Told

\* The host leaves the signaling room, and perhaps closes its ends.
LEMMA HostGone ==
    ASSUME BrowserInv, ArePeers(peer'), \A p \in Peers : Told(peer[p], peer'[p]),
           serve' = [p \in Peers |-> serve'[p]], \A p \in Peers : GivenUpEnd(serve[p], serve'[p]),
           toHost' = <<>>, hosting' \in {"gone", "disposed"}, missed' = missed
    PROVE  BrowserInv'
<1>1. Shapes'
  <2>1. <<>> \in Seq({"offer", "ice"} \X Peers)
    OBVIOUS
  <2> QED
    BY <2>1 DEF Shapes, ArePeers, GivenUpEnd
<1>2. ASSUME NEW p \in Peers
      PROVE  Sound(p, peer'[p], serve'[p], toHost', hosting')
  <2> DEFINE q == peer[p]
             h == serve[p]
             x == peer'[p]
             k == serve'[p]
  <2>1. /\ IsPeer(q) /\ Sound(p, q, h, toHost, hosting) /\ Told(q, x) /\ GivenUpEnd(h, k)
        /\ toHost' = <<>> /\ hosting' \in {"gone", "disposed"}
    BY TwinsNow
  <2> HIDE DEF q, h, x, k
  <2>2. PeerSound(x)
    BY <2>1, ToldSound DEF Sound
  <2>3. ServeSound(k)
    BY <2>1, GivenUpSound
  <2>4. k.pc # "none" => x.pc # "none"
    BY <2>1 DEF Sound, WaySound, Told, GivenUpEnd, TwinEnd
  <2>5. WaySound(p, x, k, toHost', hosting')
    <3>1. DOMAIN toHost' = {} /\ \A y, z : Behind(toHost', y, z)
      BY <2>1, EmptyQueue
    <3>2. hosting' # "in" /\ hosting' # "off"
      BY <2>1
    <3> QED
      BY <2>4, <3>1, <3>2 DEF WaySound
  <2> QED
    BY <2>2, <2>3, <2>5 DEF Sound, x, k
<1> QED
  BY <1>1, <1>2 DEF BrowserInv

LEMMA ReelectedTold ==
    ASSUME BrowserInv
    PROVE  ArePeers(Reelected) /\ \A p \in Peers : Told(peer[p], Reelected[p]) /\ Told(peer[p], peer[p])
<1>1. ASSUME NEW p \in Peers
      PROVE  Told(peer[p], Reelected[p]) /\ Told(peer[p], peer[p])
  <2> DEFINE q == peer[p]
             x == [q EXCEPT !.inbox = Append(@, "elected")]
  <2>1. Reelected[p] = IF q.sig = "in" THEN x ELSE q
    BY DEF Reelected
  <2>2. IsPeer(q)
    BY TwinsNow
  <2> HIDE DEF q
  <2>3. Told(q, q)
    BY <2>2 DEF Told, TwinEnd
  <2>4. q.sig = "in" => Told(q, x)
    <3>1. Append(q.inbox, "elected") \in Seq(Signal)
      BY <2>2 DEF IsPeer, Signal
    <3> DEFINE t == Append(q.inbox, "elected")
    <3>2. x = [q EXCEPT !.inbox = t]
      OBVIOUS
    <3> HIDE DEF t, x
    <3>3. /\ x = [f \in PeerFields |-> x[f]] /\ x.inbox = t /\ x.host = q.host /\ x.sig = q.sig
          /\ x.owner = q.owner /\ TwinEnd(q, x)
      BY <2>2, <3>2 DEF IsPeer, PeerFields, EndFields, TwinEnd
    <3> QED
      BY <2>2, <3>1, <3>3 DEF Told, TwinEnd, IsPeer, IsEnd, t
  <2> QED
    BY <2>1, <2>3, <2>4 DEF q
<1>2. Reelected = [p \in Peers |-> Reelected[p]]
  BY DEF Reelected
<1> QED
  BY <1>1, <1>2 DEF ArePeers, Told

LEMMA HostGoes ==
    ASSUME BrowserInv, HostConnects \/ HostSignalLost \/ DisposeHost
    PROVE  BrowserInv'
<1>1. CASE HostConnects
  <2>1. /\ hosting = "off" /\ hosting' = "in" /\ peer' = peer /\ serve' = serve /\ toHost' = toHost
        /\ missed' = missed /\ \A p \in Peers : peer[p].sig # "in"
    BY <1>1 DEF HostConnects
  <2>2. \A p \in Peers : Sound(p, peer[p], serve[p], toHost, "in")
    BY <2>1 DEF BrowserInv, Sound, WaySound
  <2> QED
    BY <2>1, <2>2 DEF BrowserInv, Shapes
<1>2. CASE HostSignalLost
  <2>1. /\ peer' = Reelected /\ serve' = serve /\ toHost' = <<>> /\ hosting' = "gone" /\ missed' = missed
    BY <1>2 DEF HostSignalLost
  <2>2. serve = [p \in Peers |-> serve[p]] /\ \A p \in Peers : GivenUpEnd(serve[p], serve[p])
    BY DEF BrowserInv, Shapes, GivenUpEnd, TwinEnd
  <2> QED
    BY <2>1, <2>2, ReelectedTold, HostGone
<1>3. CASE DisposeHost
  <2> DEFINE told == IF hosting = "in" THEN Reelected ELSE peer
             mine == {p \in table.channels : serve[p].chan = "open" /\ link[p] = "up"}
             ended(p) == IF p \in table.channels THEN Closing(serve[p]) ELSE serve[p]
  <2>1. /\ peer' = [p \in Peers |-> IF p \in mine THEN [told[p] EXCEPT !.wire = Append(@, "final")] ELSE told[p]]
        /\ serve' = [p \in Peers |-> Deafened(ended(p))]
        /\ toHost' = <<>> /\ hosting' = "disposed" /\ missed' = missed
    BY <1>3 DEF DisposeHost
  <2>2. \A p \in Peers : Told(peer[p], told[p])
    BY ReelectedTold
  <2> HIDE DEF told, mine
  <2>3. ASSUME NEW p \in Peers
        PROVE  Told(peer[p], peer'[p])
    <3> DEFINE x == told[p]
               wire == Append(x.wire, "final")
               y == [x EXCEPT !.wire = wire]
    <3>1. peer'[p] = IF p \in mine THEN y ELSE x
      BY <2>1
    <3>2. Told(peer[p], x) /\ IsServe(serve[p])
      BY <2>2, TwinsNow
    <3> HIDE DEF x, wire
    <3>3. TwinPeer(x, y)
      BY <3>2, TwinExcept DEF Told
    <3> HIDE DEF y
    <3>4. Told(peer[p], y)
      BY <3>2, <3>3 DEF Told, TwinPeer, TwinEnd
    <3> QED
      BY <3>1, <3>2, <3>4
  <2>4. ArePeers(peer')
    BY <2>1, <2>3 DEF ArePeers, Told
  <2>5. ASSUME NEW p \in Peers
        PROVE  GivenUpEnd(serve[p], serve'[p])
    <3> DEFINE h == serve[p]
               g == ended(p)
    <3>1. IsServe(h) /\ serve'[p] = Deafened(g)
      BY <2>1, TwinsNow
    <3>2. g = h \/ g = Closing(h)
      OBVIOUS
    <3> HIDE DEF g, h
    <3>3. IsServe(g) /\ TwinEnd(h, g)
      BY <3>1, <3>2 DEF IsServe, IsEnd, ServeFields, EndFields, TwinEnd, Closing
    <3>4. GivenUpEnd(g, Deafened(g))
      BY <3>3, DeafenedEnd
    <3>5. GivenUpEnd(h, Deafened(g))
      BY <3>3, <3>4 DEF GivenUpEnd, TwinEnd
    <3> QED
      BY <3>1, <3>5 DEF h
  <2>6. serve' = [p \in Peers |-> serve'[p]]
    BY <2>1
  <2> QED
    BY <2>1, <2>3, <2>4, <2>5, <2>6, HostGone
<1> QED
  BY <1>1, <1>2, <1>3

-----------------------------------------------------------------------------
(* The theorem.                                                            *)

LEMMA BrowserStarts == BrowserInit => BrowserInv
<1> SUFFICES ASSUME BrowserInit PROVE BrowserInv
  OBVIOUS
<1>1. /\ toHost = <<>> /\ missed = {}
      /\ <<>> \in Seq(Op) /\ <<>> \in Seq(Signal) /\ <<>> \in Seq({"offer", "ice"} \X Peers)
  BY DEF BrowserInit
<1>2. Shapes
  BY <1>1 DEF BrowserInit, Shapes, IsPeer, IsServe, IsEnd, PeerFields, ServeFields, EndFields
<1>3. ASSUME NEW p \in Peers
      PROVE  Sound(p, peer[p], serve[p], toHost, hosting)
  <2>1. /\ peer[p].pc = "none" /\ peer[p].ops = <<>> /\ ~peer[p].local /\ ~peer[p].remote
        /\ peer[p].inbox = <<>> /\ peer[p].sig = "none" /\ ~peer[p].host
        /\ serve[p].pc = "none" /\ serve[p].ops = <<>> /\ ~serve[p].local /\ ~serve[p].remote
    BY DEF BrowserInit
  <2>2. DOMAIN <<>> = {} /\ \A y, z : ~Holds(<<>>, y) /\ Behind(<<>>, y, z)
    BY EmptyQueue
  <2>3. PeerSound(peer[p])
    BY <2>1, <2>2 DEF PeerSound, Idle, Live
  <2>4. ServeSound(serve[p])
    BY <2>1, <2>2 DEF ServeSound, Idle, Live
  <2>5. WaySound(p, peer[p], serve[p], toHost, hosting)
    BY <1>1, <2>1, <2>2 DEF WaySound
  <2> QED
    BY <2>3, <2>4, <2>5 DEF Sound
<1> QED
  BY <1>1, <1>2, <1>3 DEF BrowserInv

LEMMA BrowserStep == BrowserInv /\ [BrowserNext]_browserVars => BrowserInv'
<1> SUFFICES ASSUME BrowserInv, [BrowserNext]_browserVars PROVE BrowserInv'
  OBVIOUS
<1>1. CASE UNCHANGED browserVars
  BY <1>1, NothingChanges DEF browserVars
<1>2. ASSUME NEW c \in Clients, ConnectRtc(c) \/ DisconnectRtc(c) \/ ReconnectRtc(c)
      PROVE  BrowserInv'
  BY <1>2, StartSteps, DisconnectStep
<1>3. ASSUME NEW p \in Peers,
             \/ SignalUp(p) \/ SignalLost(p) \/ HearSignal(p) \/ PeerOp(p) \/ PeerCandidate(p)
             \/ IceSucceeds(p) \/ IceFails(p) \/ NetworkCut(p)
             \/ ChannelOpens(p) \/ HearFrame(p) \/ HearDown(p) \/ LateEvent(p)
      PROVE  BrowserInv'
  BY <1>3, SignalUpStep, SignalLostStep, HearSignalStep, PeerOpStep, PeerCandidateStep, ConnectionSteps,
     ChannelSteps, DownSteps
<1>4. ASSUME NEW p \in Peers,
             \/ HostOp(p) \/ HostCandidate(p) \/ HostHearsDown(p) \/ HostChannel(p) \/ HearTicket(p)
             \/ RefusePeer(p) \/ GrantPeer(p) \/ HostHearsClose(p) \/ KickPeer(p)
      PROVE  BrowserInv'
  BY <1>4, HostOpStep, HostCandidateStep, HostHearsDownStep, AdmissionSteps
<1>5. CASE HostConnects \/ HostSignalLost \/ DisposeHost
  BY <1>5, HostGoes
<1>6. CASE HostHears
  BY <1>6, HostHearsStep
<1> QED
  BY <1>1, <1>2, <1>3, <1>4, <1>5, <1>6 DEF BrowserNext

\* Whatever arrives while descriptions are being set, a candidate is never added before
\* the description it belongs to, nor handed to a connection that is not there yet: the
\* opQueue of NativeBrowserPeer and the order in which both sides send (onicecandidate
\* after setLocalDescription) are enough.
THEOREM NoCandidateMissed == BrowserSpec => []NothingMissed
<1>1. BrowserSpec => []BrowserInv
  BY BrowserStarts, BrowserStep, PTL DEF BrowserSpec
<1> QED
  BY <1>1, BrowserProperty, PTL
==============================================================================
