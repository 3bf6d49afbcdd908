----------------------------- MODULE BrowserRtc -----------------------------
(***************************************************************************)
(* A game hosted in a browser tab: the browser's RTCClient, the two halves *)
(* of its NegotiationCore over NativeBrowserPeer, and the browser's        *)
(* RTCTransport.  What RtcSession abstracts is followed here: the queue    *)
(* of asynchronous operations of a peer connection, and candidates, which  *)
(* have to come after the descriptions they belong to.                     *)
(*                                                                         *)
(* As in RtcSession a peer is one negotiation: every startNegotiation has  *)
(* a PeerNegotiator and a signaling socket of its own.  Each side gathers  *)
(* one candidate.  The host joins an empty signaling room (RtcSession has  *)
(* the elections); generated actor ids, so the actor of a peer is named by *)
(* the peer; no getTicket callback, tickets not empty.  A closed peer      *)
(* connection fires no events of its own accord, as the W3C has it, but    *)
(* LateEvent allows the browsers that do.                                  *)
(***************************************************************************)
EXTENDS Naturals, Sequences

CONSTANTS
    Clients,     \* RTCClient objects
    None,        \* null
    MaxPeers,    \* bound: negotiations the clients start together
    MaxAttempts, \* reconnect.maxAttempts
    MaxFaults    \* bound: departures, kicks, refusals and losses

ASSUME BrowserAssumption ==
    /\ {MaxPeers, MaxAttempts, MaxFaults} \subseteq Nat
    /\ None \notin Clients \cup 1..MaxPeers

Peers == 1..MaxPeers

VARIABLES
    client,  \* the fields of each RTCClient
    peer,    \* the client's end of each negotiation
    serve,   \* the host's end of each negotiation
    link,    \* the connection of the two peer connections
    hosting, \* the signaling socket of the RTCTransport
    toHost,  \* signals on their way to the host
    table,   \* the maps of the RTCTransport, and the actors the layer has
    missed,  \* history: peers one of whose candidates was not added
    faults   \* bound: disturbances so far

browserVars == <<client, peer, serve, link, hosting, toHost, table, missed, faults>>

\* The ends share the fields of a NativeBrowserPeer: its opQueue, the descriptions it
\* has, whether it sent its candidate and whether it has the other side's.
BrowserInit ==
    /\ client = [c \in Clients |->
         [neg |-> None, chan |-> None, left |-> FALSE, disconnecting |-> FALSE, final |-> FALSE,
          attempts |-> 0, timer |-> FALSE]]
    /\ peer = [p \in Peers |->
         [pc |-> "none", ops |-> <<>>, local |-> FALSE, remote |-> FALSE, sent |-> FALSE, found |-> FALSE,
          owner |-> None, sig |-> "none", inbox |-> <<>>, host |-> FALSE,
          ticket |-> FALSE, wire |-> <<>>, late |-> FALSE]]
    /\ serve = [p \in Peers |->
         [pc |-> "none", ops |-> <<>>, local |-> FALSE, remote |-> FALSE, sent |-> FALSE, found |-> FALSE,
          chan |-> "none", adm |-> "none", deaf |-> FALSE]]
    /\ link = [p \in Peers |-> "none"]
    /\ hosting = "off"
    /\ toHost = <<>>
    /\ table = [channels |-> {}, closed |-> {}, layer |-> {}]
    /\ missed = {}
    /\ faults = 0

Fault == faults < MaxFaults /\ faults' = faults + 1
Live(q) == q.pc = "live"

---------------------------------------------------------------------------
(* NativeBrowserPeer: operations are run one after the other.              *)

\* Mutant: a candidate does not wait for the operations before it.
Queue_atOnce(q, op) ==
    IF op = "candidate" THEN [q EXCEPT !.ops = <<op>> \o @] ELSE [q EXCEPT !.ops = Append(@, op)]
Queue(q, op) == [q EXCEPT !.ops = Append(@, op)]

\* What the browser's RTCPeerConnection makes of an operation; it rejects the others
\* and the rejection is swallowed.
Works(q) ==
    CASE Head(q.ops) \in {"offer", "set offer"} -> TRUE
      [] Head(q.ops) = "set answer" -> q.local
      [] OTHER                                -> q.remote

Ran(q) ==
    LET op == Head(q.ops)
        rest == [q EXCEPT !.ops = Tail(@)]
    IN  IF ~Works(q) THEN rest
        ELSE [rest EXCEPT !.local = @ \/ op \in {"offer", "answer"},
                          !.remote = @ \/ op \in {"set offer", "set answer"},
                          !.found = @ \/ op = "candidate"]

MissesOne(q) == Head(q.ops) = "candidate" /\ ~Works(q)

\* close() of the peer connection: the operations in its queue come to nothing.
Closed(q) ==
    IF ~Live(q) THEN q
    ELSE [q EXCEPT !.pc = "over", !.ops = <<>>, !.local = FALSE, !.remote = FALSE, !.sent = FALSE]

---------------------------------------------------------------------------
(* RTCClient: losing a connection and coming back.                         *)

\* A world is a record of peer and link.
BWorld == [peer |-> peer, link |-> link]

\* PeerNegotiator.disconnect: pc.close() and signalClient.disconnect().
HangUp(w, p) ==
    LET q == w.peer[p]
        left == [Closed(q) EXCEPT !.sig = "gone", !.inbox = <<>>, !.ticket = FALSE, !.wire = <<>>,
                                  !.late = q.late \/ Live(q)]
    IN  [w EXCEPT !.peer[p] = left, !.link[p] = IF @ = "up" THEN "cut" ELSE @]

ShouldReconnect(r) == ~r.left /\ ~r.final /\ r.attempts < MaxAttempts

ScheduleReconnect(r) == [r EXCEPT !.attempts = @ + 1, !.timer = TRUE]

AfterLoss(r) ==
    LET idle == [r EXCEPT !.disconnecting = TRUE, !.chan = None, !.neg = None]
        consumed == [idle EXCEPT !.final = FALSE]
    IN  IF r.left THEN idle
        ELSE IF ShouldReconnect(r) THEN ScheduleReconnect(consumed)
        ELSE consumed

\* triggerDisconnect of client c with fields r, in the world w.
TriggerDisconnect(c, r, w) ==
    /\ client' = [client EXCEPT ![c] = IF r.disconnecting THEN r ELSE AfterLoss(r)]
    /\ LET after == IF r.disconnecting \/ r.neg = None THEN w ELSE HangUp(w, r.neg)
       IN  peer' = after.peer /\ link' = after.link

Unused == {p \in Peers : peer[p].owner = None}
NextPeer == CHOOSE p \in Unused : \A q \in Unused : p <= q

StartNegotiation(c, r) ==
    /\ Unused # {}
    /\ client' = [client EXCEPT ![c] = [r EXCEPT !.disconnecting = FALSE, !.neg = NextPeer]]
    /\ peer' = [peer EXCEPT ![NextPeer].owner = c, ![NextPeer].sig = "dialing"]
    /\ UNCHANGED <<serve, link, hosting, toHost, table, missed, faults>>

ConnectRtc(c) ==
    /\ client[c].neg = None /\ client[c].chan = None
    /\ StartNegotiation(c, [client[c] EXCEPT !.timer = FALSE, !.left = FALSE, !.attempts = 0])

\* The timer, and performReconnect with the last ticket.
ReconnectRtc(c) ==
    /\ client[c].timer /\ ~client[c].left
    /\ StartNegotiation(c, [client[c] EXCEPT !.timer = FALSE])

DisconnectRtc(c) ==
    LET r == client[c]
        w == IF r.neg = None THEN BWorld ELSE HangUp(BWorld, r.neg)
    IN  /\ ~r.left /\ \E p \in Peers : peer[p].owner = c
        /\ client' = [client EXCEPT ![c] = [r EXCEPT !.left = TRUE, !.timer = FALSE, !.final = FALSE,
                                            !.disconnecting = TRUE, !.chan = None, !.neg = None]]
        /\ peer' = w.peer /\ link' = w.link
        /\ Fault
        /\ UNCHANGED <<serve, hosting, toHost, table, missed>>

---------------------------------------------------------------------------
(* PeerNegotiator: signals and the client's peer connection.               *)

\* signal:welcome says whether there is a host other than oneself; only an
\* RTCTransport answers offers.
SignalUp(p) ==
    /\ peer[p].sig = "dialing"
    /\ peer' = [peer EXCEPT ![p].sig = "in", ![p].inbox = <<"welcome">>, ![p].host = (hosting = "in")]
    /\ UNCHANGED <<client, serve, link, hosting, toHost, table, missed, faults>>

\* The signaling server refuses or kicks (a code is kept, whatever the channel does),
\* or the socket breaks.
SignalLost(p) == \E code \in {"none", "final", "again"} :
    LET c == peer[p].owner
        r == IF code = "none" THEN client[c] ELSE [client[c] EXCEPT !.final = (code = "final")]
        w == [BWorld EXCEPT !.peer[p].sig = "gone", !.peer[p].inbox = <<>>]
    IN  /\ peer[p].sig \in {"dialing", "in"}
        /\ IF r.chan = None THEN TriggerDisconnect(c, r, w)
           ELSE /\ client' = [client EXCEPT ![c] = r]
                /\ peer' = w.peer /\ UNCHANGED link
        /\ Fault
        /\ UNCHANGED <<serve, hosting, toHost, table, missed>>

OnSignal(q) ==
    LET kind == Head(q.inbox)
        rest == [q EXCEPT !.inbox = Tail(@)]
        Adds(op) == IF Live(q) THEN Queue(rest, op) ELSE rest
    IN  CASE kind = "welcome" -> IF q.host THEN Queue([rest EXCEPT !.pc = "live"], "offer") ELSE rest
          [] kind = "answer"  -> Adds("set answer")
          [] kind = "ice"     -> Adds("candidate")
          [] OTHER            -> [rest EXCEPT !.host = FALSE]

HearSignal(p) ==
    /\ peer[p].sig = "in" /\ peer[p].inbox # <<>>
    /\ peer' = [peer EXCEPT ![p] = OnSignal(@)]
    /\ missed' = IF Head(peer[p].inbox) = "ice" /\ peer[p].pc = "none" THEN missed \cup {p} ELSE missed
    /\ UNCHANGED <<client, serve, link, hosting, toHost, table, faults>>

\* SignalRoom.relay: to whoever the sender takes for the host.
ToHost(p, kind) ==
    toHost' = IF peer[p].sig = "in" /\ peer[p].host /\ hosting = "in"
              THEN Append(toHost, <<kind, p>>) ELSE toHost

\* The head of the client's opQueue; onLocalDescription sends the offer.
PeerOp(p) ==
    /\ Live(peer[p]) /\ peer[p].ops # <<>>
    /\ peer' = [peer EXCEPT ![p] = Ran(@)]
    /\ missed' = IF MissesOne(peer[p]) THEN missed \cup {p} ELSE missed
    /\ IF Head(peer[p].ops) = "offer" THEN ToHost(p, "offer") ELSE UNCHANGED toHost
    /\ UNCHANGED <<client, serve, link, hosting, table, faults>>

\* onicecandidate, after the description is set.
PeerCandidate(p) ==
    /\ Live(peer[p]) /\ peer[p].local /\ ~peer[p].sent
    /\ peer' = [peer EXCEPT ![p].sent = TRUE]
    /\ ToHost(p, "ice")
    /\ UNCHANGED <<client, serve, link, hosting, table, missed, faults>>

---------------------------------------------------------------------------
(* The connection: what the two ends know of each other lets ICE succeed   *)
(* or fail; without any candidate it does neither.                         *)

Described(q) == Live(q) /\ q.local /\ q.remote
Checks(p) == peer[p].found \/ serve[p].found

IceSucceeds(p) ==
    /\ link[p] = "none" /\ Described(peer[p]) /\ Described(serve[p]) /\ Checks(p)
    /\ link' = [link EXCEPT ![p] = "up"]
    /\ UNCHANGED <<client, peer, serve, hosting, toHost, table, missed, faults>>

\* It fails by itself when the other end has gone.
IceFails(p) ==
    /\ link[p] = "none" /\ Checks(p)
    /\ link' = [link EXCEPT ![p] = "cut"]
    /\ IF peer[p].pc = "over" \/ serve[p].pc = "over" THEN UNCHANGED faults ELSE Fault
    /\ UNCHANGED <<client, peer, serve, hosting, toHost, table, missed>>

NetworkCut(p) ==
    /\ link[p] = "up"
    /\ link' = [link EXCEPT ![p] = "cut"]
    /\ Fault
    /\ UNCHANGED <<client, peer, serve, hosting, toHost, table, missed>>

\* onChannelOpen of the client: its first message is the ticket.
ChannelOpens(p) ==
    /\ Live(peer[p]) /\ link[p] = "up" /\ client[peer[p].owner].chan # p
    /\ peer' = [peer EXCEPT ![p].ticket = TRUE]
    /\ client' = [client EXCEPT ![peer[p].owner].chan = p]
    /\ UNCHANGED <<serve, link, hosting, toHost, table, missed, faults>>

\* A close frame of the host.
HearFrame(p) ==
    /\ Live(peer[p]) /\ peer[p].wire # <<>> /\ client[peer[p].owner].chan = p
    /\ peer' = [peer EXCEPT ![p].wire = Tail(@)]
    /\ client' = [client EXCEPT ![peer[p].owner].final = (Head(peer[p].wire) = "final")]
    /\ UNCHANGED <<serve, link, hosting, toHost, table, missed, faults>>

\* Mutant: a connection is watched from when its channel opens.
HearDown_established(p) ==
    /\ Live(peer[p]) /\ client[peer[p].owner].chan = p
    /\ \/ link[p] = "cut"
       \/ peer[p].wire = <<>> /\ serve[p].chan \in {"closing", "closed"}
    /\ TriggerDisconnect(peer[p].owner, client[peer[p].owner], BWorld)
    /\ UNCHANGED <<serve, hosting, toHost, table, missed, faults>>

\* onClose of the channel, or a state change of the connection.
HearDown(p) ==
    /\ Live(peer[p])
    /\ \/ link[p] = "cut"
       \/ /\ client[peer[p].owner].chan = p /\ peer[p].wire = <<>>
          /\ serve[p].chan \in {"closing", "closed"}
    /\ TriggerDisconnect(peer[p].owner, client[peer[p].owner], BWorld)
    /\ UNCHANGED <<serve, hosting, toHost, table, missed, faults>>

\* A connection that was closed fires an event after all.
LateEvent(p) ==
    /\ peer[p].late
    /\ TriggerDisconnect(peer[p].owner, client[peer[p].owner], [BWorld EXCEPT !.peer[p].late = FALSE])
    /\ UNCHANGED <<serve, hosting, toHost, table, missed, faults>>

---------------------------------------------------------------------------
(* HostNegotiator.                                                         *)

\* onInitialize, and signal:welcome.
HostConnects ==
    /\ hosting = "off" /\ \A p \in Peers : peer[p].sig # "in"
    /\ hosting' = "in"
    /\ UNCHANGED <<client, peer, serve, link, toHost, table, missed, faults>>

\* The others are told of a new host, which is one of them.
Reelected == [p \in Peers |-> IF peer[p].sig = "in"
    THEN [peer[p] EXCEPT !.inbox = Append(@, "elected")] ELSE peer[p]]

HostSignalLost ==
    /\ hosting = "in"
    /\ hosting' = "gone"
    /\ peer' = Reelected
    /\ toHost' = <<>>
    /\ Fault
    /\ UNCHANGED <<client, serve, link, table, missed>>

OnHostSignal(h, kind) ==
    CASE kind = "offer" -> [Queue(Queue(h, "set offer"), "answer") EXCEPT !.pc = "live"]
      [] OTHER          -> IF Live(h) THEN Queue(h, "candidate") ELSE h

HostHears ==
    /\ toHost # <<>>
    /\ LET kind == Head(toHost)[1]
           p == Head(toHost)[2]
       IN  /\ serve' = [serve EXCEPT ![p] = OnHostSignal(@, kind)]
           /\ missed' = IF kind = "ice" /\ serve[p].pc = "none" THEN missed \cup {p} ELSE missed
    /\ toHost' = Tail(toHost)
    /\ UNCHANGED <<client, peer, link, hosting, table, faults>>

ToPeer(p, kind) ==
    peer' = IF hosting = "in" /\ peer[p].sig = "in"
            THEN [peer EXCEPT ![p].inbox = Append(@, kind)] ELSE peer

\* The head of the host's opQueue; onLocalDescription sends the answer.
HostOp(p) ==
    /\ Live(serve[p]) /\ serve[p].ops # <<>>
    /\ serve' = [serve EXCEPT ![p] = Ran(@)]
    /\ missed' = IF MissesOne(serve[p]) THEN missed \cup {p} ELSE missed
    /\ IF Head(serve[p].ops) = "answer" /\ Works(serve[p]) THEN ToPeer(p, "answer") ELSE UNCHANGED peer
    /\ UNCHANGED <<client, link, hosting, toHost, table, faults>>

HostCandidate(p) ==
    /\ Live(serve[p]) /\ serve[p].local /\ ~serve[p].sent
    /\ serve' = [serve EXCEPT ![p].sent = TRUE]
    /\ ToPeer(p, "ice")
    /\ UNCHANGED <<client, link, hosting, toHost, table, missed, faults>>

---------------------------------------------------------------------------
(* RTCTransport.                                                           *)

TriggerClose(t, p) ==
    IF p \in t.closed THEN t
    ELSE [t EXCEPT !.closed = @ \cup {p}, !.channels = @ \ {p}, !.layer = @ \ {p}]

\* negotiator.closePeer and dispose.  Closing one's own connection tells the channel's
\* onClose nothing, so a grant that is awaited will not hear of it.
Deafened(h) == [Closed(h) EXCEPT !.deaf = @ \/ (Live(h) /\ h.adm = "granting" /\ h.chan # "closed")]

\* Mutant: only the peers that have an actor are closed.
HostHearsDown_actors(p) ==
    /\ Live(serve[p]) /\ link[p] = "cut" /\ p \in table.channels
    /\ serve' = [serve EXCEPT ![p] = Deafened(@)]
    /\ table' = TriggerClose(table, p)
    /\ UNCHANGED <<client, peer, link, hosting, toHost, missed, faults>>

\* onPeerStateChange: closePeer, and the actor if there is one.
HostHearsDown(p) ==
    /\ Live(serve[p]) /\ link[p] = "cut"
    /\ serve' = [serve EXCEPT ![p] = Deafened(@)]
    /\ table' = IF p \in table.channels THEN TriggerClose(table, p) ELSE table
    /\ UNCHANGED <<client, peer, link, hosting, toHost, missed, faults>>

HostChannel(p) ==
    /\ Live(serve[p]) /\ link[p] = "up" /\ serve[p].chan = "none"
    /\ serve' = [serve EXCEPT ![p].chan = "open", ![p].adm = "ticket"]
    /\ UNCHANGED <<client, peer, link, hosting, toHost, table, missed, faults>>

HearTicket(p) ==
    /\ Live(serve[p]) /\ serve[p].adm = "ticket" /\ serve[p].chan = "open" /\ peer[p].ticket
    /\ serve' = [serve EXCEPT ![p].adm = "granting"]
    /\ peer' = [peer EXCEPT ![p].ticket = FALSE]
    /\ UNCHANGED <<client, link, hosting, toHost, table, missed, faults>>

Closing(h) == [h EXCEPT !.chan = IF @ = "open" THEN "closing" ELSE @]
Sends(p, frame) ==
    IF serve[p].chan = "open" /\ link[p] = "up" THEN [peer EXCEPT ![p].wire = Append(@, frame)] ELSE peer

\* The peer limiter refuses, with a close frame the client comes back after, or
\* grantAccess throws.
RefusePeer(p) == \E limited \in BOOLEAN :
    /\ serve[p].adm = "granting"
    /\ serve' = [serve EXCEPT ![p] = Closing([@ EXCEPT !.adm = "over"])]
    /\ peer' = IF limited THEN Sends(p, "limited") ELSE peer
    /\ Fault
    /\ UNCHANGED <<client, link, hosting, toHost, table, missed>>

EarlyClose(p) == serve[p].chan = "closed"

GrantPeer(p) ==
    LET joined == [table EXCEPT !.layer = @ \cup {p}]
    IN  /\ serve[p].adm = "granting"
        /\ IF EarlyClose(p)
           THEN /\ serve' = [serve EXCEPT ![p].adm = "over"]
                /\ table' = TriggerClose(joined, p)
           ELSE /\ serve' = [serve EXCEPT ![p].adm = "in"]
                /\ table' = [joined EXCEPT !.channels = @ \cup {p}]
        /\ UNCHANGED <<client, peer, link, hosting, toHost, missed, faults>>

\* The channel's onClose.
HostHearsClose(p) ==
    /\ serve[p].chan = "closing" \/ (serve[p].chan = "open" /\ link[p] = "cut")
    /\ serve' = [serve EXCEPT ![p].chan = "closed"]
    /\ table' = IF serve[p].adm = "in" THEN TriggerClose(table, p) ELSE table
    /\ UNCHANGED <<client, peer, link, hosting, toHost, missed, faults>>

\* The layer kicks an actor: the close frame, then channel.close().
KickPeer(p) ==
    /\ p \in table.layer /\ serve[p].adm = "in" /\ serve[p].chan = "open"
    /\ peer' = Sends(p, "final")
    /\ serve' = [serve EXCEPT ![p] = Closing(@)]
    /\ Fault
    /\ UNCHANGED <<client, link, hosting, toHost, table, missed>>

DisposeHost ==
    LET mine == {p \in table.channels : serve[p].chan = "open" /\ link[p] = "up"}
        told == IF hosting = "in" THEN Reelected ELSE peer
    IN  /\ hosting \in {"in", "gone"}
        /\ hosting' = "disposed"
        /\ table' = [table EXCEPT !.closed = @ \cup table.channels, !.channels = {},
                                  !.layer = @ \ table.channels]
        /\ serve' = [p \in Peers |->
             Deafened(IF p \in table.channels THEN Closing(serve[p]) ELSE serve[p])]
        /\ peer' = [p \in Peers |-> IF p \in mine THEN [told[p] EXCEPT !.wire = Append(@, "final")] ELSE told[p]]
        /\ link' = [p \in Peers |-> IF Live(serve[p]) /\ link[p] = "up" THEN "cut" ELSE link[p]]
        /\ toHost' = <<>>
        /\ Fault
        /\ UNCHANGED <<client, missed>>

---------------------------------------------------------------------------
BrowserNext ==
    \/ \E c \in Clients : ConnectRtc(c) \/ DisconnectRtc(c) \/ ReconnectRtc(c)
    \/ \E p \in Peers :
          \/ SignalUp(p) \/ SignalLost(p) \/ HearSignal(p) \/ PeerOp(p) \/ PeerCandidate(p)
          \/ IceSucceeds(p) \/ IceFails(p) \/ NetworkCut(p)
          \/ ChannelOpens(p) \/ HearFrame(p) \/ HearDown(p) \/ LateEvent(p)
          \/ HostOp(p) \/ HostCandidate(p) \/ HostHearsDown(p) \/ HostChannel(p) \/ HearTicket(p)
          \/ RefusePeer(p) \/ GrantPeer(p) \/ HostHearsClose(p) \/ KickPeer(p)
    \/ HostConnects \/ HostSignalLost \/ HostHears \/ DisposeHost

\* Sockets open, signals and events are delivered, the browser works its queues off,
\* ICE ends and authenticate settles; within the bounds none of it recurs for ever,
\* so fairness to all together is fairness to each.
BrowserProgress ==
    \/ HostHears
    \/ \E p \in Peers :
          \/ SignalUp(p) \/ HearSignal(p) \/ PeerOp(p) \/ PeerCandidate(p) \/ IceSucceeds(p) \/ IceFails(p)
          \/ ChannelOpens(p) \/ HearFrame(p) \/ HearDown(p)
          \/ HostOp(p) \/ HostCandidate(p) \/ HostHearsDown(p) \/ HostChannel(p) \/ HearTicket(p)
          \/ GrantPeer(p) \/ (Live(serve[p]) /\ HostHearsClose(p))

BrowserSpec == BrowserInit /\ [][BrowserNext]_browserVars
BrowserFairSpec == BrowserSpec /\ WF_browserVars(BrowserProgress)

---------------------------------------------------------------------------
\* No candidate is lost: it never comes to a peer connection that does not exist yet,
\* nor is it added before the description it belongs to, although descriptions are set
\* asynchronously while signals go on arriving.
NothingMissed == missed = {}

GivenUp(p) == ~Live(serve[p]) /\ p \notin table.layer

\* When the disturbances are over the host has given up every connection whose
\* client's end is closed and the actor has left its room.  Not so when no candidate of
\* either side was added before the client left (no timer covers a negotiation in the
\* browser), nor when the connection went down while grantAccess was awaited.
BrowserHostLetsGo == <>[](\A p \in Peers : peer[p].pc = "over" =>
    \/ GivenUp(p)
    \/ link[p] = "none" /\ ~serve[p].found
    \/ serve[p].deaf)

\* When the disturbances are over every negotiation a client waits for has led to an
\* open channel, unless no RTCTransport answers.
BrowserNegotiationEnds == <>[](\A c \in Clients : client[c].neg # None =>
    \/ client[c].chan # None
    \/ hosting # "in"
    \/ ~peer[client[c].neg].host)

\* Both ends of every browser connection come to rest: neither the host nor a client is
\* left with a negotiation that nothing ends (NegotiationCore.ts of the browser).
BrowserSettles == BrowserHostLetsGo /\ BrowserNegotiationEnds
=============================================================================
