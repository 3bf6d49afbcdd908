---------------------------- MODULE RtcSession ----------------------------
(***************************************************************************)
(* A game room served over WebRTC: the SignalRoom, the RTCTransport of the *)
(* host with its HostNegotiator, and RTCClients that negotiate a peer      *)
(* connection through the room and then present their ticket on the data   *)
(* channel.                                                                *)
(*                                                                         *)
(* Every startNegotiation makes a fresh PeerNegotiator with a signaling    *)
(* socket of its own, so the negotiation is what has an identity: a peer   *)
(* is one negotiation, its signaling actor and its peer connection.        *)
(* Events of a peer act on the client's fields whichever negotiation the   *)
(* client has by then, as the handlers do.                                 *)
(*                                                                         *)
(* Close codes are those the client comes back after and those it does not *)
(* ("final", NO_RECONNECT_CODES).  Candidates are left out: what they      *)
(* achieve is that ICE succeeds or fails.  A getTicket callback is         *)
(* configured.  Timers may fire at any moment.                             *)
(***************************************************************************)
EXTENDS Naturals, Sequences, FiniteSets

CONSTANTS
    Clients,        \* RTCClient objects
    Host,           \* the signaling actor of the RTCTransport
    None,           \* null
    MaxPeers,       \* bound: negotiations the clients start together
    MaxAttempts,    \* reconnect.maxAttempts
    MaxConcurrent,  \* maxConcurrentNegotiations
    MaxFaults,      \* bound: kicks, refusals, losses and departures
    Dual,           \* clients that open a second, unreliable channel (dualChannel)
    StableIds       \* whether authenticate requests the actor id of the client

ASSUME RtcAssumption ==
    /\ {MaxPeers, MaxAttempts, MaxFaults} \subseteq Nat
    /\ MaxConcurrent \in Nat \ {0}
    /\ Dual \subseteq Clients
    /\ StableIds \in BOOLEAN
    /\ Host # None /\ {Host, None} \cap (Clients \cup 1..MaxPeers) = {}
    /\ Clients \cap 1..MaxPeers = {}

Peers == 1..MaxPeers
Actors == Peers \cup Clients

VARIABLES
    room,   \* SignalRoom: joinOrder and hostId
    peer,   \* the client's end of each negotiation
    link,   \* the connection of the two peer connections
    client, \* the fields of each RTCClient
    serve,  \* the host's end of each negotiation
    table,  \* the maps of the RTCTransport, and the actors the layer has
    hosting, \* the transport: its signaling socket, and whether it was disposed
    faults   \* bound: kicks, refusals, losses and departures so far

vars == <<room, peer, link, client, serve, table, hosting, faults>>

\* The maps of a fresh RTCTransport.
EmptyTable ==
    [channels |-> [a \in Actors |-> None], peerToActor |-> [p \in Peers |-> None],
     closed |-> {}, unreliable |-> [a \in Actors |-> None], pending |-> {}, layer |-> {}]

Init ==
    /\ room = [order |-> <<>>, host |-> None]
    /\ peer = [p \in Peers |->
         [owner |-> None, retry |-> FALSE, sig |-> "none", inbox |-> <<>>, view |-> None, pc |-> "none",
          offer |-> "none", ticket |-> "none", frame |-> FALSE, told |-> FALSE, late |-> FALSE]]
    /\ link = [p \in Peers |-> "none"]
    /\ client = [c \in Clients |->
         [neg |-> None, chan |-> None, left |-> FALSE, closing |-> FALSE, final |-> FALSE,
          attempts |-> 0, timer |-> FALSE, strays |-> 0, awaits |-> 0,
          crossed |-> FALSE]]
    /\ serve = [p \in Peers |->
         [pc |-> "none", chan |-> "none", adm |-> "none", actor |-> None, second |-> "none"]]
    /\ table = EmptyTable
    /\ hosting = [signal |-> "off", disposed |-> FALSE]
    /\ faults = 0

---------------------------------------------------------------------------
(* SignalRoom.  A world is a record of room, peer and link: leaving the   *)
(* room and closing a negotiation are steps other handlers are made of.   *)

World == [room |-> room, peer |-> peer, link |-> link]
\* What nobody asked for, within the bound.
Fault == faults < MaxFaults /\ faults' = faults + 1

Becomes(w) == room' = w.room /\ peer' = w.peer /\ link' = w.link

InRoom(id) == \E i \in DOMAIN room.order : room.order[i] = id

Joined(r, id) ==
    [order |-> Append(r.order, id), host |-> IF r.host = None THEN id ELSE r.host]

\* Who stays keeps its order; an id is in joinOrder once.
Without(order, id) ==
    LET places == {i \in DOMAIN order : order[i] = id}
        k == CHOOSE i \in places : TRUE
    IN  IF places = {} THEN order
        ELSE [i \in 1..Len(order) - 1 |-> order[IF i < k THEN i ELSE i + 1]]

Elect(r, id) ==
    LET order == Without(r.order, id)
    IN  [order |-> order,
         host |-> IF id # r.host THEN r.host ELSE IF order = <<>> THEN None ELSE Head(order)]

\* signal:host_gone has no listener; signal:host_elected goes to all who stay.
OnLeave(w, id) ==
    LET r == Elect(w.room, id)
        Told(p) == id = w.room.host /\ r.host # None /\ w.peer[p].sig = "in"
    IN  [w EXCEPT !.room = r,
                  !.peer = [p \in Peers |-> IF Told(p)
                     THEN [w.peer[p] EXCEPT !.inbox = Append(@, <<"elected", r.host>>)]
                     ELSE w.peer[p]]]

Alive(q) == q.pc \notin {"none", "closed"}

\* The signaling socket of p is gone, by whichever end.
SignalOver(w, p) ==
    OnLeave([w EXCEPT !.peer[p].sig = "gone", !.peer[p].inbox = <<>>, !.peer[p].view = None], p)

\* PeerNegotiator.disconnect: the 'closed' events of the connection come later.
\* A connection that never came up has no event to tell the host.
HangUp(w, p) ==
    LET over == [w.peer[p] EXCEPT !.pc = IF @ = "none" THEN @ ELSE "closed",
                                  !.frame = FALSE,
                                  !.offer = IF @ = "lost" THEN "none" ELSE @,
                                  !.late = @ \/ Alive(w.peer[p])]
        cut == IF w.link[p] = "up" THEN "cut" ELSE w.link[p]
    IN  SignalOver([w EXCEPT !.peer[p] = over, !.link[p] = cut], p)

---------------------------------------------------------------------------
(* RTCClient: losing a connection.                                         *)

ShouldReconnect(r) == ~r.left /\ ~r.final /\ r.attempts < MaxAttempts

ScheduleReconnect(r) ==
    [r EXCEPT !.attempts = @ + 1, !.timer = TRUE, !.strays = IF r.timer THEN @ + 1 ELSE @]

AfterLoss(r) ==
    LET idle == [r EXCEPT !.closing = TRUE, !.chan = None, !.neg = None]
        consumed == [idle EXCEPT !.final = FALSE]
    IN  IF r.closing THEN r
        ELSE IF r.left THEN idle
        ELSE IF ShouldReconnect(r) THEN ScheduleReconnect(consumed)
        ELSE consumed

\* triggerDisconnect of client c, in the world w and with the client's fields r.
TriggerDisconnect(c, r, w) ==
    /\ client' = [client EXCEPT ![c] = AfterLoss(r)]
    /\ Becomes(IF r.closing \/ r.neg = None THEN w ELSE HangUp(w, r.neg))

---------------------------------------------------------------------------
(* RTCClient: the application's calls and the reconnect loop.              *)

Unused == {p \in Peers : peer[p].owner = None}
NextPeer == CHOOSE p \in Unused : \A q \in Unused : p <= q

StartNegotiation(c, r, retry) ==
    /\ Unused # {}
    /\ client' = [client EXCEPT ![c] = [r EXCEPT !.closing = FALSE, !.neg = NextPeer]]
    /\ peer' = [peer EXCEPT ![NextPeer].owner = c, ![NextPeer].retry = retry, ![NextPeer].sig = "dialing"]
    /\ UNCHANGED <<room, link>>

Connect(c) ==
    LET r == client[c]
    IN  /\ r.neg = None /\ r.chan = None
        /\ StartNegotiation(c, [r EXCEPT !.timer = FALSE, !.left = FALSE, !.attempts = 0,
                                  !.crossed = @ \/ r.awaits > 0 \/ r.strays > 0], FALSE)
        /\ UNCHANGED <<serve, table, hosting, faults>>

Disconnect(c) ==
    LET r == client[c]
    IN  /\ \E p \in Peers : peer[p].owner = c
        /\ ~r.left
        /\ client' = [client EXCEPT ![c] = [r EXCEPT !.left = TRUE, !.timer = FALSE, !.final = FALSE,
                                              !.closing = TRUE, !.chan = None, !.neg = None]]
        /\ Becomes(IF r.neg = None THEN World ELSE HangUp(World, r.neg))
        /\ Fault
        /\ UNCHANGED <<serve, table, hosting>>

\* Any timer that fires sets reconnectTimer to null, its own or not.
TimerFires(c) ==
    LET r == client[c]
        Goes(x) == IF x.left THEN x ELSE [x EXCEPT !.awaits = @ + 1]
    IN  /\ \/ r.timer /\ client' = [client EXCEPT ![c] = Goes([r EXCEPT !.timer = FALSE])]
           \/ /\ r.strays > 0
              /\ client' = [client EXCEPT ![c] =
                   Goes([r EXCEPT !.timer = FALSE, !.strays = IF r.timer THEN @ ELSE @ - 1])]
        /\ UNCHANGED <<room, peer, link, serve, table, hosting, faults>>

StillWanted_unasked(r) == TRUE
StillWanted(r) == ~r.left

TicketArrives(c) ==
    LET r == [client[c] EXCEPT !.awaits = @ - 1]
    IN  /\ client[c].awaits > 0
        /\ IF StillWanted(r) THEN StartNegotiation(c, r, TRUE)
           ELSE client' = [client EXCEPT ![c] = r] /\ UNCHANGED <<room, peer, link>>
        /\ UNCHANGED <<serve, table, hosting, faults>>

TicketFails(c) ==
    /\ client[c].awaits > 0
    /\ client' = [client EXCEPT ![c].awaits = @ - 1]
    /\ Fault
    /\ UNCHANGED <<room, peer, link, serve, table, hosting>>

---------------------------------------------------------------------------
(* Negotiation, the client's end: the signaling socket and PeerNegotiator. *)

SignalUp(p) ==
    /\ peer[p].sig = "dialing"
    /\ room' = Joined(room, p)
    /\ peer' = [peer EXCEPT ![p].sig = "in", ![p].inbox = <<<<"welcome", room'.host>>>>]
    /\ UNCHANGED <<link, client, serve, table, hosting, faults>>

\* The signaling server refuses the ticket, kicks the peer, or the socket breaks.
\* The close code is kept even when the data channel is open and stays so.
SignalLost(p) == \E kicked \in BOOLEAN :
    LET c == peer[p].owner
        r == IF kicked THEN [client[c] EXCEPT !.final = TRUE] ELSE client[c]
        w == SignalOver(World, p)
    IN  /\ peer[p].sig \in {"dialing", "in"}
        /\ IF r.chan = None THEN TriggerDisconnect(c, r, w)
           ELSE Becomes(w) /\ client' = [client EXCEPT ![c] = r]
        /\ Fault
        /\ UNCHANGED <<serve, table, hosting>>

\* With no host to talk to, or elected itself, the negotiator does nothing.
OnSignal(q, p) ==
    LET kind == Head(q.inbox)[1]
        host == Head(q.inbox)[2]
        rest == [q EXCEPT !.inbox = Tail(@)]
    IN  CASE kind = "welcome" -> [rest EXCEPT !.view = host,
                                              !.pc = IF host \in {None, p} THEN "none" ELSE "new"]
          [] kind = "elected" -> [rest EXCEPT !.view = host]
          [] OTHER            -> [rest EXCEPT !.pc = IF @ = "offered" THEN "answered" ELSE @]

HearSignal(p) ==
    /\ peer[p].sig = "in" /\ peer[p].inbox # <<>>
    /\ peer' = [peer EXCEPT ![p] = OnSignal(@, p)]
    /\ UNCHANGED <<room, link, client, serve, table, hosting, faults>>

\* onLocalDescription: the offer goes to whoever is thought to be the host now,
\* and only an RTCTransport listens to offers.
SendOffer(p) ==
    /\ peer[p].pc = "new" /\ peer[p].sig = "in"
    /\ peer' = [peer EXCEPT ![p].pc = "offered",
                            ![p].offer = IF peer[p].view = Host /\ InRoom(Host) THEN "sent" ELSE "lost"]
    /\ UNCHANGED <<room, link, client, serve, table, hosting, faults>>

IceEnds(p) ==
    /\ link[p] = "none" /\ peer[p].pc = "answered" /\ serve[p].pc = "new"
    /\ \/ link' = [link EXCEPT ![p] = "up"] /\ UNCHANGED faults
       \/ link' = [link EXCEPT ![p] = "cut"] /\ Fault
    /\ UNCHANGED <<room, peer, client, serve, table, hosting>>

NetworkCut(p) ==
    /\ link[p] = "up"
    /\ link' = [link EXCEPT ![p] = "cut"]
    /\ Fault
    /\ UNCHANGED <<room, peer, client, serve, table, hosting>>

\* onChannelOpen: the ticket is the first message of the channel.
ChannelOpens(p) ==
    /\ peer[p].pc = "answered" /\ link[p] = "up"
    /\ peer' = [peer EXCEPT ![p].pc = "open", ![p].ticket = "sent"]
    /\ client' = [client EXCEPT ![peer[p].owner].chan = p]
    /\ UNCHANGED <<room, link, serve, table, hosting, faults>>

\* The close frame of a kick.
HearKick(p) ==
    /\ peer[p].pc = "open" /\ peer[p].frame
    /\ peer' = [peer EXCEPT ![p].frame = FALSE, ![p].told = TRUE]
    /\ client' = [client EXCEPT ![peer[p].owner].final = TRUE]
    /\ UNCHANGED <<room, link, serve, table, hosting, faults>>

\* The connection of p went down, or the host closed its channel; frames of an
\* intact connection come before the close.
ChannelDown(p) == peer[p].pc = "open" /\ serve[p].chan \in {"closing", "closed"} /\ ~peer[p].frame
Down_channelOnly(p) == ChannelDown(p)
Down(p) == ChannelDown(p) \/ (peer[p].pc \in {"answered", "open"} /\ link[p] = "cut")

HearDown(p) ==
    LET c == peer[p].owner
    IN  /\ Down(p)
        /\ TriggerDisconnect(c, client[c],
             [World EXCEPT !.peer[p].pc = "closed", !.peer[p].frame = FALSE, !.peer[p].late = TRUE, !.link[p] = "cut"])
        /\ UNCHANGED <<serve, table, hosting, faults>>

\* The events a closed connection still had to deliver.
LateEvent(p) ==
    /\ peer[p].late
    /\ TriggerDisconnect(peer[p].owner, client[peer[p].owner], [World EXCEPT !.peer[p].late = FALSE])
    /\ UNCHANGED <<serve, table, hosting, faults>>

---------------------------------------------------------------------------
(* The host: RTCTransport and HostNegotiator.                              *)

\* triggerClose gives the new maps; the layer's handleClose is part of it.
TriggerClose(t, a, p) ==
    IF a \in t.closed THEN t
    ELSE [t EXCEPT !.closed = @ \cup {a}, !.channels[a] = None, !.peerToActor[p] = None,
                   !.pending = @ \ {p}, !.unreliable[a] = None, !.layer = @ \ {a}]

CloseActorOf(t, p) ==
    IF t.peerToActor[p] = None THEN t ELSE TriggerClose(t, t.peerToActor[p], p)

\* onInitialize: the transport takes the welcome whoever the room's host is.
HostConnects ==
    /\ hosting.signal = "off" /\ ~hosting.disposed
    /\ hosting' = [hosting EXCEPT !.signal = "in"]
    /\ room' = Joined(room, Host)
    /\ UNCHANGED <<peer, link, client, serve, table, faults>>

\* The host's signaling socket breaks: nothing listens, nothing reconnects it.
HostSignalLost ==
    /\ hosting.signal = "in"
    /\ hosting' = [hosting EXCEPT !.signal = "gone"]
    /\ Becomes(OnLeave(World, Host))
    /\ Fault
    /\ UNCHANGED <<client, serve, table>>

Negotiating == {p \in Peers : serve[p].pc # "none"}

\* A peer beyond the cap is not answered; nor is one the socket no longer brings.
HearOffer(p) ==
    /\ peer[p].offer = "sent"
    /\ IF hosting.signal = "in" /\ Cardinality(Negotiating) < MaxConcurrent
       THEN /\ serve' = [serve EXCEPT ![p].pc = "fresh"]
            /\ peer' = [peer EXCEPT ![p].offer = "none"]
       ELSE peer' = [peer EXCEPT ![p].offer = "lost"] /\ UNCHANGED serve
    /\ UNCHANGED <<room, link, client, table, hosting, faults>>

\* onLocalDescription: relayed if both are still in the room.
SendAnswer(p) ==
    /\ serve[p].pc = "fresh"
    /\ serve' = [serve EXCEPT ![p].pc = "new"]
    /\ peer' = IF hosting.signal = "in" /\ peer[p].sig = "in"
               THEN [peer EXCEPT ![p].inbox = Append(@, <<"answer", Host>>)]
               ELSE [peer EXCEPT ![p].offer = "lost"]
    /\ UNCHANGED <<room, link, client, table, hosting, faults>>

\* onPeerStateChange('connected') cancels the negotiation timer.
HostConnected(p) ==
    /\ serve[p].pc = "new" /\ link[p] = "up"
    /\ serve' = [serve EXCEPT ![p].pc = "connected"]
    /\ UNCHANGED <<room, peer, link, client, table, hosting, faults>>

\* armNegotiationTimeout's timer, from the offer until the connection is up.
Armed_untilAnswer(p) == serve[p].pc = "fresh"
Armed(p) == serve[p].pc \in {"fresh", "new"}

NegotiationTimesOut(p) ==
    /\ Armed(p)
    /\ serve' = [serve EXCEPT ![p].pc = "none"]
    /\ peer' = [peer EXCEPT ![p].offer = IF serve[p].pc = "fresh" THEN "lost" ELSE @]
    /\ link' = [link EXCEPT ![p] = "cut"]
    /\ table' = CloseActorOf(table, p)
    /\ IF peer[p].pc = "closed" \/ peer[p].offer = "lost" THEN UNCHANGED faults ELSE Fault
    /\ UNCHANGED <<room, client, hosting>>

\* onPeerStateChange: disconnected, failed or closed.
HostHearsDown(p) ==
    /\ serve[p].pc # "none" /\ link[p] = "cut"
    /\ serve' = [serve EXCEPT ![p].pc = "none"]
    /\ table' = CloseActorOf(table, p)
    /\ UNCHANGED <<room, peer, link, client, hosting, faults>>

HostChannel(p) ==
    /\ serve[p].pc = "connected" /\ link[p] = "up" /\ serve[p].adm = "none"
    /\ serve' = [serve EXCEPT ![p].chan = "open", ![p].adm = "ticket"]
    /\ UNCHANGED <<room, peer, link, client, table, hosting, faults>>

HearTicket(p) ==
    /\ serve[p].adm = "ticket" /\ serve[p].chan = "open" /\ peer[p].ticket = "sent"
    /\ serve' = [serve EXCEPT ![p].adm = "granting"]
    /\ peer' = [peer EXCEPT ![p].ticket = "none"]
    /\ UNCHANGED <<room, link, client, table, hosting, faults>>

Closing(h) == [h EXCEPT !.chan = IF @ = "open" THEN "closing" ELSE @]

\* The peer limiter refuses, or grantAccess throws: no final close frame.
Refuse(p) ==
    /\ serve[p].adm = "granting"
    /\ serve' = [serve EXCEPT ![p] = Closing([@ EXCEPT !.adm = "over"])]
    /\ Fault
    /\ UNCHANGED <<room, peer, link, client, table, hosting>>

ActorId(p) ==
    LET requested == IF StableIds THEN peer[p].owner ELSE p
    IN  IF requested \in table.layer THEN p ELSE requested

\* earlyClose.
ClosedMeanwhile_unseen(p) == FALSE
ClosedMeanwhile(p) == serve[p].chan = "closed"

\* grantAccess resolves; a channel that closed meanwhile is unwound.
Grant(p) ==
    LET a == ActorId(p)
        joined == [table EXCEPT !.layer = @ \cup {a}]
        extra == p \in table.pending
    IN  /\ serve[p].adm = "granting"
        /\ IF ClosedMeanwhile(p)
           THEN /\ serve' = [serve EXCEPT ![p].adm = "over"]
                /\ table' = TriggerClose(joined, a, p)
           ELSE /\ serve' = [serve EXCEPT ![p].adm = "in", ![p].actor = a,
                                           ![p].second = IF extra THEN "wired" ELSE @]
                /\ table' = [joined EXCEPT !.channels[a] = p, !.peerToActor[p] = a,
                                !.pending = @ \ {p},
                                !.unreliable[a] = IF extra THEN p ELSE @]
        /\ UNCHANGED <<room, peer, link, client, hosting, faults>>

\* The reliable channel's onClose.
HostHearsClose(p) ==
    /\ \/ serve[p].chan = "closing"
       \/ serve[p].chan = "open" /\ link[p] = "cut"
    /\ serve' = [serve EXCEPT ![p].chan = "closed"]
    /\ table' = IF serve[p].actor = None THEN table ELSE TriggerClose(table, serve[p].actor, p)
    /\ peer' = [peer EXCEPT ![p].ticket = "none"]
    /\ UNCHANGED <<room, link, client, hosting, faults>>

\* The ':unreliable' channel comes before, during or after the admission.
SecondChannel(p) ==
    LET a == table.peerToActor[p]
    IN  /\ peer[p].owner \in Dual
        /\ serve[p].pc = "connected" /\ link[p] = "up" /\ serve[p].second = "none"
        /\ serve' = [serve EXCEPT ![p].second = IF a = None THEN "waiting" ELSE "wired"]
        /\ table' = IF a = None THEN [table EXCEPT !.pending = @ \cup {p}]
                    ELSE [table EXCEPT !.unreliable[a] = p]
        /\ UNCHANGED <<room, peer, link, client, hosting, faults>>

SecondCloses(p) ==
    /\ serve[p].second = "wired"
    /\ link[p] = "cut" \/ table.unreliable[serve[p].actor] # p
    /\ serve' = [serve EXCEPT ![p].second = "over"]
    /\ table' = [table EXCEPT !.unreliable[serve[p].actor] = None]
    /\ UNCHANGED <<room, peer, link, client, hosting, faults>>

\* The layer kicks the actor: the close frame, then channel.close().
Kick(p) ==
    /\ serve[p].adm = "in" /\ serve[p].chan = "open"
    /\ serve[p].actor \in table.layer
    /\ peer' = [peer EXCEPT ![p].frame = TRUE]
    /\ serve' = [serve EXCEPT ![p] = Closing(@)]
    /\ Fault
    /\ UNCHANGED <<room, link, client, table, hosting>>

\* The maps are emptied before any channel is closed.
Dispose ==
    LET open == {a \in Actors : table.channels[a] # None}
        Mine(p) == \E a \in open : table.channels[a] = p
    IN  /\ ~hosting.disposed /\ hosting.signal # "off"
        /\ hosting' = [signal |-> "gone", disposed |-> TRUE]
        /\ table' = [table EXCEPT !.channels = [a \in Actors |-> None],
                                  !.peerToActor = [p \in Peers |-> None],
                                  !.closed = @ \cup open, !.pending = {},
                                  !.unreliable = [a \in Actors |-> None],
                                  !.layer = @ \ open]
        /\ serve' = [p \in Peers |->
              [(IF Mine(p) THEN Closing(serve[p]) ELSE serve[p]) EXCEPT !.pc = "none"]]
        /\ Becomes(LET w == IF hosting.signal = "in" THEN OnLeave(World, Host) ELSE World
                   IN [w EXCEPT !.peer = [p \in Peers |->
                            [w.peer[p] EXCEPT !.frame = @ \/ (Mine(p) /\ serve[p].chan = "open"),
                                              !.offer = IF serve[p].pc = "fresh" THEN "lost" ELSE @]],
                         !.link = [p \in Peers |-> IF p \in Negotiating THEN "cut" ELSE link[p]]])
        /\ Fault
        /\ UNCHANGED client

---------------------------------------------------------------------------
Next ==
    \/ \E c \in Clients : Connect(c) \/ Disconnect(c) \/ TimerFires(c) \/ TicketArrives(c) \/ TicketFails(c)
    \/ \E p \in Peers :
          \/ SignalUp(p) \/ SignalLost(p) \/ HearSignal(p) \/ SendOffer(p) \/ IceEnds(p) \/ NetworkCut(p)
          \/ ChannelOpens(p) \/ HearKick(p) \/ HearDown(p) \/ LateEvent(p)
          \/ HearOffer(p) \/ SendAnswer(p) \/ HostConnected(p) \/ NegotiationTimesOut(p) \/ HostHearsDown(p)
          \/ HostChannel(p) \/ HearTicket(p) \/ Refuse(p) \/ Grant(p) \/ HostHearsClose(p)
          \/ SecondChannel(p) \/ SecondCloses(p) \/ Kick(p)
    \/ HostConnects \/ HostSignalLost \/ Dispose

Spec == Init /\ [][Next]_vars

\* Sockets end their handshakes, events and messages are delivered, ICE ends,
\* negotiation timers fire and authenticate settles; nobody need call, kick or
\* break.  Nothing is done twice within the bounds, so that fairness to all of
\* these together is fairness to each.
Progress == \E p \in Peers :
    \/ SignalUp(p) \/ HearSignal(p) \/ SendOffer(p) \/ IceEnds(p) \/ ChannelOpens(p) \/ HearKick(p) \/ HearDown(p)
    \/ HearOffer(p) \/ SendAnswer(p) \/ HostConnected(p) \/ NegotiationTimesOut(p) \/ HostHearsDown(p)
    \/ Grant(p) \/ HostHearsClose(p)

FairSpec == Spec /\ WF_vars(Progress)
---------------------------------------------------------------------------

\* The types of the state: the peers, the client's fields, the host's maps.
TypeOK ==
    /\ room.order \in Seq(Peers \cup {Host}) /\ room.host \in Peers \cup {Host, None}
    /\ \A p \in Peers :
         /\ peer[p].owner \in Clients \cup {None} /\ peer[p].view \in Peers \cup {Host, None}
         /\ peer[p].sig \in {"none", "dialing", "in", "gone"}
         /\ peer[p].pc \in {"none", "new", "offered", "answered", "open", "closed"}
         /\ peer[p].offer \in {"none", "sent", "lost"}
         /\ peer[p].ticket \in {"none", "sent"}
         /\ {peer[p].retry, peer[p].frame, peer[p].told, peer[p].late} \subseteq BOOLEAN
         /\ serve[p] \in [pc : {"none", "fresh", "new", "connected"},
                          chan : {"none", "open", "closing", "closed"},
                          adm : {"none", "ticket", "granting", "over", "in"},
                          actor : Actors \cup {None}, second : {"none", "waiting", "wired", "over"}]
    /\ link \in [Peers -> {"none", "up", "cut"}]
    /\ \A c \in Clients :
         /\ {client[c].neg, client[c].chan} \subseteq Peers \cup {None}
         /\ client[c].attempts \in 0..MaxAttempts /\ {client[c].strays, client[c].awaits} \subseteq Nat
         /\ {client[c].left, client[c].closing, client[c].final, client[c].timer, client[c].crossed} \subseteq BOOLEAN
    /\ table.channels \in [Actors -> Peers \cup {None}] /\ table.unreliable \in [Actors -> Peers \cup {None}]
    /\ table.peerToActor \in [Peers -> Actors \cup {None}]
    /\ table.pending \subseteq Peers /\ table.closed \subseteq Actors /\ table.layer \subseteq Actors
    /\ hosting \in [signal : {"off", "in", "gone"}, disposed : BOOLEAN]

\* The maps of the transport tell one story, and the layer the same: an actor is in a
\* room exactly while the transport holds its channel, whatever the order in which the
\* channel's close, the connection's, the grant, a kick and the disposal come.
LedgerAgrees ==
    /\ table.layer = {a \in Actors : table.channels[a] # None}
    /\ \A p \in Peers, a \in Actors : table.peerToActor[p] = a <=> table.channels[a] = p
    /\ \A a \in Actors : table.unreliable[a] # None => table.channels[a] = table.unreliable[a]
    /\ \A p \in Peers : serve[p].chan = "closed" => table.peerToActor[p] = None

\* What an actor has been told, or will be by what is on its way, of who is host.
News(q) == {i \in DOMAIN q.inbox : q.inbox[i][1] # "answer"}
Latest(q) == CHOOSE i \in News(q) : \A j \in News(q) : j <= i
LastTold(q) == IF News(q) = {} THEN q.view ELSE q.inbox[Latest(q)][2]

\* Election: the host is the senior member, and every member has been told so, or
\* will be by what is on its way to it.
RoomAgrees ==
    /\ room.host = IF room.order = <<>> THEN None ELSE Head(room.order)
    /\ \A p \in Peers : /\ peer[p].sig = "in" <=> InRoom(p)
                        /\ peer[p].sig = "in" => LastTold(peer[p]) = room.host

\* Both sides of signaling keep books that agree (RTCTransport's maps, SignalRoom).
BooksAgree == LedgerAgrees /\ RoomAgrees

InUse(p) == peer[p].sig \in {"dialing", "in"} \/ Alive(peer[p])

\* A client has one negotiation in use, the one it knows, and none after disconnect():
\* unless connect() was called while an old reconnect attempt waited for its ticket,
\* which the code does not call off.
OneNegotiation == \A c \in Clients : client[c].crossed \/
    /\ client[c].chan \in {None, client[c].neg}
    /\ client[c].left => client[c].neg = None
    /\ \A p \in Peers : peer[p].owner = c /\ InUse(p) => p = client[c].neg

Before(q) == {p \in 1..q - 1 : peer[p].owner = peer[q].owner}

\* A client that the host kicked, and that heard so, does not come back by itself,
\* however the close frame and the events of the connection are ordered.
KickedStaysOut == \A q \in Peers : peer[q].retry =>
    \/ client[peer[q].owner].crossed
    \/ \E p \in Before(q) : (\A o \in Before(q) : o <= p) /\ ~peer[p].told

\* Every negotiation of a client is wanted, and there is no other beside it
\* (RTCClient.ts: performReconnect, triggerDisconnect).
WantedAndAlone == OneNegotiation /\ KickedStaysOut

\* When the disturbances are over the host has given up its end of every connection
\* whose client's end is closed, and the actor has left its room.
Released(p) ==
    /\ serve[p].pc = "none" /\ serve[p].chan \notin {"open", "closing"}
    /\ serve[p].actor = None \/ serve[p].actor \notin table.layer \/ table.channels[serve[p].actor] # p

HostLetsGo == <>[](\A p \in Peers : peer[p].pc = "closed" => Released(p))

\* Nobody answers: the client was told of a host that is not an RTCTransport, or its
\* offer or the answer went astray.  PeerNegotiator has no timeout.
Unanswered(p) == peer[p].offer = "lost" \/ (peer[p].sig = "in" /\ peer[p].view \in {None, p})

\* When the disturbances are over every negotiation a client waits for has led to an
\* open channel, unless nobody answers.
NegotiationEnds == <>[](\A c \in Clients :
    client[c].neg # None => client[c].chan # None \/ Unanswered(client[c].neg))
===========================================================================
