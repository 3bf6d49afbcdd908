------------------------ MODULE ReconnectingClient ------------------------
(***************************************************************************)
(* The browser's WSClient against a WSTransport: one client object, the    *)
(* sockets it opens one after another, and the server's end of each with   *)
(* its heartbeat.                                                          *)
(*                                                                         *)
(* The client's handlers are members of the client, not of the socket:     *)
(* whichever socket an event comes from, they act on this.ws.  Therefore a *)
(* socket has an identity here, and ws says which of them the client       *)
(* thinks it has.  performReconnect awaits getTicket between the timer and *)
(* the new socket, and the application may call connect() and disconnect() *)
(* meanwhile.                                                              *)
(*                                                                         *)
(* Close codes are abstracted to those the client comes back after         *)
(* ("retry") and those it does not ("terminal", NO_RECONNECT_CODES).       *)
(* WSTransport never sends the in-band close frame, so pendingCloseCode    *)
(* stays null.  Delays are left out: a timer may fire at any moment.       *)
(***************************************************************************)
EXTENDS Naturals, FiniteSets

CONSTANTS
    MaxAttempts,   \* reconnect.maxAttempts; 0 when reconnect is off
    GetsTickets,   \* whether a getTicket callback is configured
    MissThreshold, \* heartbeat.missThreshold of the server
    MaxConnects,   \* bound: calls of connect()
    MaxSockets     \* bound: sockets the client opens

ASSUME ClientAssumption ==
    /\ {MaxAttempts, MaxConnects, MaxSockets} \subseteq Nat
    /\ MissThreshold \in Nat \ {0}
    /\ GetsTickets \in BOOLEAN

Socket == 1..MaxSockets

VARIABLES
    ws,       \* this.ws, or 0 for null
    line,     \* readyState of each socket
    attached, \* sockets whose close, message and error handlers are the client's
    hears,    \* sockets that have an onmessage handler
    attempts, \* reconnectAttempts, counted up to MaxAttempts
    armed,    \* whether reconnectTimer is set
    strays,   \* timers that run although reconnectTimer does not refer to them
    left,     \* userDisconnected
    ticket,   \* whether lastTicket is set
    fetching, \* calls of performReconnect that await getTicket
    connects, \* calls of connect() so far
    serving,  \* the server's end of each socket
    code,     \* what the server closed it with
    missed,   \* missedPings
    dead,     \* sockets nothing gets through any more, unknown to both ends
    silent,   \* sockets with a ping that no pong has answered yet
    crossed,  \* history: connect() was called while a ticket was awaited
    told      \* history: the end was reported since the last connect(), by
              \* reconnect_failed or by a terminal close code

user == <<left, ticket, connects>>
timers == <<armed, strays, fetching, attempts>>
sockets == <<ws, line, attached, hears>>
remote == <<serving, code, missed, dead, silent>>
history == <<crossed, told>>
vars == <<user, timers, sockets, remote, history>>

Line == {"unused", "connecting", "open", "closing", "closed"}
Serving == {"none", "auth", "joined", "over"}

TypeOK ==
    /\ ws \in Socket \cup {0}
    /\ line \in [Socket -> Line]
    /\ attached \subseteq Socket /\ hears \subseteq Socket
    /\ attempts \in 0..MaxAttempts
    /\ {strays, fetching} \subseteq 0..MaxSockets
    /\ {armed, left, ticket, crossed, told} \subseteq BOOLEAN
    /\ connects \in 0..MaxConnects
    /\ serving \in [Socket -> Serving]
    /\ code \in [Socket -> {"none", "retry", "terminal"}]
    /\ missed \in [Socket -> 0..MissThreshold]
    /\ dead \subseteq Socket /\ silent \subseteq Socket

Init ==
    /\ ws = 0
    /\ line = [s \in Socket |-> "unused"]
    /\ attached = {} /\ hears = {}
    /\ attempts = 0 /\ armed = FALSE /\ strays = 0 /\ fetching = 0
    /\ left = FALSE /\ ticket = FALSE /\ connects = 0
    /\ serving = [s \in Socket |-> "none"]
    /\ code = [s \in Socket |-> "none"]
    /\ missed = [s \in Socket |-> 0]
    /\ dead = {} /\ silent = {}
    /\ crossed = FALSE /\ told = FALSE

-----------------------------------------------------------------------------
(* The client.                                                             *)

\* Handlers are attached before the socket can have any event.  Nothing looks
\* whether the client has a socket already.
OpenSocket ==
    \E s \in Socket :
        /\ line[s] = "unused"
        /\ \A r \in 1..(s - 1) : line[r] # "unused"
        /\ ws' = s
        /\ line' = [line EXCEPT ![s] = "connecting"]
        /\ attached' = attached \cup {s}

\* Mutants, here and below: each is the definition after it with a plausible bug.
CancelReconnect_forgets == UNCHANGED armed

\* Clears the timer that reconnectTimer refers to.
CancelReconnect == armed' = FALSE

\* connect(): refused while this.ws is set.  A request for a ticket that is
\* under way is not called off.
Connect ==
    /\ connects < MaxConnects
    /\ ws = 0
    /\ connects' = connects + 1
    /\ CancelReconnect
    /\ left' = FALSE
    /\ attempts' = 0
    /\ ticket' = TRUE
    /\ told' = FALSE
    /\ crossed' = (crossed \/ fetching > 0)
    /\ OpenSocket
    /\ UNCHANGED <<strays, fetching, hears, remote>>

\* disconnect(): the handlers are detached first, so that the close of the
\* socket is not reported twice.
Disconnect ==
    /\ connects > 0
    /\ left' = TRUE
    /\ CancelReconnect
    /\ ticket' = FALSE
    /\ ws' = 0
    /\ IF ws = 0
       THEN UNCHANGED <<line, attached, hears>>
       ELSE /\ line' = [line EXCEPT ![ws] = IF @ = "closed" THEN @ ELSE "closing"]
            /\ attached' = attached \ {ws}
            /\ hears' = hears \ {ws}
    /\ UNCHANGED <<connects, strays, fetching, attempts, remote, history>>

ShouldReconnect(c) ==
    /\ ~left
    /\ ticket \/ GetsTickets
    /\ c # "terminal"
    /\ attempts < MaxAttempts

\* "Ran out of retries", as against a close that is final for another reason.
ReconnectExhausted ==
    /\ ~left
    /\ attempts > 0
    /\ attempts = MaxAttempts

\* A timer that is already running loses its handle and runs on.
ScheduleReconnect ==
    /\ attempts' = attempts + 1
    /\ armed' = TRUE
    /\ strays' = IF armed THEN strays + 1 ELSE strays

\* onClose forgets this.ws, whichever socket it was that closed.
OnClose(s, c) ==
    /\ line' = [line EXCEPT ![s] = "closed"]
    /\ hears' = hears \ {s}
    /\ IF s \in attached
       THEN /\ ws' = 0
            /\ attached' = attached \ {s}
            /\ IF ShouldReconnect(c)
               THEN ScheduleReconnect /\ UNCHANGED told
               ELSE /\ told' = (told \/ ReconnectExhausted \/ c = "terminal")
                    /\ UNCHANGED <<attempts, armed, strays>>
       ELSE UNCHANGED <<ws, attached, attempts, armed, strays, told>>

\* The connection is refused, or breaks before it is open.
ConnectFails(s) ==
    /\ line[s] = "connecting"
    /\ OnClose(s, "retry")
    /\ UNCHANGED <<fetching, user, remote, crossed>>

\* onOpen, once the server has accepted the upgrade: the message handler is
\* given to this.ws.  The server goes on to authenticate.
Opens(s) ==
    /\ line[s] = "connecting"
    /\ line' = [line EXCEPT ![s] = "open"]
    /\ serving' = [serving EXCEPT ![s] = "auth"]
    /\ hears' = IF ws = 0 THEN hears ELSE hears \cup {ws}
    /\ attempts' = 0
    /\ UNCHANGED <<ws, attached, armed, strays, fetching, user, code, missed,
                   dead, silent, history>>

\* The close that the server began, or the loss of the line, reaches the client.
CloseArrives(s) ==
    /\ line[s] \in {"open", "closing"}
    /\ serving[s] = "over" \/ s \in dead
    /\ OnClose(s, IF s \in dead THEN "retry" ELSE code[s])
    /\ UNCHANGED <<fetching, user, remote, crossed>>

\* A socket that the client closes before it was open has no peer yet.
CloseCompletes(s) ==
    /\ line[s] = "closing"
    /\ serving[s] = "none"
    /\ OnClose(s, "retry")
    /\ UNCHANGED <<fetching, user, remote, crossed>>

MayReconnect_notTheLast == ~left /\ (GetsTickets \/ ticket) /\ attempts < MaxAttempts

\* What performReconnect asks before it awaits anything.
MayReconnect == ~left /\ (GetsTickets \/ ticket)

\* performReconnect as far as its await, or all of it if there is no getTicket.
PerformReconnect ==
    IF ~MayReconnect THEN UNCHANGED <<fetching, sockets>>
    ELSE IF GetsTickets THEN fetching' = fetching + 1 /\ UNCHANGED sockets
    ELSE OpenSocket /\ UNCHANGED <<fetching, hears>>

\* The callback of a timer sets reconnectTimer to null, whichever timer it
\* refers to by now.
TimerFires ==
    /\ \/ armed /\ UNCHANGED strays
       \/ strays > 0 /\ strays' = IF armed THEN strays ELSE strays - 1
    /\ armed' = FALSE
    /\ PerformReconnect
    /\ UNCHANGED <<attempts, user, remote, history>>

StillWanted_unasked == TRUE

\* The disconnect flag, looked at again after the await.
StillWanted == ~left

\* getTicket has answered: whether the client has a socket again is not asked.
TicketArrives ==
    /\ fetching > 0
    /\ fetching' = fetching - 1
    /\ ticket' = TRUE
    /\ IF StillWanted THEN OpenSocket /\ UNCHANGED hears ELSE UNCHANGED sockets
    /\ UNCHANGED <<left, connects, armed, strays, attempts, remote, history>>

\* getTicket has failed: reported at once, whatever has happened meanwhile.
TicketFails ==
    /\ fetching > 0
    /\ fetching' = fetching - 1
    /\ told' = TRUE
    /\ UNCHANGED <<armed, strays, attempts, user, sockets, remote, crossed>>

-----------------------------------------------------------------------------
(* The server.                                                             *)

\* The sockets in S are gone for the server, those in pinged get a ping.
Over(S, c, pinged) ==
    /\ serving' = [s \in Socket |-> IF s \in S THEN "over" ELSE serving[s]]
    /\ code' = [s \in Socket |-> IF s \in S THEN c ELSE code[s]]
    /\ missed' = [s \in Socket |-> IF s \in S THEN 0
                                   ELSE IF s \in pinged THEN missed[s] + 1 ELSE missed[s]]
    /\ silent' = (silent \ S) \cup pinged

\* The handshake succeeds: the pong listener is attached only now.
Granted(s) ==
    /\ serving[s] = "auth"
    /\ serving' = [serving EXCEPT ![s] = "joined"]
    /\ missed' = [missed EXCEPT ![s] = 0]
    /\ UNCHANGED <<user, timers, sockets, code, dead, silent, history>>

\* The server ends it: an invalid ticket or a full room (terminal) or the rate limit
\* (retry) before the client is admitted, later a kick (terminal) or an invalid frame (retry).
ServerCloses(s, c) ==
    /\ serving[s] \in {"auth", "joined"}
    /\ Over({s}, c, {})
    /\ UNCHANGED <<user, timers, sockets, dead, history>>

\* The client's end was closed, and the server hears of it.
ClientGone(s) ==
    /\ line[s] \in {"closing", "closed"}
    /\ serving[s] \in {"auth", "joined"}
    /\ s \notin dead
    /\ Over({s}, "retry", {})
    /\ UNCHANGED <<user, timers, sockets, dead, history>>

Clients_joined == {s \in Socket : serving[s] = "joined"}

\* The sockets of the WebSocketServer.
Clients == {s \in Socket : serving[s] \in {"auth", "joined"}}
\* Those whose pongs have been missed.
Idle == {s \in Clients : missed[s] >= MissThreshold}

\* runHeartbeat: every socket of the server, whether its handshake is over or
\* not, is terminated or pinged.
RunHeartbeat ==
    /\ Clients # {}
    /\ Over(Idle, "retry", Clients \ Idle)
    /\ UNCHANGED <<user, timers, sockets, dead, history>>

\* The browser answers pings by itself; before the handshake is over nobody
\* listens for the pong.
Pong(s) ==
    /\ s \in Clients \ dead
    /\ line[s] \in {"open", "closing"}
    /\ s \in silent
    /\ silent' = silent \ {s}
    /\ missed' = IF serving[s] = "joined" THEN [missed EXCEPT ![s] = 0] ELSE missed
    /\ UNCHANGED <<user, timers, sockets, serving, code, dead, history>>

\* The line breaks without either end noticing.
Dies(s) ==
    /\ line[s] = "open"
    /\ s \notin dead
    /\ dead' = dead \cup {s}
    /\ UNCHANGED <<user, timers, sockets, serving, code, missed, silent, history>>

-----------------------------------------------------------------------------
Next ==
    \/ Connect
    \/ Disconnect
    \/ TimerFires
    \/ TicketArrives
    \/ TicketFails
    \/ RunHeartbeat
    \/ \E s \in Socket :
        \/ ConnectFails(s)
        \/ Opens(s)
        \/ CloseArrives(s)
        \/ CloseCompletes(s)
        \/ Granted(s)
        \/ \E c \in {"retry", "terminal"} : ServerCloses(s, c)
        \/ ClientGone(s)
        \/ Pong(s)
        \/ Dies(s)

Spec == Init /\ [][Next]_vars

\* Timers fire, the browser settles every attempt to connect, getTicket
\* answers, and a close reaches the other end of a live line.  None of these
\* happens for ever, so one condition covers them; the heartbeat does.  Nothing is
\* assumed of the server's authentication, nor that a client notices a dead line.
Settles(s) ==
    \/ Opens(s)
    \/ ConnectFails(s)
    \/ CloseCompletes(s)
    \/ serving[s] = "over" /\ CloseArrives(s)
    \/ ClientGone(s)

FairSpec ==
    /\ Spec
    /\ WF_vars(TimerFires \/ TicketArrives \/ TicketFails \/ \E s \in Socket : Settles(s))
    /\ WF_vars(RunHeartbeat)

-----------------------------------------------------------------------------
(* Properties.                                                             *)

\* Sockets whose events still reach the client.
Live == {s \in attached : line[s] \in {"connecting", "open"}}

\* The client has at most the one socket it knows of, with its message handler
\* in place once it is open: unless connect() was called while a ticket was
\* awaited, in which case the reconnect opens another one over it.
OneSocket ==
    ~crossed =>
        /\ Live \subseteq {ws} /\ strays = 0 /\ armed => ws = 0
        /\ \A s \in Live : line[s] = "open" => s \in hears

\* After disconnect() no socket is opened and no reconnect is announced until
\* the application calls connect(), whatever was awaited at the time.
LeavingIsFinal ==
    [][left /\ left' => /\ \A s \in Socket : line[s] = "unused" => line'[s] = "unused"
                        /\ attempts' <= attempts]_vars

\* The server drops every socket that the client has left or that died, the heartbeat
\* those it hears nothing of, also while their authentication never ends.
ServerLetsGo ==
    []<>(\A s \in Socket : line[s] \in {"closing", "closed"} \/ s \in dead =>
                            serving[s] \in {"none", "over"})

\* An application that wants to be connected gets its answer sooner or later: an
\* open socket, a report of failure, or a terminal code.
Answered ==
    \/ ws # 0 /\ line[ws] = "open"
    \/ told \/ left \/ connects = 0
\* Bound: all the sockets of the model are used up.
Exhausted == \A s \in Socket : line[s] # "unused"

\* A client that was not told to leave comes back, or says why not, whichever of
\* its sockets, timers and tickets end first.
ComesBack == []<>(Answered \/ crossed \/ Exhausted)

===========================================================================
