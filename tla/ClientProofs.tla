---------------------------- MODULE ClientProofs ----------------------------
(***************************************************************************)
(* The two users of WSClient, for any number of calls, sockets, attempts   *)
(* and lost connections.  A game client that leaves has left, and as long  *)
(* as nobody connects while a ticket is awaited it has no socket that it   *)
(* does not know of.  A fleet agent with promises pending has something    *)
(* under way that can still settle them, and a room of the application is  *)
(* not taken for the fleet's.                                              *)
(***************************************************************************)
EXTENDS ReconnectingClient, AgentLifecycle, TLAPS

-----------------------------------------------------------------------------
(* The game client.                                                        *)

\* The client's socket was opened by it, and attempts can be compared.
SocketInv ==
    /\ attempts \in Nat
    /\ line \in [Socket -> Line]
    /\ ws \in Socket \cup {0}
    /\ ws # 0 => line[ws] # "unused"

LEMMA SocketInit == Init => SocketInv
  BY DEF Init, SocketInv, Line

\* What a new socket, or the close of one, does to it.
LEMMA OpenSocketStep ==
    ASSUME SocketInv, OpenSocket
    PROVE  line' \in [Socket -> Line] /\ ws' \in Socket /\ line'[ws'] # "unused"
  BY DEF SocketInv, OpenSocket, Line

LEMMA OnCloseStep ==
    ASSUME SocketInv, NEW s \in Socket, NEW c, OnClose(s, c)
    PROVE  SocketInv'
  BY DEF SocketInv, OnClose, ScheduleReconnect, Line

LEMMA SocketStep ==
    ASSUME SocketInv, [Next]_vars
    PROVE  SocketInv'
<1>1. CASE Connect
  BY <1>1, OpenSocketStep DEF Connect, SocketInv
<1>2. CASE Disconnect
  <2>1. CASE ws = 0
    BY <1>2, <2>1 DEF Disconnect, SocketInv
  <2>2. CASE ws # 0
    BY <1>2, <2>2 DEF Disconnect, SocketInv, Line
  <2> QED
    BY <2>1, <2>2
<1>3. CASE TimerFires
  <2>1. CASE OpenSocket
    BY <1>3, <2>1, OpenSocketStep DEF TimerFires, SocketInv
  <2>2. CASE UNCHANGED sockets
    BY <1>3, <2>2 DEF TimerFires, SocketInv, sockets
  <2> QED
    BY <1>3, <2>1, <2>2 DEF TimerFires, PerformReconnect
<1>4. CASE TicketArrives
  <2>1. CASE OpenSocket
    BY <1>4, <2>1, OpenSocketStep DEF TicketArrives, SocketInv
  <2>2. CASE UNCHANGED sockets
    BY <1>4, <2>2 DEF TicketArrives, SocketInv, sockets
  <2> QED
    BY <1>4, <2>1, <2>2 DEF TicketArrives
<1>5. CASE \E s \in Socket : ConnectFails(s) \/ CloseArrives(s) \/ CloseCompletes(s)
  BY <1>5, OnCloseStep DEF ConnectFails, CloseArrives, CloseCompletes
<1>6. CASE \E s \in Socket : Opens(s)
  BY <1>6 DEF Opens, SocketInv, Line
<1>7. CASE TicketFails \/ RunHeartbeat
  BY <1>7 DEF TicketFails, RunHeartbeat, SocketInv, sockets, timers
<1>8. CASE \E s \in Socket : \/ Granted(s) \/ ClientGone(s) \/ Pong(s) \/ Dies(s)
                            \/ \E c \in {"retry", "terminal"} : ServerCloses(s, c)
  BY <1>8 DEF Granted, ClientGone, Pong, Dies, ServerCloses, SocketInv, sockets, timers
<1>9. CASE UNCHANGED vars
  BY <1>9 DEF vars, sockets, timers, SocketInv
<1> QED
  BY <1>1, <1>2, <1>3, <1>4, <1>5, <1>6, <1>7, <1>8, <1>9 DEF Next

-----------------------------------------------------------------------------
\* One step of a client that has left.
Stays ==
    left /\ left' => /\ \A s \in Socket : line[s] = "unused" => line'[s] = "unused"
                     /\ attempts' <= attempts

LEMMA StaysStep ==
    ASSUME SocketInv, [Next]_vars
    PROVE  Stays
<1> SUFFICES ASSUME left, left'
             PROVE  /\ \A s \in Socket : line[s] = "unused" => line'[s] = "unused"
                    /\ attempts' <= attempts
  BY DEF Stays
<1>1. CASE Connect
  BY <1>1 DEF Connect
<1>2. CASE Disconnect
  BY <1>2 DEF Disconnect, SocketInv
<1>3. CASE TimerFires \/ TicketArrives \/ TicketFails
  BY <1>3 DEF TimerFires, PerformReconnect, MayReconnect, TicketArrives, StillWanted,
              TicketFails, SocketInv, sockets
<1>4. CASE \E s \in Socket : ConnectFails(s) \/ CloseArrives(s) \/ CloseCompletes(s)
  <2>1. ASSUME NEW s \in Socket, NEW c, OnClose(s, c), line[s] # "unused"
        PROVE  /\ \A r \in Socket : line[r] = "unused" => line'[r] = "unused"
               /\ attempts' <= attempts
    BY <2>1 DEF OnClose, ShouldReconnect, SocketInv
  <2> QED
    BY <1>4, <2>1 DEF ConnectFails, CloseArrives, CloseCompletes
<1>5. CASE \E s \in Socket : Opens(s)
  BY <1>5 DEF Opens, SocketInv
<1>6. CASE RunHeartbeat
  BY <1>6 DEF RunHeartbeat, SocketInv, sockets, timers
<1>7. CASE \E s \in Socket : \/ Granted(s) \/ ClientGone(s) \/ Pong(s) \/ Dies(s)
                            \/ \E c \in {"retry", "terminal"} : ServerCloses(s, c)
  BY <1>7 DEF Granted, ClientGone, Pong, Dies, ServerCloses, SocketInv, sockets, timers
<1>8. CASE UNCHANGED vars
  BY <1>8 DEF vars, sockets, timers, SocketInv
<1> QED
  BY <1>1, <1>2, <1>3, <1>4, <1>5, <1>6, <1>7, <1>8 DEF Next

\* After disconnect() no socket is opened and no reconnect is announced until the next
\* connect(), whatever timer fires and whatever ticket arrives (WSClient: disconnect,
\* performReconnect).
THEOREM LeavingAlwaysFinal == Spec => LeavingIsFinal
<1>1. SocketInv /\ [Next]_vars => [Stays]_vars
  BY StaysStep
<1> QED
  BY <1>1, SocketInit, SocketStep, PTL DEF Spec, LeavingIsFinal, Stays

-----------------------------------------------------------------------------
\* Of a socket, a timer and an awaited ticket the client has one at most: what comes next
\* is then a matter of that one alone.
OneThing ==
    /\ attached \subseteq {ws} /\ strays = 0 /\ fetching \in {0, 1}
    /\ armed => ws = 0 /\ fetching = 0
    /\ fetching = 1 => ws = 0
    /\ \A s \in attached : line[s] = "open" => s \in hears

OneInv ==
    /\ SocketInv
    /\ attached \subseteq Socket
    /\ ~crossed => OneThing

LEMMA OneInit == Init => OneInv
  BY SocketInit DEF Init, OneInv, OneThing

\* A socket that is opened where there is nothing is the one thing there is.
LEMMA OpenFromNothing ==
    ASSUME OneInv, OpenSocket, UNCHANGED hears, ~crossed',
           attached = {}, strays' = 0, fetching' = 0, ~armed'
    PROVE  OneThing'
<1>1. PICK s \in Socket : /\ ws' = s
                         /\ line' = [line EXCEPT ![s] = "connecting"]
                         /\ attached' = attached \cup {s}
  BY DEF OpenSocket
<1>2. line'[s] = "connecting"
  BY <1>1 DEF OneInv, SocketInv
<1> QED
  BY <1>1, <1>2 DEF OneThing

\* The close of the client's socket leaves at most a timer; any other leaves all as it is.
LEMMA OneOnClose ==
    ASSUME OneInv, NEW s \in Socket, NEW c, OnClose(s, c), UNCHANGED <<fetching, crossed>>
    PROVE  OneInv'
<1>1. SocketInv' /\ attached' \subseteq Socket
  BY OnCloseStep DEF OneInv, OnClose
<1>2. ASSUME OneThing, s \in attached
      PROVE  OneThing'
  <2>1. ws = s /\ ws # 0 /\ attached = {s}
    <3>1. s \in 1..MaxSockets /\ MaxSockets \in Nat
      BY ClientAssumption DEF Socket
    <3>2. s # 0
      BY <3>1
    <3> QED
      BY <1>2, <3>2 DEF OneThing
  <2>2. attached' = {} /\ ws' = 0
    BY <1>2, <2>1 DEF OnClose
  <2> QED
    BY <1>2, <2>1, <2>2 DEF OnClose, OneThing, ScheduleReconnect
<1>3. ASSUME OneThing, s \notin attached
      PROVE  OneThing'
  BY <1>3 DEF OnClose, OneThing, OneInv, SocketInv
<1> QED
  BY <1>1, <1>2, <1>3 DEF OneInv

LEMMA OneStep ==
    ASSUME OneInv, [Next]_vars
    PROVE  OneInv'
<1>1. SocketInv'
  BY SocketStep DEF OneInv
<1>2. CASE Connect
  <2>1. attached' \subseteq Socket
    BY <1>2 DEF Connect, OpenSocket, OneInv
  <2>2. ASSUME ~crossed' PROVE OneThing'
    <3>1. ~crossed /\ ~(fetching > 0)
      BY <1>2, <2>2 DEF Connect
    <3>2. fetching = 0 /\ attached = {}
      BY <1>2, <3>1 DEF Connect, OneInv, OneThing, Socket
    <3> QED
      BY <1>2, <2>2, <3>1, <3>2, OpenFromNothing DEF Connect, CancelReconnect, OneInv, OneThing
  <2> QED
    BY <1>1, <2>1, <2>2 DEF OneInv
<1>3. CASE Disconnect
  <2>1. ~crossed => OneThing'
    BY <1>3 DEF Disconnect, CancelReconnect, OneInv, OneThing, SocketInv, history
  <2> QED
    BY <1>1, <1>3, <2>1 DEF Disconnect, OneInv, history
<1>4. CASE TimerFires
  <2>1. attached' \subseteq Socket /\ crossed' = crossed
    BY <1>4 DEF TimerFires, PerformReconnect, OpenSocket, OneInv, sockets, history
  <2>2. ASSUME ~crossed PROVE OneThing'
    <3>1. OneThing /\ armed /\ ws = 0 /\ fetching = 0 /\ strays' = 0 /\ armed' = FALSE
      BY <1>4, <2>2 DEF TimerFires, OneInv, OneThing
    <3>2. attached = {}
      BY <3>1 DEF OneThing, OneInv, Socket
    <3>3. CASE OpenSocket /\ UNCHANGED <<fetching, hears>>
      BY <2>1, <2>2, <3>1, <3>2, <3>3, OpenFromNothing
    <3>4. CASE fetching' \in {fetching, fetching + 1} /\ UNCHANGED sockets
      BY <3>1, <3>2, <3>4 DEF OneThing, sockets
    <3> QED
      BY <1>4, <3>3, <3>4 DEF TimerFires, PerformReconnect
  <2> QED
    BY <1>1, <2>1, <2>2 DEF OneInv
<1>5. CASE TicketArrives
  <2>1. attached' \subseteq Socket /\ crossed' = crossed
    BY <1>5 DEF TicketArrives, OpenSocket, OneInv, sockets, history
  <2>2. ASSUME ~crossed PROVE OneThing'
    <3>1. OneThing /\ fetching = 1 /\ fetching' = 0 /\ ws = 0 /\ ~armed /\ UNCHANGED <<strays, armed>>
      BY <1>5, <2>2 DEF TicketArrives, OneInv, OneThing
    <3>2. attached = {}
      BY <3>1 DEF OneThing, OneInv, Socket
    <3>3. CASE OpenSocket /\ UNCHANGED hears
      BY <2>1, <2>2, <3>1, <3>2, <3>3, OpenFromNothing DEF OneThing
    <3>4. CASE UNCHANGED sockets
      BY <3>1, <3>2, <3>4 DEF OneThing, sockets
    <3> QED
      BY <1>5, <3>3, <3>4 DEF TicketArrives
  <2> QED
    BY <1>1, <2>1, <2>2 DEF OneInv
<1>6. CASE TicketFails
  BY <1>1, <1>6 DEF TicketFails, OneInv, OneThing, sockets
<1>7. CASE \E s \in Socket : ConnectFails(s) \/ CloseArrives(s) \/ CloseCompletes(s)
  BY <1>7, OneOnClose DEF ConnectFails, CloseArrives, CloseCompletes
<1>8. CASE \E s \in Socket : Opens(s)
  BY <1>1, <1>8 DEF Opens, OneInv, OneThing, SocketInv, history, Socket
<1>9. CASE RunHeartbeat
  BY <1>1, <1>9 DEF RunHeartbeat, OneInv, OneThing, sockets, timers, history
<1>10. CASE \E s \in Socket : \/ Granted(s) \/ ClientGone(s) \/ Pong(s) \/ Dies(s)
                             \/ \E c \in {"retry", "terminal"} : ServerCloses(s, c)
  BY <1>1, <1>10 DEF Granted, ClientGone, Pong, Dies, ServerCloses, OneInv, OneThing,
                     sockets, timers, history
<1>11. CASE UNCHANGED vars
  BY <1>1, <1>11 DEF vars, sockets, timers, history, OneInv, OneThing
<1> QED
  BY <1>2, <1>3, <1>4, <1>5, <1>6, <1>7, <1>8, <1>9, <1>10, <1>11 DEF Next

\* A client that nobody connects while it awaits a ticket has the one socket it knows
\* of, and hears it (WSClient: openSocket, onOpen, performReconnect).
THEOREM AlwaysOneSocket == Spec => []OneSocket
<1>1. OneInv => OneSocket
  BY DEF OneInv, OneThing, OneSocket, Live
<1> QED
  BY <1>1, OneInit, OneStep, PTL DEF Spec

-----------------------------------------------------------------------------
(* The fleet agent.                                                        *)

\* Frames come on an open socket and go with it.
FramesInv ==
    /\ connectors \in Nat /\ lifecycle \in {"connecting", "connected", "draining", "closed"}
    /\ socket \in {"none", "connecting", "open"} /\ status \in Status
    /\ inbox \in Seq(Frame)
    /\ recorded \in Status \cup {"none"} /\ reply \in Status \cup {"none"}
    /\ inbox # <<>> => socket = "open"

LEMMA FramesInit == AgentInit => FramesInv
  BY DEF AgentInit, FramesInv, Status

LEMMA FramesStep ==
    ASSUME FramesInv, [AgentNext]_agentVars
    PROVE  FramesInv'
<1> USE DEF FramesInv
<1>1. CASE ConnectAgent
  BY <1>1 DEF ConnectAgent, OpenConnection, agent, duties, link
<1>2. CASE DisconnectAgent \/ DeadlineFires \/ OnMismatch \/ Finish \/ Drops
  <2>1. /\ NoSocket /\ status' = status
        /\ connectors' \in {0, connectors} /\ lifecycle' \in {"closed", "connecting"}
    BY <1>2 DEF DisconnectAgent, DeadlineFires, OnMismatch, Finish, Stop, Drops
  <2> QED
    BY <2>1 DEF NoSocket
<1>3. CASE RetryFires
  BY <1>3 DEF RetryFires, OpenConnection, duties
<1>4. CASE \E h \in Hellos : Accepts(h)
  BY <1>4 DEF Accepts, agent, duties, Frame, Status
<1>5. CASE Poll
  BY <1>5 DEF Poll, Echo, agent, duties, Frame, Status
<1>6. CASE \E op \in Ops : Commands(op)
  BY <1>6 DEF Commands, agent, duties, Frame
<1>7. CASE Records
  BY <1>7 DEF Records, agent, duties
<1>8. CASE OnHello
  BY <1>8 DEF OnHello, Receives, duties
<1>9. CASE OnPoll
  BY <1>9 DEF OnPoll, Receives, ReplyStatus, agent
<1>10. CASE OnCmd
  BY <1>10 DEF OnCmd, Receives, StatusOf, Status
<1>11. CASE (\E target \in Status : Request(target)) \/ Signal
  BY <1>11 DEF Request, Signal, RequestStatus, link, Status
<1>12. CASE EnableGracefulShutdown \/ Drained \/ LocalCreate \/ LocalDestroy
  BY <1>12 DEF EnableGracefulShutdown, Drained, LocalCreate, LocalDestroy, agent, duties, link
<1>13. CASE UNCHANGED agentVars
  BY <1>13 DEF agentVars, agent, duties, link
<1> QED
  BY <1>1, <1>2, <1>3, <1>4, <1>5, <1>6, <1>7, <1>8, <1>9, <1>10, <1>11, <1>12, <1>13
     DEF AgentNext

\* Another frame that comes or is handled does not touch the greeting.
LEMMA GreetingStaysBehind ==
    ASSUME FramesInv, NEW type \in {"poll", "cmd"}, Receives(type), inbox' = Tail(inbox)
    PROVE  Greeted' <=> Greeted
<1>1. /\ inbox \in Seq(Frame) /\ inbox # <<>>
      /\ inbox[1].type \notin {"hello", "mismatch"}
  BY DEF FramesInv, Receives
<1>2. Greeted => Greeted'
  <2> SUFFICES ASSUME NEW i \in DOMAIN inbox, inbox[i].type \in {"hello", "mismatch"}
               PROVE  Greeted'
    BY DEF Greeted
  <2>1. i - 1 \in DOMAIN Tail(inbox) /\ Tail(inbox)[i - 1] = inbox[i]
    BY <1>1
  <2> QED
    BY <2>1 DEF Greeted
<1>3. Greeted' => Greeted
  <2> SUFFICES ASSUME NEW i \in DOMAIN Tail(inbox), Tail(inbox)[i].type \in {"hello", "mismatch"}
               PROVE  Greeted
    BY DEF Greeted
  <2>1. i + 1 \in DOMAIN inbox /\ inbox[i + 1] = Tail(inbox)[i]
    BY <1>1
  <2> QED
    BY <2>1 DEF Greeted
<1> QED
  BY <1>2, <1>3

LEMMA GreetingStaysAhead ==
    ASSUME FramesInv, NEW f, inbox' = Append(inbox, f), f.type \notin {"hello", "mismatch"}
    PROVE  Greeted' <=> Greeted
<1>1. /\ DOMAIN inbox \subseteq DOMAIN inbox'
      /\ \A i \in DOMAIN inbox : inbox'[i] = inbox[i]
      /\ \A i \in DOMAIN inbox' : i \in DOMAIN inbox \/ inbox'[i] = f
  BY DEF FramesInv
<1> QED
  BY <1>1 DEF Greeted

\* A connection is greeted once: when the greeting was handled nobody waits for it.
GreetingAnswers ==
    socket = "open" /\ ~Greeted => connectors = 0 /\ lifecycle # "connecting"

\* A stopped agent has nothing to connect to, and as long as a status asked for then makes it
\* look connected, it gets nothing.
StoppedHasNothing ==
    /\ lifecycle = "closed" => socket = "none" /\ ~retry
    /\ idle => socket = "none" /\ ~retry /\ connectors = 0 /\ lifecycle \in {"connected", "draining"}

StrandedInv == FramesInv /\ GreetingAnswers /\ StoppedHasNothing /\ NobodyStranded

LEMMA NoGreetingWithoutFrames ==
    ASSUME FramesInv, socket # "open"
    PROVE  ~Greeted
  BY DEF FramesInv, Greeted

LEMMA StrandedInit == AgentInit => StrandedInv
  BY FramesInit DEF AgentInit, StrandedInv, GreetingAnswers, StoppedHasNothing, NobodyStranded

\* Whatever lets go of everything leaves nobody waiting.
LEMMA StopStrandsNobody ==
    Stop => GreetingAnswers' /\ StoppedHasNothing' /\ NobodyStranded'
  BY DEF Stop, ClearTimers, NoSocket, GreetingAnswers, StoppedHasNothing, NobodyStranded

LEMMA StrandedStep ==
    ASSUME StrandedInv, [AgentNext]_agentVars
    PROVE  StrandedInv'
<1>0. FramesInv'
  BY FramesStep DEF StrandedInv
<1> USE DEF StrandedInv, GreetingAnswers, StoppedHasNothing, NobodyStranded, Reaching
<1>1. CASE ConnectAgent
  <2>1. UNCHANGED <<inbox, waiting, idle>> /\ (Greeted' <=> Greeted)
    BY <1>1 DEF ConnectAgent, OpenConnection, duties, link, Greeted
  <2>2. CASE lifecycle \in {"connected", "draining"} \/ connectors > 0
    BY <1>0, <1>1, <2>1, <2>2 DEF ConnectAgent, agent, link
  <2>3. CASE ~(lifecycle \in {"connected", "draining"} \/ connectors > 0)
    <3>1. connectors' = 1 /\ lifecycle' = "connecting" /\ OpenConnection /\ retry' = retry
      BY <1>1, <2>3 DEF ConnectAgent
    <3> QED
      BY <1>0, <2>1, <2>3, <3>1 DEF OpenConnection, FramesInv
  <2> QED
    BY <2>2, <2>3
<1>2. CASE DisconnectAgent \/ DeadlineFires \/ OnMismatch \/ Finish
  BY <1>0, <1>2, StopStrandsNobody DEF DisconnectAgent, DeadlineFires, OnMismatch, Finish
<1>3. CASE RetryFires
  BY <1>0, <1>3 DEF RetryFires, OpenConnection, duties, Greeted, FramesInv
<1>4. CASE Drops
  BY <1>0, <1>4 DEF Drops, NoSocket, SchedulesReconnect
<1>5. ASSUME NEW h \in Hellos, Accepts(h)
      PROVE  StrandedInv'
  <2>1. Greeted'
    <3>1. 1 \in DOMAIN inbox' /\ inbox'[1].type = h
      BY <1>5 DEF Accepts
    <3> QED
      BY <3>1, LifecycleAssumption DEF Greeted
  <2> QED
    BY <1>0, <1>5, <2>1 DEF Accepts, agent, duties, marks
<1>6. CASE Poll
  BY <1>0, <1>6, GreetingStaysAhead DEF Poll, agent, duties, marks
<1>7. CASE \E op \in Ops : Commands(op)
  BY <1>0, <1>7, GreetingStaysAhead DEF Commands, agent, duties, marks
<1>8. CASE Records
  BY <1>0, <1>8 DEF Records, agent, duties, marks, Greeted
<1>9. CASE OnHello
  BY <1>0, <1>9 DEF OnHello, Receives, duties, FramesInv
<1>10. CASE OnPoll
  BY <1>0, <1>10, GreetingStaysBehind DEF OnPoll, Confirmed, agent, marks
<1>11. CASE OnCmd
  <2>1. socket = "open" /\ UNCHANGED <<socket, retry, connectors, waiting, idle>>
    BY <1>11 DEF OnCmd, Receives, FramesInv, marks
  <2>2. lifecycle' \in {lifecycle, "connected", "draining"}
    BY <1>11 DEF OnCmd
  <2>3. Greeted' <=> Greeted
    BY <1>11, GreetingStaysBehind DEF OnCmd
  <2> QED
    BY <1>0, <2>1, <2>2, <2>3
<1>12. CASE (\E target \in Status : Request(target)) \/ Signal
  <2>1. PICK target, who : RequestStatus(target, who)
    BY <1>12 DEF Request, Signal
  <2>2. UNCHANGED <<inbox, socket, retry, connectors>> /\ (Greeted' <=> Greeted)
    BY <1>12 DEF Request, Signal, link, Greeted
  <2>3. lifecycle' \in {"connected", "draining"}
    BY <2>1 DEF RequestStatus
  <2>4. CASE socket = "none" /\ ~retry
    <3>1. connectors = 0
      BY <2>4, NoGreetingWithoutFrames DEF FramesInv
    <3>2. idle'
      BY <2>1, <2>4 DEF RequestStatus
    <3> QED
      BY <1>0, <2>2, <2>3, <2>4, <3>1, <3>2
  <2>5. CASE ~(socket = "none" /\ ~retry)
    <3>1. ~idle'
      BY <2>1, <2>5 DEF RequestStatus
    <3> QED
      BY <1>0, <2>2, <2>3, <2>5, <3>1 DEF FramesInv
  <2> QED
    BY <2>4, <2>5
<1>13. CASE EnableGracefulShutdown \/ Drained \/ LocalCreate \/ LocalDestroy
  BY <1>0, <1>13 DEF EnableGracefulShutdown, Drained, LocalCreate, LocalDestroy, agent, duties,
                     link, marks, Greeted
<1>14. CASE UNCHANGED agentVars
  BY <1>0, <1>14 DEF agentVars, agent, duties, link, marks, Greeted
<1> QED
  BY <1>1, <1>2, <1>3, <1>4, <1>5, <1>6, <1>7, <1>8, <1>9, <1>10, <1>11, <1>12, <1>13, <1>14
     DEF AgentNext

\* While a connect() is pending or the agent says that it is connecting, a timer, an attempt
\* or a greeting is under way, and while a drain() or undrain() is pending one of these or
\* a connection, unless there was nothing to connect to (FleetAgent.ts: connect,
\* requestStatus, onTransportClose).
THEOREM NobodyEverStranded == AgentSpec => []NobodyStranded
<1>1. StrandedInv => NobodyStranded
  BY DEF StrandedInv
<1> QED
  BY <1>1, StrandedInit, StrandedStep, PTL DEF AgentSpec

-----------------------------------------------------------------------------
\* The id is marked only while its room is the fleet's, but for what the agent did
\* not hear.
MarkedIsFleets == origin => room = "fleet" \/ lapsed

LEMMA MarkedStep ==
    ASSUME MarkedIsFleets, [AgentNext]_agentVars
    PROVE  MarkedIsFleets'
<1> USE DEF MarkedIsFleets
<1>1. CASE OnCmd
  BY <1>1 DEF OnCmd, rooms, marks
<1>2. CASE Finish
  BY <1>2 DEF Finish
<1>3. CASE LocalCreate
  BY <1>3 DEF LocalCreate, marks
<1>4. CASE LocalDestroy
  BY <1>4 DEF LocalDestroy, StillMarked
<1>5. CASE \/ ConnectAgent \/ DisconnectAgent \/ DeadlineFires \/ RetryFires \/ Drops
           \/ OnHello \/ OnMismatch
  BY <1>5 DEF ConnectAgent, DisconnectAgent, DeadlineFires, RetryFires, Drops, OnHello, OnMismatch, rooms
<1>6. CASE \/ \E h \in Hellos : Accepts(h)
           \/ Poll \/ Records \/ OnPoll
           \/ \E op \in Ops : Commands(op)
  BY <1>6 DEF Accepts, Poll, Records, OnPoll, Commands, rooms, marks
<1>7. CASE \/ \E target \in Status : Request(target)
           \/ Signal \/ EnableGracefulShutdown \/ Drained
  BY <1>7 DEF Request, Signal, EnableGracefulShutdown, Drained, rooms, marks
<1>8. CASE UNCHANGED agentVars
  BY <1>8 DEF agentVars, rooms, marks
<1> QED
  BY <1>1, <1>2, <1>3, <1>4, <1>5, <1>6, <1>7, <1>8 DEF AgentNext

\* A room that the application made is not reported as the fleet's, unless a room was
\* destroyed while the agent did not listen (Snapshot.fleetOrigins, onRoomDestroy).
THEOREM ProvenanceAlwaysTrue == AgentSpec => []ProvenanceTrue
<1>1. AgentInit => MarkedIsFleets
  BY DEF AgentInit, MarkedIsFleets
<1>2. MarkedIsFleets => ProvenanceTrue
  BY DEF MarkedIsFleets, ProvenanceTrue
<1> QED
  BY <1>1, <1>2, MarkedStep, PTL DEF AgentSpec
=============================================================================
