-------------------------- MODULE AgentLifecycle --------------------------
(***************************************************************************)
(* The life of one FleetAgent and of the WSClient under it: connect() and  *)
(* its deadline, the reconnect loop, drain() and undrain(), disconnect(),  *)
(* and the graceful shutdown that strings them together.  What the         *)
(* orchestrator does with the instance is in FleetControlPlane; here it is *)
(* reduced to what it sends (hello, polls that echo the status on record,  *)
(* commands) and to the record it keeps per connection.                    *)
(*                                                                         *)
(* WSClient drops the listeners of a socket when it lets go of it, so the  *)
(* agent hears only of its current one: socket is the state of that socket and *)
(* inbox what is under way on it.  closed and intentionalClose are always  *)
(* set together and are one flag, stopped.  The server has one room id.    *)
(* A hello that cannot be decoded is left out: both ends share the codec.  *)
(***************************************************************************)
EXTENDS Naturals, Sequences

CONSTANTS
    HasDeadline, \* whether connectTimeoutMs is set
    Hellos,      \* what an orchestrator may say: "hello", or "mismatch" for
                 \* another protocol version
    Ops,         \* commands it sends
    MaxCalls,    \* bound: calls of connect()
    MaxRequests, \* bound: calls of drain() and undrain() by the application
    MaxCmds,     \* bound: commands
    MaxDrops     \* bound: connections that fail or break

ASSUME LifecycleAssumption ==
    /\ HasDeadline \in BOOLEAN
    /\ Hellos \subseteq {"hello", "mismatch"}
    /\ Ops \subseteq {"create", "destroy", "drain", "undrain"}
    /\ {MaxCalls, MaxRequests, MaxCmds, MaxDrops} \subseteq Nat

VARIABLES
    lifecycle,  \* agent.status
    stopped,    \* closed and intentionalClose
    connectors, \* connect() promises that are pending
    retry,      \* reconnectTimer
    deadline,   \* connectDeadline
    handlers,   \* whether signal handlers are installed
    listening,  \* listenersAttached
    status,     \* Snapshot.statusValue
    waiting,    \* pendingStatus, as pairs <<target, who waits>>
    shutdown,   \* where gracefulShutdown is
    room,       \* who made the room: "none", "fleet" or "local"
    origin,     \* whether Snapshot.fleetOrigins holds the room id
    socket,         \* the WSClient's socket
    inbox,      \* frames from the orchestrator, in order
    recorded,   \* the status of the last snapshot applied on this connection
    reply,      \* the status in the reply that is under way, or "none"
    calls, requests, cmds, drops, \* counters for the bounds
    met,        \* history: hello was handled on this socket
    idle,       \* history: drain() or undrain() was called with no connection
                \* and none being made, and the agent was not stopped since
    lapsed      \* history: the room was destroyed while not listening

agent == <<lifecycle, stopped, connectors, retry, deadline, listening>>
duties == <<status, waiting>>
rooms == <<room, origin>>
link == <<socket, inbox, recorded, reply>>
bounds == <<calls, requests, cmds, drops>>
marks == <<met, idle, lapsed>>
agentVars == <<agent, duties, handlers, shutdown, rooms, link, bounds, marks>>

Status == {"active", "draining"}
\* Commands that set the status.
StatusOf == [drain |-> "draining", undrain |-> "active"]
Frame == [type : Hellos, arg : {"none"}] \cup [type : {"poll"}, arg : Status]
            \cup [type : {"cmd"}, arg : Ops]

AgentTypeOK ==
    /\ lifecycle \in {"connecting", "connected", "draining", "closed"}
    /\ connectors \in 0..MaxCalls
    /\ {stopped, retry, deadline, handlers, listening, origin, met, idle, lapsed} \subseteq BOOLEAN
    /\ status \in Status
    /\ waiting \subseteq Status \X {"app", "shutdown"}
    /\ shutdown \in {"no", "draining", "emptying", "over"}
    /\ room \in {"none", "fleet", "local"}
    /\ socket \in {"none", "connecting", "open"}
    /\ inbox \in Seq(Frame)
    /\ recorded \in Status \cup {"none"} /\ reply \in Status \cup {"none"}
    /\ calls \in 0..MaxCalls /\ requests \in 0..MaxRequests
    /\ cmds \in 0..MaxCmds /\ drops \in 0..MaxDrops

AgentInit ==
    /\ lifecycle = "closed" /\ stopped = FALSE /\ listening = TRUE
    /\ connectors = 0 /\ retry = FALSE /\ deadline = FALSE /\ handlers = FALSE
    /\ status = "active" /\ waiting = {} /\ shutdown = "no"
    /\ room = "none" /\ origin = FALSE
    /\ socket = "none" /\ inbox = <<>> /\ recorded = "none" /\ reply = "none"
    /\ calls = 0 /\ requests = 0 /\ cmds = 0 /\ drops = 0
    /\ met = FALSE /\ idle = FALSE /\ lapsed = FALSE

-----------------------------------------------------------------------------
(* The socket, and the two ways an agent lets go of it.                    *)

NoSocket == socket' = "none" /\ inbox' = <<>> /\ recorded' = "none" /\ reply' = "none" /\ met' = FALSE

\* openConnection(): WSClient.connect() refuses while it has a socket.
OpenConnection ==
    /\ socket' = IF socket = "none" THEN "connecting" ELSE socket
    /\ UNCHANGED <<inbox, recorded, reply, met>>

\* clearAllTimers(): the signal handlers go with the timers.
ClearTimers == retry' = FALSE /\ deadline' = FALSE /\ handlers' = FALSE

\* The common part of disconnect() and failConnect(): every promise that is
\* pending is rejected and nothing is left that could start again.
Stop ==
    /\ stopped' = TRUE
    /\ ClearTimers
    /\ waiting' = {}
    /\ NoSocket
    /\ listening' = FALSE
    /\ lifecycle' = "closed"
    /\ connectors' = 0
    /\ idle' = FALSE

\* connect(), the three ways it goes.
ConnectAgent ==
    /\ calls < MaxCalls
    /\ calls' = calls + 1
    /\ IF lifecycle \in {"connected", "draining"}
       THEN UNCHANGED <<agent, link, met>>
       ELSE IF connectors > 0
       THEN /\ connectors' = connectors + 1
            /\ UNCHANGED <<lifecycle, stopped, retry, deadline, listening, link, met>>
       ELSE /\ stopped' = FALSE
            /\ lifecycle' = "connecting"
            /\ listening' = TRUE
            /\ connectors' = 1
            /\ deadline' = HasDeadline
            /\ OpenConnection
            /\ UNCHANGED retry
    /\ UNCHANGED <<duties, handlers, shutdown, rooms, requests, cmds, drops, idle, lapsed>>

\* disconnect() by the application.
DisconnectAgent ==
    /\ Stop
    /\ UNCHANGED <<status, shutdown, rooms, bounds, lapsed>>

\* The connect deadline: failConnect().
DeadlineFires ==
    /\ deadline
    /\ Stop
    /\ UNCHANGED <<status, shutdown, rooms, bounds, lapsed>>

RetryFires ==
    /\ retry
    /\ retry' = FALSE
    /\ OpenConnection
    /\ UNCHANGED <<lifecycle, stopped, connectors, deadline, listening, duties, handlers,
                   shutdown, rooms, bounds, idle, lapsed>>

\* scheduleReconnect(): not over a timer that runs already.
SchedulesReconnect == retry' = TRUE

\* A connection is refused or lost: onTransportClose().
Drops ==
    /\ socket # "none"
    /\ drops < MaxDrops
    /\ drops' = drops + 1
    /\ NoSocket
    /\ waiting' = {}
    /\ lifecycle' = "connecting"
    /\ SchedulesReconnect
    /\ UNCHANGED <<stopped, connectors, deadline, listening, status, handlers, shutdown,
                   rooms, calls, requests, cmds, idle, lapsed>>

-----------------------------------------------------------------------------
(* The orchestrator's end.                                                 *)

\* It accepts, says hello and polls at once; it has nothing on record yet.
Accepts(h) ==
    /\ socket = "connecting"
    /\ socket' = "open"
    /\ inbox' = <<[type |-> h, arg |-> "none"], [type |-> "poll", arg |-> "active"]>>
    /\ UNCHANGED <<recorded, reply, agent, duties, handlers, shutdown, rooms, bounds, marks>>

\* The echo is the status on record, "active" if there is none.
Echo == IF recorded = "none" THEN "active" ELSE recorded

Poll ==
    /\ socket = "open"
    /\ reply = "none"
    /\ \A i \in DOMAIN inbox : inbox[i].type # "poll"
    /\ inbox' = Append(inbox, [type |-> "poll", arg |-> Echo])
    /\ UNCHANGED <<socket, recorded, reply, agent, duties, handlers, shutdown, rooms, bounds, marks>>

Records ==
    /\ reply # "none"
    /\ recorded' = reply
    /\ reply' = "none"
    /\ UNCHANGED <<socket, inbox, agent, duties, handlers, shutdown, rooms, bounds, marks>>

Commands(op) ==
    /\ socket = "open"
    /\ cmds < MaxCmds
    /\ cmds' = cmds + 1
    /\ inbox' = Append(inbox, [type |-> "cmd", arg |-> op])
    /\ UNCHANGED <<socket, recorded, reply, agent, duties, handlers, shutdown, rooms, calls,
                   requests, drops, marks>>

-----------------------------------------------------------------------------
(* Frames.                                                                 *)

Receives(type) == inbox # <<>> /\ Head(inbox).type = type

\* onHello(): every connect() promise is resolved, and the timers go.
OnHello ==
    /\ Receives("hello")
    /\ retry' = FALSE /\ deadline' = FALSE
    /\ lifecycle' = IF status = "draining" THEN "draining" ELSE "connected"
    /\ connectors' = 0
    /\ met' = TRUE
    /\ inbox' = Tail(inbox)
    /\ UNCHANGED <<stopped, listening, socket, recorded, reply, duties, handlers, shutdown,
                   rooms, bounds, idle, lapsed>>

\* A protocol of another version: failConnect().
OnMismatch ==
    /\ Receives("mismatch")
    /\ Stop
    /\ UNCHANGED <<status, shutdown, rooms, bounds, lapsed>>

\* Mutants, here and below: each is the definition after it with a plausible bug.
ReplyStatus_echo(echo) == echo

\* The status in the reply is the agent's own.
ReplyStatus(echo) == status

\* resolveStatusOnEcho(): the waiters whose status the poll echoes.
Confirmed(echo) == {w \in waiting : w[1] = echo}

OnPoll ==
    /\ Receives("poll")
    /\ waiting' = waiting \ Confirmed(Head(inbox).arg)
    /\ reply' = ReplyStatus(Head(inbox).arg)
    /\ inbox' = Tail(inbox)
    /\ UNCHANGED <<socket, recorded, status, agent, handlers, shutdown, rooms, bounds, marks>>

\* execCreate(), execDestroy(), execStatusCmd().
OnCmd ==
    /\ Receives("cmd")
    /\ LET op == Head(inbox).arg
       IN \/ /\ op = "create"
             /\ IF room = "none"
                THEN room' = "fleet" /\ origin' = TRUE
                ELSE UNCHANGED <<room, origin>>
             /\ UNCHANGED <<status, lifecycle>>
          \/ /\ op = "destroy"
             /\ IF room = "none"
                THEN UNCHANGED rooms
                ELSE room' = "none" /\ origin' = FALSE
             /\ UNCHANGED <<status, lifecycle>>
          \/ /\ op \in DOMAIN StatusOf
             /\ status' = StatusOf[op]
             /\ lifecycle' = IF op = "drain" THEN "draining" ELSE "connected"
             /\ UNCHANGED rooms
    /\ inbox' = Tail(inbox)
    /\ UNCHANGED <<stopped, connectors, retry, deadline, listening, waiting, handlers,
                   shutdown, socket, recorded, reply, bounds, marks>>

-----------------------------------------------------------------------------
(* The application and its server.                                         *)

\* requestStatus(): whatever the agent's state, it now claims to be connected.
RequestStatus(target, who) ==
    /\ status' = target
    /\ lifecycle' = IF target = "draining" THEN "draining" ELSE "connected"
    /\ waiting' = waiting \cup {<<target, who>>}
    /\ idle' = (idle \/ (socket = "none" /\ ~retry))

Request(target) ==
    /\ requests < MaxRequests
    /\ requests' = requests + 1
    /\ RequestStatus(target, "app")
    /\ UNCHANGED <<stopped, connectors, retry, deadline, listening, handlers, shutdown,
                   rooms, link, calls, cmds, drops, met, lapsed>>

\* enableGracefulShutdown(), and a signal.
EnableGracefulShutdown ==
    /\ ~handlers /\ shutdown = "no"
    /\ handlers' = TRUE
    /\ UNCHANGED <<agent, duties, shutdown, rooms, link, bounds, marks>>

Signal ==
    /\ handlers /\ shutdown = "no"
    /\ shutdown' = "draining"
    /\ RequestStatus("draining", "shutdown")
    /\ UNCHANGED <<stopped, connectors, retry, deadline, listening, handlers, rooms, link,
                   bounds, met, lapsed>>

\* The await of drain() in gracefulShutdown is over, one way or the other.
Drained ==
    /\ shutdown = "draining"
    /\ <<"draining", "shutdown">> \notin waiting
    /\ shutdown' = "emptying"
    /\ UNCHANGED <<agent, duties, handlers, rooms, link, bounds, marks>>

\* awaitEmpty() is over, with the rooms empty or after its timeout: disconnect()
\* and then rivalis.shutdown(), whose room destructions the agent no longer hears.
Finish ==
    /\ shutdown = "emptying"
    /\ shutdown' = "over"
    /\ Stop
    /\ room' = "none"
    /\ lapsed' = (lapsed \/ room # "none")
    /\ UNCHANGED <<status, origin, bounds>>

LocalCreate ==
    /\ room = "none" /\ shutdown # "over"
    /\ room' = "local"
    /\ UNCHANGED <<origin, agent, duties, handlers, shutdown, link, bounds, marks>>

StillMarked_always(marked) == marked

\* The 'destroy' event of RoomManager, if the agent listens to it: forgetRoom().
StillMarked(marked) == marked /\ ~listening

LocalDestroy ==
    /\ room # "none"
    /\ room' = "none"
    /\ origin' = StillMarked(origin)
    /\ lapsed' = (lapsed \/ ~listening)
    /\ UNCHANGED <<agent, duties, handlers, shutdown, link, bounds, met, idle>>

-----------------------------------------------------------------------------
AgentNext ==
    \/ ConnectAgent \/ DisconnectAgent \/ DeadlineFires \/ RetryFires \/ Drops
    \/ \E h \in Hellos : Accepts(h)
    \/ Poll \/ Records
    \/ \E op \in Ops : Commands(op)
    \/ OnHello \/ OnMismatch \/ OnPoll \/ OnCmd
    \/ \E target \in Status : Request(target)
    \/ EnableGracefulShutdown \/ Signal \/ Drained \/ Finish
    \/ LocalCreate \/ LocalDestroy

AgentSpec == AgentInit /\ [][AgentNext]_agentVars

\* Timers fire, continuations run, and the orchestrator accepts, polls, applies
\* replies and has its frames delivered, as long as the connection lasts.
AgentFairSpec ==
    /\ AgentSpec
    /\ WF_agentVars(RetryFires) /\ WF_agentVars(\E h \in Hellos : Accepts(h))
    /\ WF_agentVars(Poll) /\ WF_agentVars(Records)
    /\ WF_agentVars(OnHello \/ OnMismatch \/ OnPoll \/ OnCmd)
    /\ WF_agentVars(Drained) /\ WF_agentVars(Finish)

-----------------------------------------------------------------------------
(* Properties.                                                             *)

\* The greeting that a connection begins with is under way.
Greeted == \E i \in DOMAIN inbox : inbox[i].type \in {"hello", "mismatch"}

\* Something that can still bring the agent to its orchestrator, or tell it that it
\* must not go there.
Reaching == retry \/ socket = "connecting" \/ Greeted

\* Nobody waits for what nothing can bring about any more.  While a connect() is
\* pending, or the agent says that it is connecting, a timer, an attempt or a
\* greeting is under way; while a drain() or undrain() is pending there is one of
\* these or a connection, except if it was called with nothing to connect to.
NobodyStranded ==
    /\ connectors > 0 \/ lifecycle = "connecting" => Reaching
    /\ waiting # {} /\ ~idle => Reaching \/ socket = "open"

\* Nobody is stranded, and what is under way does it: connect() ends, and the agent does
\* not go on connecting for ever.  drain() and undrain() end, in an echo of the status they
\* asked for or in a rejection; except if the status was changed before its echo
\* came, by the opposite call or command (the promise then lasts as long as the
\* connection: every echo has the other status), or if there was nothing to connect to.
PromisesSettle ==
    /\ []NobodyStranded
    /\ []<>(connectors = 0 /\ lifecycle # "connecting")
    /\ []<>(idle \/ \A w \in waiting : w[1] # status)

\* A room that the application made is not reported as made by the fleet; except
\* after a room was destroyed while the agent did not listen.
ProvenanceTrue == room = "local" /\ origin => lapsed

\* A signal leads to the shutdown of the server; except if somebody makes the
\* instance active again while the shutdown waits for its drain to be confirmed,
\* or asked for the drain while there was no connection.
ShutdownEnds == []<>(shutdown \in {"no", "over"} \/ status = "active" \/ idle)
===========================================================================
