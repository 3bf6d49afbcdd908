------------------------- MODULE FleetControlPlane -------------------------
(***************************************************************************)
(* The fleet control plane: an orchestrator (FleetState, CommandEngine,    *)
(* FleetControl, Poller and the handlers of Orchestrator) that polls a set *)
(* of agents, places rooms on them and sends them commands, and the agents *)
(* (FleetAgent, Snapshot) that answer.  Orchestrator and agents talk over  *)
(* WebSocket connections: per connection, first in first out, and whatever *)
(* is in flight is lost with the connection.                               *)
(*                                                                         *)
(* A handler runs to its end, so it is one action.  The exception is       *)
(* FleetControl.sendStatusCommand, which resumes in a microtask after its  *)
(* ack (ResumeStatus): frames that arrived together with the ack may be    *)
(* handled before it.                                                      *)
(*                                                                         *)
(* The 64-bit hash of a snapshot is modelled as the snapshot itself, so    *)
(* hashes do not collide, and a forced full reply is a hash-only one that  *)
(* repeats what is recorded.  Room types, labels and loads only narrow or  *)
(* order the candidates of a placement: any candidate may be picked.       *)
(***************************************************************************)
EXTENDS Naturals, Sequences, FiniteSets, Functions

CONSTANTS
    Process,      \* server processes, one FleetAgent each
    RoomId,       \* room ids
    NoRoom,       \* the room id of a command about no room
    Unknown,      \* no snapshot applied yet; no holder
    MaxRooms,     \* capacity.maxRooms of every agent
    MaxInFlight,  \* MAX_INFLIGHT_COMMANDS (32 in the code)
    Wedges,       \* whether an agent may miss polls
    Timeouts,     \* whether commandTimeoutMs may pass before an answer
    Ops,          \* the operations clients of the orchestrator ask for
    Local,        \* what applications do to their own server: a subset of
                  \* {"create", "destroy", "status"}
    Pins,         \* whether clients pin placements to an instance
    MaxConnects,  \* bound: connections a process makes
    MaxReconnects,\* bound: reconnections of all processes together
    MaxCmds       \* bound: commands the orchestrator issues

ASSUME FleetAssumption ==
    /\ NoRoom \notin RoomId
    /\ {MaxRooms, MaxInFlight, MaxConnects} \subseteq Nat \ {0}
    /\ {MaxReconnects, MaxCmds} \subseteq Nat
    /\ {Wedges, Timeouts, Pins} \subseteq BOOLEAN
    /\ Ops \subseteq {"create", "destroy", "drain", "undrain"}
    /\ Local \subseteq {"create", "destroy", "status"}

\* An instance id is the actor id of one connection: a reconnect is a new one.
Instance == Process \X (1..MaxConnects)
Status == {"active", "draining"}
Cmd == [id : 1..MaxCmds, inst : Instance, op : Ops, room : RoomId \cup {NoRoom}]
StatusOf == [drain |-> "draining", undrain |-> "active"]
Snapshot == [rooms : SUBSET RoomId, fleet : SUBSET RoomId, status : Status]

ASSUME UnknownAssumption == Unknown \notin Instance \cup Snapshot \cup Status

VARIABLES
    links,       \* Orchestrator.links, and the keys of Poller.entries
    outstanding, \* Poller: reqId of the poll awaiting its reply, or 0
    missed,      \* Poller: consecutive missed replies
    records,     \* FleetState.records: the last snapshot applied, or Unknown
    stale,       \* FleetState.staleInstances
    override,    \* FleetState.pendingStatus
    reserved,    \* FleetState.reservedByInstance
    reservedIds, \* FleetState.reservedRoomIds
    held,        \* FleetState.pendingRoomIds: room id -> instance or Unknown
    heldCount,   \* FleetState.pendingByInstance
    pending,     \* CommandEngine.pending
    cmdSeq,      \* CommandEngine.cmdSeq
    resuming,    \* acked status commands whose caller is to resume, in order
    toAgent,     \* frames on their way to the agent, per connection
    toOrch,      \* frames on their way to the orchestrator
    current,     \* the connection number a process uses, 0 when it has none
    connects,    \* how often a process has connected
    rooms,       \* RoomManager.rooms of each process
    origins,     \* Snapshot.fleetOrigins of each process
    status,      \* Snapshot.statusValue of each process
    waiting,     \* FleetAgent.pendingStatus: targets of drain()/undrain()
    orphaned     \* history: room ids whose create was settled without an
                 \* answer, or whose instance was removed

pollVars == <<outstanding, missed>>
readVars == <<records, stale, override>>
resVars == <<reserved, reservedIds, held, heldCount>>
cmdVars == <<pending, cmdSeq>>
netVars == <<toAgent, toOrch, current, connects>>
agentVars == <<rooms, origins, status, waiting>>
vars == <<links, pollVars, readVars, resVars, cmdVars, resuming, netVars,
          agentVars, orphaned>>

\* Only the equality of two reqIds matters, so a reqId nobody carries any more
\* is used again (the code counts up).
ReqId == 1..3

PollMsg == [type : {"poll"}, req : ReqId, known : Snapshot \cup {Unknown},
            echo : Status]
CmdMsg == [type : {"cmd"}, cmd : Cmd]
StateMsg == [type : {"state"}, req : ReqId, full : BOOLEAN, snap : Snapshot]
AckMsg == [type : {"ack"}, id : 1..MaxCmds, ok : BOOLEAN]

TypeOK ==
    /\ links \subseteq Instance
    /\ outstanding \in [Instance -> ReqId \cup {0}]
    /\ missed \in [Instance -> 0..2]
    /\ records \in [Instance -> Snapshot \cup {Unknown}]
    /\ stale \subseteq Instance
    /\ override \in [Instance -> Status \cup {Unknown}]
    /\ reserved \in [Instance -> Nat]
    /\ reservedIds \subseteq RoomId
    /\ held \in [RoomId -> Instance \cup {Unknown}]
    /\ heldCount \in [Instance -> Nat]
    /\ pending \subseteq Cmd
    /\ cmdSeq \in 0..MaxCmds
    /\ resuming \in Seq(Instance \X Status)
    /\ toAgent \in [Instance -> Seq(PollMsg \cup CmdMsg)]
    /\ toOrch \in [Instance -> Seq(StateMsg \cup AckMsg)]
    /\ current \in [Process -> 0..MaxConnects]
    /\ connects \in [Process -> 0..MaxConnects]
    /\ rooms \in [Process -> SUBSET RoomId]
    /\ origins \in [Process -> SUBSET RoomId]
    /\ status \in [Process -> Status]
    /\ waiting \in [Process -> SUBSET Status]
    /\ orphaned \subseteq RoomId

Init ==
    /\ links = {}
    /\ outstanding = [i \in Instance |-> 0]
    /\ missed = [i \in Instance |-> 0]
    /\ records = [i \in Instance |-> Unknown]
    /\ stale = {}
    /\ override = [i \in Instance |-> Unknown]
    /\ reserved = [i \in Instance |-> 0]
    /\ reservedIds = {}
    /\ held = [r \in RoomId |-> Unknown]
    /\ heldCount = [i \in Instance |-> 0]
    /\ pending = {}
    /\ cmdSeq = 0
    /\ resuming = <<>>
    /\ toAgent = [i \in Instance |-> <<>>]
    /\ toOrch = [i \in Instance |-> <<>>]
    /\ current = [p \in Process |-> 0]
    /\ connects = [p \in Process |-> 0]
    /\ rooms = [p \in Process |-> {}]
    /\ origins = [p \in Process |-> {}]
    /\ status = [p \in Process |-> "active"]
    /\ waiting = [p \in Process |-> {}]
    /\ orphaned = {}

-----------------------------------------------------------------------------
(* FleetState: the read model, reservations and holds.                     *)

\* The pending creates of a set of commands, and the ids they reserve.
Creates(C) == {c \in C : c.op = "create"}
IdsOf(C) == {c.room : c \in Creates(C)}

\* Mutant: releaseRoomId forgotten.
Release_keepsId(C) ==
    /\ reserved' = [i \in Instance |->
                       reserved[i] - Cardinality({c \in Creates(C) : c.inst = i})]
    /\ UNCHANGED reservedIds

\* release and releaseRoomId for every create of C.
Release(C) ==
    /\ reserved' = [i \in Instance |->
                       reserved[i] - Cardinality({c \in Creates(C) : c.inst = i})]
    /\ reservedIds' = reservedIds \ IdsOf(C)

\* Mutant: a settled create is released, not held.
Hold_releases(c) ==
    /\ Release({c})
    /\ UNCHANGED <<held, heldCount>>

\* holdUntilVisible, for the create c: its reservations become a hold.
Hold(c) ==
    /\ Release({c})
    /\ IF held[c.room] = Unknown
       THEN /\ held' = [held EXCEPT ![c.room] = c.inst]
            /\ heldCount' = [heldCount EXCEPT ![c.inst] = @ + 1]
       ELSE UNCHANGED <<held, heldCount>>

Known(i) == records[i] # Unknown

HeldBy(i) == {r \in RoomId : held[r] = i}

\* clearPendingVisibility: every hold of i ends.
ClearHolds(i) ==
    /\ held' = [r \in RoomId |-> IF held[r] = i THEN Unknown ELSE held[r]]
    /\ heldCount' = [heldCount EXCEPT ![i] = 0]

\* Mutant: an override is dropped only with its instance.
ReconciledOverride_kept(i, s) == override

\* reconcilePendingStatus, s being the status now recorded.
ReconciledOverride(i, s) ==
    [override EXCEPT ![i] = IF @ = s THEN Unknown ELSE @]

\* Mutant: an id is free once its create is settled.
IsRoomIdTaken_notHeld(r) ==
    \/ r \in reservedIds
    \/ \E i \in Instance : Known(i) /\ r \in records[i].rooms

\* A public id is taken when it is reserved, held, or resolves to a room.  (A
\* reported id always does: of the rooms that share it, one keeps it.)
IsRoomIdTaken(r) ==
    \/ r \in reservedIds
    \/ held[r] # Unknown
    \/ \E i \in Instance : Known(i) /\ r \in records[i].rooms

\* generateFreeRoomId draws from these, and reserveRoomId refuses the others.
FreeRoomIds == {r \in RoomId : ~IsRoomIdTaken(r)}

\* Mutant: placement goes by the snapshot alone.
EffectiveStatus_recorded(i) == records[i].status

\* effectiveStatus: the override if there is one, else what is recorded.
EffectiveStatus(i) ==
    IF override[i] # Unknown THEN override[i] ELSE records[i].status

\* hasHeadroom: rooms in the snapshot, reserved and held slots count.
HasHeadroom(i) ==
    Cardinality(records[i].rooms) + reserved[i] + heldCount[i] < MaxRooms

\* place: the instances a strategy chooses from.
Candidates ==
    {i \in Instance : /\ Known(i)
                      /\ EffectiveStatus(i) = "active"
                      /\ i \notin stale
                      /\ HasHeadroom(i)}

\* place, pinned: with `force` neither capacity, status nor staleness count.
Pinnable == {i \in Instance : Pins /\ Known(i)}

-----------------------------------------------------------------------------
(* CommandEngine and the teardown of an instance.                          *)

\* Events other than frames wait until resumed callers have run.
Quiet == resuming = <<>>

\* The pending commands of an instance.
PendingOf(i) == {c \in pending : c.inst = i}

\* CommandEngine.settle: a command settles once, whatever settles it.
Settle(c) == pending' = pending \ {c}

\* holdOrRelease: commands other than creates have reserved nothing.
HoldOrRelease(c) == IF c.op = "create" THEN Hold(c) ELSE UNCHANGED resVars

\* rejectAll: nothing that was reserved for an instance that is gone is held.
RejectAll(i) ==
    /\ pending' = pending \ PendingOf(i)
    /\ Release(PendingOf(i))

\* Poller.reply and Poller.forget: no poll is outstanding and none is missed.
NoPoll(i) ==
    /\ outstanding' = [outstanding EXCEPT ![i] = 0]
    /\ missed' = [missed EXCEPT ![i] = 0]

\* teardownInstance: drop the link, reject the commands, forget the read model.
Teardown(i) ==
    /\ links' = links \ {i}
    /\ NoPoll(i)
    /\ RejectAll(i)
    /\ IF Known(i)
       THEN /\ records' = [records EXCEPT ![i] = Unknown]
            /\ stale' = stale \ {i}
            /\ override' = [override EXCEPT ![i] = Unknown]
            /\ ClearHolds(i)
            /\ orphaned' = orphaned \cup IdsOf(PendingOf(i)) \cup HeldBy(i)
                                    \cup records[i].rooms
       ELSE /\ orphaned' = orphaned \cup IdsOf(PendingOf(i))
            /\ UNCHANGED <<readVars, held, heldCount>>
    /\ toOrch' = [toOrch EXCEPT ![i] = <<>>]
    /\ UNCHANGED cmdSeq

\* Orchestrator.kick: the agent hears of the close later (AgentLoses).
Kick(i) == Teardown(i) /\ UNCHANGED resuming

\* CommandEngine.send: c is pending and on its way.
Sent(c) ==
    /\ Cardinality(PendingOf(c.inst)) < MaxInFlight
    /\ pending' = pending \cup {c}
    /\ toAgent' = [toAgent EXCEPT ![c.inst] = Append(@, [type |-> "cmd",
                                                         cmd |-> c])]

\* CommandEngine.send when the instance is busy or encoding the frame throws.
NotSent == UNCHANGED <<pending, toAgent>>

Reserve(c) ==
    /\ reserved' = [reserved EXCEPT ![c.inst] = @ + 1]
    /\ reservedIds' = reservedIds \cup {c.room}

\* FleetControl.createRoom: reserve the id, place, send; what is reserved is
\* released if the command is not sent.
CreateRoom(r) ==
    /\ Quiet
    /\ "create" \in Ops
    /\ cmdSeq < MaxCmds
    /\ r \in FreeRoomIds
    /\ \E i \in Candidates \cup Pinnable :
          LET c == [id |-> cmdSeq + 1, inst |-> i, op |-> "create", room |-> r]
          IN  \/ Sent(c) /\ Reserve(c)
              \/ NotSent /\ UNCHANGED <<reserved, reservedIds>>
    /\ cmdSeq' = cmdSeq + 1
    /\ UNCHANGED <<links, pollVars, readVars, held, heldCount, resuming,
                   toOrch, current, connects, agentVars, orphaned>>

\* FleetControl.destroyRoom, for a room some snapshot shows, and
\* sendStatusCommand, for a known instance.
SendCommand(i, op, r) ==
    /\ Quiet
    /\ cmdSeq < MaxCmds
    /\ Known(i)
    /\ \/ op = "destroy" /\ r \in records[i].rooms
       \/ op \in {"drain", "undrain"} /\ r = NoRoom
    /\ Sent([id |-> cmdSeq + 1, inst |-> i, op |-> op, room |-> r])
    /\ cmdSeq' = cmdSeq + 1
    /\ UNCHANGED <<links, pollVars, readVars, resVars, resuming, toOrch,
                   current, connects, agentVars, orphaned>>

\* The timer of a pending command fires: a create keeps its id and its slot.
CommandTimeout(c) ==
    /\ Quiet
    /\ Timeouts
    /\ c \in pending
    /\ Settle(c)
    /\ HoldOrRelease(c)
    /\ orphaned' = orphaned \cup IdsOf({c})
    /\ UNCHANGED <<links, pollVars, readVars, cmdSeq, resuming, netVars,
                   agentVars>>

-----------------------------------------------------------------------------
(* Poller.                                                                 *)

\* lastHashOf, the hash being the snapshot itself.
LastHashOf(i) == records[i]

\* Mutant: the poll echoes what placement goes by.
PollFor_effective(i, req) ==
    [type  |-> "poll", req |-> req, known |-> LastHashOf(i),
     echo |-> IF Known(i) THEN EffectiveStatus(i) ELSE "active"]

\* Orchestrator.sendPoll: the status recorded is echoed.
PollFor(i, req) ==
    [type  |-> "poll", req |-> req, known |-> LastHashOf(i),
     echo |-> IF Known(i) THEN records[i].status ELSE "active"]

\* A fresh reqId: one that no poll or reply in flight carries.
InFlight(i) ==
    {m.req : m \in {f \in Range(toAgent[i]) \cup Range(toOrch[i]) :
                       f.type \in {"poll", "state"}}}
NextReq(i) == CHOOSE n \in ReqId : /\ n \notin InFlight(i)
                                   /\ \A m \in ReqId \ InFlight(i) : n <= m

\* Poller.poll
Poll(i) ==
    /\ outstanding' = [outstanding EXCEPT ![i] = NextReq(i)]
    /\ toAgent' = [toAgent EXCEPT ![i] = Append(@, PollFor(i, NextReq(i)))]

\* Poller.start: a fresh entry and its first poll.
PollerStart(i) == Poll(i) /\ missed' = [missed EXCEPT ![i] = 0]

\* Poller.tick when the last poll was answered.
TickPolls(i) ==
    /\ Quiet
    /\ i \in links
    /\ outstanding[i] = 0
    /\ Poll(i)
    /\ UNCHANGED <<links, missed, readVars, resVars, cmdVars, resuming, toOrch,
                   current, connects, agentVars, orphaned>>

\* Poller.tick when it was not: stale at the second miss, evicted at the third.
TickMisses(i) ==
    /\ Quiet
    /\ Wedges
    /\ i \in links
    /\ outstanding[i] # 0
    /\ IF missed[i] = 2
       THEN Teardown(i)
       ELSE /\ missed' = [missed EXCEPT ![i] = @ + 1]
            /\ stale' = IF missed[i] = 1 THEN stale \cup {i} ELSE stale
            /\ UNCHANGED <<links, outstanding, records, override,
                           resVars, cmdVars, toOrch, orphaned>>
    /\ UNCHANGED <<resuming, toAgent, current, connects, agentVars>>

-----------------------------------------------------------------------------
(* Frames from an agent.                                                   *)

\* Orchestrator.handleState: a reply to the outstanding poll is applied
\* (applySnapshot if full, touch if not), any other gets the agent kicked.
HandleState(i) ==
    LET m == Head(toOrch[i])
        s == IF m.full THEN m.snap ELSE records[i]
    IN
    /\ toOrch[i] # <<>>
    /\ m.type = "state"
    /\ IF m.req = outstanding[i]
       THEN /\ NoPoll(i)
            /\ stale' = stale \ {i}
            /\ records' = [records EXCEPT ![i] = s]
            /\ ClearHolds(i)
            /\ override' = ReconciledOverride(i, s.status)
            /\ toOrch' = [toOrch EXCEPT ![i] = Tail(@)]
            /\ UNCHANGED <<links, reserved, reservedIds, cmdVars,
                           resuming, orphaned>>
       ELSE Kick(i)
    /\ UNCHANGED <<toAgent, current, connects, agentVars>>

\* CommandEngine.ack: what the agent did is held until a snapshot shows it,
\* what it refused is released; the caller of a status command resumes.
Acked(c, ok) ==
    /\ Settle(c)
    /\ IF ok THEN HoldOrRelease(c) ELSE Release({c}) /\ UNCHANGED <<held, heldCount>>
    /\ resuming' = IF ok /\ c.op \in DOMAIN StatusOf
                   THEN Append(resuming, <<c.inst, StatusOf[c.op]>>)
                   ELSE resuming

\* Orchestrator.handleAck: an ack that answers no command gets its agent kicked.
HandleAck(i) ==
    LET m == Head(toOrch[i])
        C == {c \in PendingOf(i) : c.id = m.id}
    IN
    /\ toOrch[i] # <<>>
    /\ m.type = "ack"
    /\ IF C = {}
       THEN Kick(i)
       ELSE \E c \in C :
            /\ Acked(c, m.ok)
            /\ toOrch' = [toOrch EXCEPT ![i] = Tail(@)]
            /\ UNCHANGED <<links, pollVars, readVars, cmdSeq, orphaned>>
    /\ UNCHANGED <<toAgent, current, connects, agentVars>>

\* FleetControl.sendStatusCommand after its await: setPendingStatus.
ResumeStatus ==
    /\ ~Quiet
    /\ resuming' = Tail(resuming)
    /\ LET i == Head(resuming)[1] IN
          override' = IF Known(i)
                      THEN [override EXCEPT ![i] = Head(resuming)[2]]
                      ELSE override
    /\ UNCHANGED <<links, pollVars, records, stale, resVars, cmdVars, netVars,
                   agentVars, orphaned>>

-----------------------------------------------------------------------------
(* Connections.                                                            *)

Conn(p) == <<p, current[p]>>

\* The reconnections so far.
Reconnects == Cardinality({i \in Instance : 1 < i[2] /\ i[2] <= connects[i[1]]})

\* An agent connects: Orchestrator.handleAgentJoin and Poller.start.
Connect(p) ==
    LET i == <<p, connects[p] + 1>> IN
    /\ Quiet
    /\ current[p] = 0
    /\ connects[p] < MaxConnects
    /\ connects[p] # 0 => Reconnects < MaxReconnects
    /\ connects' = [connects EXCEPT ![p] = @ + 1]
    /\ current' = [current EXCEPT ![p] = connects[p] + 1]
    /\ links' = links \cup {i}
    /\ PollerStart(i)
    /\ UNCHANGED <<readVars, resVars, cmdVars, resuming, toOrch, agentVars,
                   orphaned>>

\* FleetAgent.onTransportClose: the agent's end of its connection closes.
AgentLoses(p) ==
    /\ current[p] # 0
    /\ current' = [current EXCEPT ![p] = 0]
    /\ toAgent' = [toAgent EXCEPT ![Conn(p)] = <<>>]
    /\ waiting' = [waiting EXCEPT ![p] = {}]
    /\ UNCHANGED <<links, pollVars, readVars, resVars, cmdVars, resuming,
                   toOrch, connects, rooms, origins, status, orphaned>>

\* Orchestrator.handleAgentLeave: the orchestrator's end closes.
OrchestratorLoses(i) ==
    /\ Quiet
    /\ i \in links
    /\ Teardown(i)
    /\ UNCHANGED <<resuming, toAgent, current, connects, agentVars>>

-----------------------------------------------------------------------------
(* FleetAgent.                                                             *)

\* Frames for an instance without a link are ignored when they arrive.
Reply(i, m) ==
    toOrch' = IF i \in links THEN [toOrch EXCEPT ![i] = Append(@, m)] ELSE toOrch

Arrives(i, type) == toAgent[i] # <<>> /\ Head(toAgent[i]).type = type

\* onPoll: confirm drain() or undrain(), answer with a snapshot.
AgentPoll(p) ==
    LET i == Conn(p)
        m == Head(toAgent[i])
        s == [rooms |-> rooms[p], fleet |-> origins[p], status |-> status[p]]
    IN
    /\ current[p] # 0
    /\ Arrives(i, "poll")
    /\ waiting' = [waiting EXCEPT ![p] = @ \ {m.echo}]
    /\ Reply(i, [type |-> "state", req |-> m.req, full |-> m.known # s,
                 snap |-> s])
    /\ toAgent' = [toAgent EXCEPT ![i] = Tail(@)]
    /\ UNCHANGED <<links, pollVars, readVars, resVars, cmdVars, resuming,
                   current, connects, rooms, origins, status, orphaned>>

\* execCreate: refused when full or taken, else RoomManager.create, which may
\* throw.
ExecCreate(p, r) ==
    \/ /\ Cardinality(rooms[p]) < MaxRooms
       /\ r \notin rooms[p]
       /\ rooms' = [rooms EXCEPT ![p] = @ \cup {r}]
       /\ origins' = [origins EXCEPT ![p] = @ \cup {r}]
    \/ UNCHANGED <<rooms, origins>>

ExecDestroy(p, r) ==
    /\ rooms' = [rooms EXCEPT ![p] = @ \ {r}]
    /\ origins' = [origins EXCEPT ![p] = @ \ {r}]

\* onCmd: execute the command and acknowledge it.
AgentCmd(p) ==
    LET i == Conn(p)
        c == Head(toAgent[i]).cmd
    IN
    /\ current[p] # 0
    /\ Arrives(i, "cmd")
    /\ \/ c.op = "create" /\ ExecCreate(p, c.room) /\ UNCHANGED status
       \/ c.op = "destroy" /\ ExecDestroy(p, c.room) /\ UNCHANGED status
       \/ /\ c.op \in DOMAIN StatusOf
          /\ status' = [status EXCEPT ![p] = StatusOf[c.op]]
          /\ UNCHANGED <<rooms, origins>>
    /\ Reply(i, [type |-> "ack", id |-> c.id,
                 ok |-> c.op = "create" => rooms' # rooms])
    /\ toAgent' = [toAgent EXCEPT ![i] = Tail(@)]
    /\ UNCHANGED <<links, pollVars, readVars, resVars, cmdVars, resuming,
                   current, connects, waiting, orphaned>>

\* The application creates a room of its own.
LocalCreate(p, r) ==
    /\ "create" \in Local
    /\ r \notin rooms[p]
    /\ rooms' = [rooms EXCEPT ![p] = @ \cup {r}]
    /\ UNCHANGED <<links, pollVars, readVars, resVars, cmdVars, resuming,
                   netVars, origins, status, waiting, orphaned>>

\* The application destroys a room; onRoomDestroy drops its provenance.
LocalDestroy(p, r) ==
    /\ "destroy" \in Local
    /\ r \in rooms[p]
    /\ ExecDestroy(p, r)
    /\ UNCHANGED <<links, pollVars, readVars, resVars, cmdVars, resuming,
                   netVars, status, waiting, orphaned>>

\* drain() and undrain() of the agent: requestStatus.
LocalStatus(p, s) ==
    /\ "status" \in Local
    /\ current[p] # 0
    /\ status' = [status EXCEPT ![p] = s]
    /\ waiting' = [waiting EXCEPT ![p] = @ \cup {s}]
    /\ UNCHANGED <<links, pollVars, readVars, resVars, cmdVars, resuming,
                   netVars, rooms, origins, orphaned>>

Frame(i) == HandleState(i) \/ HandleAck(i)

Tick(i) == TickPolls(i) \/ TickMisses(i)
AgentFrame(p) == AgentPoll(p) \/ AgentCmd(p)

Next ==
    \/ \E r \in RoomId : CreateRoom(r)
    \/ \E i \in Instance, op \in Ops, r \in RoomId \cup {NoRoom} :
          SendCommand(i, op, r)
    \/ \E c \in pending : CommandTimeout(c)
    \/ \E i \in Instance : Frame(i) \/ Tick(i) \/ OrchestratorLoses(i)
    \/ ResumeStatus
    \/ \E p \in Process : Connect(p) \/ AgentLoses(p) \/ AgentFrame(p)
    \/ \E p \in Process, r \in RoomId : LocalCreate(p, r) \/ LocalDestroy(p, r)
    \/ \E p \in Process, s \in Status : LocalStatus(p, s)

Spec == Init /\ [][Next]_vars

\* The poller's timers fire, frames that reached the orchestrator are handled,
\* the microtask queue is drained, and a connection that its agent has lost
\* closes at the orchestrator.  Nothing is assumed of agents, which may be
\* wedged, and nothing of command timers.
Fairness ==
    /\ \A i \in Instance : /\ WF_vars(Tick(i))
                          /\ WF_vars(Frame(i))
                          /\ WF_vars(i[2] # current[i[1]] /\ OrchestratorLoses(i))
    /\ WF_vars(ResumeStatus)

FairSpec == Spec /\ Fairness

-----------------------------------------------------------------------------
(* Safety.                                                                 *)

\* The connection of p is open at both ends and a snapshot of p is recorded.
Reporting(p) == current[p] # 0 /\ Conn(p) \in links /\ Known(Conn(p))

Queued(i) == {toAgent[i][n].cmd :
                 n \in {k \in 1..Len(toAgent[i]) : toAgent[i][k].type = "cmd"}}

\* The counters of FleetState say what they count: a slot is reserved for each
\* pending create and for nothing else, an id is reserved for each, the holds
\* are counted, and nothing is left of a removed instance.  Every way a
\* command settles (ack, refusal, timeout, send failure, disconnect) releases
\* or converts exactly what it took.
ReservationsBalance ==
    /\ \A i \in Instance :
          /\ reserved[i] = Cardinality(Creates(PendingOf(i)))
          /\ heldCount[i] = Cardinality(HeldBy(i))
          /\ i \notin links => /\ PendingOf(i) = {} /\ HeldBy(i) = {}
                              /\ records[i] = Unknown /\ override[i] = Unknown
    /\ reservedIds = IdsOf(pending)
    /\ Cardinality(reservedIds) = Cardinality(Creates(pending))

\* Every fleet room that exists or is about to exist at a reporting agent is
\* in its last snapshot, reserved or held, so nobody can take its id: not even
\* between the ack and the next poll.
EveryRoomAccounted ==
    \A p \in Process :
        Reporting(p) =>
            \A r \in origins[p] \cup IdsOf(Queued(Conn(p))) :
                \/ r \in records[Conn(p)].rooms
                \/ r \in IdsOf(PendingOf(Conn(p)))
                \/ held[r] = Conn(p)
                \/ r \in orphaned

\* No room id is created on two instances, unless a create of it was settled
\* without an answer or its instance was disconnected.
OneHome ==
    \A p, q \in Process : \A r \in origins[p] \cap origins[q] :
        p = q \/ r \in orphaned

\* The same without the exception: of two agents that stay connected, at most
\* one gets the room, also if a client asks again after a timeout.
\* FleetState.ts:584-587 says that holding the id until it is visible closes
\* this window.  The hold ends with ANY poll reply, also one that the agent
\* wrote before it saw the command.
OneHomeWhileConnected ==
    \A p, q \in Process : \A r \in origins[p] \cap origins[q] :
        Reporting(p) /\ Reporting(q) => p = q

\* A create that was placed by a strategy finds a free slot when it reaches
\* the agent: reservations and holds keep the orchestrator from promising a
\* slot twice.
PlacementsFit ==
    \A p \in Process :
        LET mine == origins[p] \cup IdsOf(Queued(Conn(p))) IN
        Reporting(p) /\ mine \cap orphaned = {} =>
            Cardinality(mine) <= MaxRooms

\* What the orchestrator promises it can keep (FleetState.place, holdUntilVisible).
PlacementsSound == OneHome /\ PlacementsFit

\* Once the status commands of an instance are settled, placement goes by the
\* status its agent really has, although no snapshot has carried it yet.
StatusCommandsSettled(i) ==
    /\ Quiet
    /\ \A c \in PendingOf(i) \cup Queued(i) : c.op \notin DOMAIN StatusOf
    /\ \A n \in 1..Len(toOrch[i]) : toOrch[i][n].type = "state"

PlacementSeesStatus ==
    \A p \in Process :
        Reporting(p) /\ StatusCommandsSettled(Conn(p)) =>
            EffectiveStatus(Conn(p)) = status[p]

-----------------------------------------------------------------------------
(* Action properties.                                                      *)

\* drain() of the agent resolves only once the orchestrator has recorded the
\* drained status.
DrainConfirmed ==
    [][\A p \in Process :
          /\ "draining" \in waiting[p] \ waiting'[p]
          /\ Conn(p) \in links
          /\ current'[p] = current[p]
          => Known(Conn(p)) /\ records[Conn(p)].status = "draining"]_vars

-----------------------------------------------------------------------------
(* Liveness.                                                               *)

\* Every command is answered, be it with the news that the instance is gone:
\* no caller waits for ever, even if its timer never fired.
CommandsSettle ==
    \A k \in 1..MaxCmds : []<>(\A c \in pending : c.id # k)

\* A placement override does not outlive its purpose: the snapshots that
\* follow the ack end it (FleetState.ts:189-191, 641-644).  This is so as long
\* as applications do not call drain() or undrain() on the agent themselves.
OverrideEnds ==
    \A i \in Instance : []<>(override[i] = Unknown)

\* Nothing that a command sets up stays for ever.
ControlSettles == CommandsSettle /\ OverrideEnds

=============================================================================
