# Rivalis in TLA+

This directory specifies the Rivalis packages (`core/`, `node/`, `browser/`,
`signal/`, `handshake/`, `fleet/`) in TLA+: modules that model the code, TLC
configurations that check them on small instances, and theorems that the TLAPS
proof system checks for all values of the constants. `PROJECT.json` lists every
component, run, mutant, hazard and theorem, and maps each definition to the
lines it is translated from.

## 1. The system

Rivalis is a framework for real-time servers. A *transport* accepts
connections; the *transport layer* authenticates each one, gives it an actor
id and joins it to a *room*; rooms are classes written by the application.
Around that core there are WebRTC transports with a signalling server, client
libraries that reconnect, and a control plane (*fleet*) by which an
orchestrator places rooms on many server processes.

| Component | State it keeps | Operations | Talks to |
|---|---|---|---|
| `core/TLayer` | `roomIds` (actor -> room), emitter listeners, `pendingEmits` | grantAccess, handleMessage, handleClose, emit/on/once, send, kick | rooms (calls), transports (emitter), AuthMiddleware, RateLimiter (awaited) |
| `core/Room`, `Actor` | `actors`, bindings, `emptyDestroyScheduled` | handleJoin/Leave/Message/Destroy, broadcast, send, kick, destroy | TLayer, RoomManager, application hooks |
| `core/RoomManager` | `rooms`, `definitions` | define, create, destroy | rooms |
| `core/Rivalis` | transports, counters | constructor, shutdown | everything above |
| `core/TokenBucketRateLimiter` | buckets in LRU order | check, release, sweepIdle, evictOverCap | called by TLayer |
| `node/WSTransport` | sockets, missed pings | handleConnect, socket listeners, heartbeat, dispose | TLayer, `ws` |
| `node/RTCTransport` | channels, peerToActor, unreliable channels, closedActors | offers, channels, tickets, kick, dispose | TLayer, signalling |
| `node,browser/RTCClient` | negotiation, channel, attempts, timer, pendingCloseCode | connect, disconnect, ticket, reconnect | signalling, peer connection |
| `node,browser/WSClient` | socket, attempt counter, timers | connect, disconnect, send, reconnect | WebSocket, ticket source |
| `node,browser/peer` | peer connections under negotiation and their timers, partial frames | offer, answer, time out, chunk, reassemble | peer connection, signalling |
| `signal/SignalRoom` | host, members, host state | join, leave, relay, host state | core room |
| `fleet/FleetState` | instances, reservations, held ids, placement overrides, stale marks | applySnapshot, touch, place, reserve, release, hold, resolve | orchestrator parts |
| `fleet/CommandEngine`, `FleetControl` | pending commands | send, ack, timeout, rejectAll; create, destroy, drain | FleetState, agents |
| `fleet/Poller` | outstanding poll and missed replies per instance | start, tick, reply, forget | Orchestrator |
| `fleet/Orchestrator`, `FleetRoom` | links | join, leave, message, kick, evict | all of the above |
| `fleet/EventReconciler` | last view | reconcile, instanceRemoved | event stream |
| `fleet/FleetAgent`, `Snapshot` | status, seq, connection, timers | connect, poll reply, command execution, drain, shutdown | Rivalis, orchestrator |
| `fleet/routers` | response cache validators, streams, throttle buckets | authenticate, list, create, stream | FleetState, FleetControl, EventReconciler |
| `fleet/cli`, `env`, `Config` | the process and its configuration | start, signal, shut down | Orchestrator, HTTP server |
| `handshake`, `signal/wire`, `fleet/wire` | none | codecs | everyone |

What is hard about it:

* **Interleavings at awaits.** Everything runs on Node's event loop, so code
  between two awaits is atomic, but a handshake has up to two awaits and a
  frame one. Sockets close, rooms go, other connections take the same id
  meanwhile.
* **Two maps and a bus that must agree.** `roomIds` in TLayer, `actors` in each
  room, and listeners on an emitter, with a buffer for what is emitted before
  somebody listens.
* **Deferred work.** `destroyOnEmpty` tears a room down in a microtask.
* **Distributed state** (fleet): the orchestrator decides on snapshots that are
  up to a heartbeat old, and its commands may be executed without it hearing so.
* **Events of things that are gone.** Clients replace their socket or peer
  connection, and the handlers of the old one act on the fields of the new one.
* **Names derived from a changing set** (fleet): which room keeps an id is
  decided anew on every snapshot, memoised, and announced as differences.

What makes each component correct (the properties the plan below aims at):
membership is consistent and bounded, nothing outlives its socket, nobody is
dropped silently, messages arrive once and in order (core); a client has one
live socket or negotiation at most, stops when told so and otherwise comes back
(clients); everybody knows the one host, and no actor outlives its channel
(signal, WebRTC); a room id is created on one instance, reservations never leak,
an instance is never overfilled by the orchestrator's own placements, its
status converges, and what readers see is what there is (fleet).

### Modules

| Module | Models | Section |
|---|---|---|
| `TransportLayer`, `Membership`, `TransportLayerRefinement`, `TransportLayerProofs` | TLayer, Room, RoomManager, WSTransport.handleConnect, Rivalis.shutdown; their promise; proofs | 2 |
| `FleetControlPlane`, `FleetControlPlaneProofs` | FleetState, CommandEngine, FleetControl, Poller, Orchestrator, agents | 3 |
| `FleetReadModel`, `FleetHttpProofs` | FleetState.resolve and its memo, EventReconciler, under joins, evictions and restarts | 4 |
| `FleetApi`, `FleetHttpProofs` | conditional reads, filters, placement strategies and pins | 4 |
| `AgentLifecycle`, `ClientProofs` | FleetAgent and the node WSClient under it | 5 |
| `ReconnectingClient`, `ClientProofs` | the browser WSClient against the heartbeat of WSTransport | 6 |
| `RtcSession`, `RtcSessionProofs` | RTCClient, PeerNegotiator, SignalRoom, HostNegotiator, RTCTransport of the node package | 7 |
| `BrowserRtc`, `BrowserRtcProofs` | RTCClient, NegotiationCore, NativeBrowserPeer, RTCTransport of the browser package; proofs | 7 |
| `GameFrames`, `TokenBucket`, `GameFramesProofs` | frames and chunks of RTCClient and RTCTransport, ChunkReassembler; TokenBucketRateLimiter | 8 |
| `WireFormat`, `WireCodec` | the format of the binary wires, and the codecs of handshake, signal and fleet, on bytes; `GameFramesProofs` has the proofs | 9 |
| `FleetServer`, `FleetHttpProofs` | the process of an orchestrator: configuration, keys, throttle, streams, shutdown | 10 |
| `Subsequence`, `SubsequenceProofs` | a `Map` after entries were deleted, in the limiter and the throttle; lemmas about it | 8 |

The runs instantiate `MC` modules. Four of these are *sums*: `MCClients`,
`MCFrames`, `MCFleetServer` and `MCFleetReaders` each extend two modules that
share no state, and a variable `subject`, chosen at the start, says which of them
a behaviour follows while the other stays as it began. So a sum has the
behaviours of both, and nothing that either alone would not do; a property of
one is unaffected by the other, whose behaviours leave it in its first state.
Fairness is stated per subject. A third subject, `clock`, in two of the sums is a bound: only its
behaviours have the steps back of the clock (`MCFrames`), or its ticks (`MCFleetServer`).

`TypeOK` (or `AgentTypeOK`, `ServerTypeOK`, ...) documents the types of a module's
state. The one of `TransportLayer` is run and proved.

## 2. The transport layer

`TransportLayer.tla` models TLayer, Room, RoomManager, WSTransport's
handleConnect and Rivalis.shutdown as one state machine, because their
correctness lies in how they share state.

| Variables | Code |
|---|---|
| `exists`, `gen`, `actors` | `RoomManager.rooms`; identity of the room object under an id; `Room.actors` |
| `roomIds`, `listeners`, `heldMsgs`, `heldKick` | `TLayer.roomIds`, `TLayer.emitter`, `TLayer.pendingEmits` |
| `buckets` | ids the rate limiter keeps state for |
| `sock`, `phase`, `closedEarly`, `aid` | readyState; where the `handleConnect` call is; its locals |
| `awaiting`, `jobs` | continuations that wait for user promises; the microtask queue |
| `unheard`, `handled`, `expected`, `delivered`, `visited`, `emits` | history, for properties only |

**The event loop.** An action is the code between two awaits. `Settle` moves a
continuation whose promise settled to the FIFO queue `jobs`; the actions in
`RunJob` run its head. Socket events (`Connect`, `FrameArrives`,
`SocketCloses`) need an empty queue, as in Node; calls by application code
(create, destroy, broadcast, kick, shutdown) may come between any two jobs.
Resuming `handleConnect` after `grantAccess` returned takes a job of its own
(`Granted`, `Refused`), as `await` does.

**Abstractions.** Frames are numbered; topics, payloads and close reasons are
left out. A frame is acceptable or not by choice. A generated id is unique (64
random bits). User code (AuthMiddleware, ConnectionLimiter, RateLimiter, onJoin,
application calls) does anything its interface allows: `onJoin` may send to
its actor, kick it, or throw.

**`Membership.tla`** is the promise without the machinery: a connection takes
at most one seat in its life, in an open room below `MaxActors`, and loses it
only when its line is down or the room closes. `TransportLayerRefinement.tla`
reads the seat off the actor maps and `ImplementsMembership` says that each
step of the code is a step of Membership.

### Runs

| Run | Question | Bounds |
|---|---|---|
| `sessions` | handshake with both limiters, onJoin that greets, kicks or throws, frames, destruction and re-creation of the room, shutdown; safety and liveness | 2 connections, 1 room created twice, 1 frame each, 1 application broadcast, presence on |
| `reconnect` | stable actor ids, capacity, overflow of the early buffer, destroyOnEmpty; safety and the refinement of Membership | 3 connections for 2 places and 1 stable id, buffer of 1, room created twice |
| `ghost_actor` | the finding below | the smallest instance that shows it |

Two connections suffice for every pairwise race of a handshake with a close, a
kick or another handshake; the third one in `reconnect` makes capacity bite with
one place already taken. One room suffices because rooms share nothing but
`roomIds`, and an id moving between rooms shows as a re-creation. `MaxFrames`,
`MaxBroadcasts` and `MaxCreates` bound only how often things happen; `gen` = 2
lets a job meant for the first room object meet the second. Deadlock is not
checked: all connections may be over and the server shut down.

The stable ids are off in `sessions` and the frames off in `reconnect`, because
together they lose messages (the first observation below); the proofs have no
such restriction.

**Fairness.** Weak fairness of `RunJob` (Node drains the microtask queue) and,
for each socket, of its close event while it is closing (the `ws` library
destroys a socket whose peer does not finish the close handshake within 30 s).
Nothing is assumed of user promises: `ClosingLeaves`, also of what joins during
a shutdown, holds although they may never settle.

### Findings and observations

* **`ghost_actor`** (run). The close listener is registered after the await of
  `connectionLimiter.check` (WSTransport.ts:181, 206). A socket that closes in
  between is joined and stays in its room for ever; `sockets >= connections`
  (Rivalis.ts:45) breaks. `unheard` records these connections, and the
  liveness properties and `NothingLeaks` speak of the others.
* With stable ids, frames and a destroyed room together: a frame for the
  destroyed room deletes only the `roomIds` entry (TLayer.ts:334). The id is then
  free for a reconnect while the old socket still has its listeners: the new
  actor's first messages go to the old socket, and the old socket's close
  removes the new actor from its room. Switching on stable ids in
  `Sessions.cfg` shows `NoMessageLost` violated.
* Under the same settings, membership is resolved by actor id after the rate limiter's
  await (TLayer.ts:326), so a frame of a closed connection reaches the room if
  a reconnect has the same id: `NoFrameAfterClose` is violated.
* No property speaks of the order of frames from a client: checks of an asynchronous
  rate limiter may settle in any order (TLayer.ts:315), although Room.ts:138 calls a
  transport ordered when it delivers in send order. Nor of frames sent before
  admission: they come before the `message` listener and are lost (WSTransport.ts:248).

### Proofs

All theorems are for all constants that satisfy `IdsAssumption` and
`BoundsAssumption`, without the bounds of the runs. They are in `TransportLayerProofs.tla`. Of the rooms:

* `TypeCorrect`: `Spec => []TypeOK`;
* `Agreement`: `Spec => []MembershipAgrees`;
* `Capacity`: `Spec => []CapacityRespected`;
* `EmptiedRoomsGo`: `Spec => []EmptiedRoomScheduled`.

`Agreement` is inductive together with the type invariant: a join is the only step that adds an
actor, and it does so for an id that is not registered, so the id is in no
other room; every step that deletes a `roomIds` entry either takes the actor
out of its room in the same step or follows the destruction of the room.
`Capacity` needs that the actor sets are finite, which the inductive invariant
adds to it: the cardinality lemma on adding an element says
nothing otherwise. `EmptyInv` adds that only existing rooms count as visited:
a room created again starts as never visited, so an old teardown job owes it nothing.

Of the connections:

* `Clean`: `Spec => []NothingLeaks`;
* `HeardNoMore`: `Spec /\ NoReuse => NoFrameAfterClose`;
* `Refinement`: `Spec /\ NoReuse => ImplementsMembership`;
* `NothingLost`: `Spec /\ NoReuse /\ []NeverFull => []NoMessageLost`.

`NoReuse` is `StableId = {} \/ MaxFrames = 0`: ids are not used again, or clients send
nothing. Without it the last three are false (the observations above). `NeverFull`
says that no early buffer is full; a full one drops frames by design.
`Clean` needs neither. The argument has three layers, each an inductive invariant:

* `LifeInv`: a `handleConnect` call waits in one place at most, the one its phase
  names (`Handshakes`: one continuation in `awaiting` or `jobs`); a close that comes during the call
  is noted in `closedEarly`, unless no listener existed yet (`ClosesNoticed`); and so
  whatever an id leaves behind has a connection that will still clear it. The lemma `LivesStep`
  classifies the steps of the system by what they do to one connection, and the
  invariants of this layer and the next are proved along that classification.
* `IdInv`, under `NoReuse`: frames wait only for attached connections, an id that is not
  stable belongs to its own connection, two live connections never share an id
  (`Alone`), and where no frame can come, the id of a live connection is registered. So what a frame
  or an emission finds under an id is its own connection's.
* `Ears` and `Served`: an id has the listeners of its open attached connection and no
  others, and what was emitted to an actor is what was written, then what is held. An
  emission either writes or holds, never both, and the attachment flushes in order.

For the refinement, `SeatsStep` shows case by case that a step takes one seat, empties the
seats of a destroyed room, frees the seat of a closed connection, or moves none.

## 3. The fleet control plane

`FleetControlPlane.tla` models one orchestrator (FleetState, CommandEngine,
FleetControl, Poller, the handlers of Orchestrator) and the agents it controls
(FleetAgent, Snapshot), joined by connections that deliver in order and lose
what is in flight when they close. An instance is one connection of a process:
`<<p, n>>` is the n-th, and a process keeps its rooms and status across
connections.

| Variables | Code |
|---|---|
| `links`, `outstanding`, `missed` | `Orchestrator.links`; `outstandingReqId` and `missed` of a `Poller` entry |
| `records`, `stale`, `override` | `FleetState.records`, `staleInstances`, `pendingStatus` |
| `reserved`, `reservedIds`, `held`, `heldCount` | `reservedByInstance`, `reservedRoomIds`, `pendingRoomIds`, `pendingByInstance` |
| `pending`, `cmdSeq`, `resuming` | `CommandEngine.pending`, `cmdSeq`; callers of `sendStatusCommand` whose ack has come |
| `toAgent`, `toOrch`, `current`, `connects` | the WebSocket of each instance |
| `rooms`, `origins`, `status`, `waiting` | `RoomManager.rooms`, `Snapshot.fleetOrigins` and `statusValue`, `FleetAgent.pendingStatus` |
| `orphaned` | history, for properties only |

Each handler is one action: `CreateRoom` and `SendCommand` (requests to
FleetControl), `CommandTimeout`, `TickPolls` and `TickMisses` (the two branches
of `Poller.tick`), `HandleState`, `HandleAck`, `Connect`, `OrchestratorLoses`
at the orchestrator; `AgentPoll`, `AgentCmd`, `AgentLoses` and the
application's `LocalCreate`, `LocalDestroy`, `LocalStatus` at the agent.
`Teardown` is shared by the three ways an instance goes: socket close, eviction
at the third missed poll, and the kick for an unsolicited frame.
`sendStatusCommand` continues in a microtask after its ack; `ResumeStatus` is
that continuation, and frames (which a socket may deliver several of in one
read) can be handled before it, timers and requests cannot (`Quiet`).

**Abstractions.** The hash of a snapshot is the snapshot, so hashes do not
collide; the forced full reply every twelve polls repeats what is recorded.
Types, labels, connection counts and strategies only narrow or order the
candidates: placement picks any. Every room id is in the fleet's alphabet, and a
reported id is taken: which of two rooms with the same id keeps it as its public
id is the subject of `FleetReadModel`. `destroyRoom` is therefore asked of any instance that reports the id.
Agents report valid snapshots and accept creates (`autoCreate`). A
`reqId` is used again once no frame carries it. `hello`, `seq` (channels are FIFO) and
wall-clock times are left out; heartbeats and timeouts may come at any moment.

### Runs

| Run | Question | Bounds |
|---|---|---|
| `fleet_creates` | may a reservation leak, an id get two homes, a slot be promised twice, whichever way commands end | 2 processes of 1 room each, 2 room ids, 2 commands, 1 reconnection |
| `orchestrator` (subject `fleet`) | does placement follow the agents' status, and do commands and overrides end | 1 process, 3 commands out of create, drain, undrain; missed polls and timeouts |
| `fleet_local` | are rooms accounted for while an application acts on its own server; slow agents; confirmation of drain() | 1 process, 2 commands of any kind, pins |
| `double_create` | the finding below | the smallest instance that shows it |

Two processes are needed for a duplicate, and one command after another for a
retry. With `MaxRooms` = 1 a hold that is forgotten admits one room too many at
once. `MaxInFlight` = 2 stands for 32: the busy answer releases like a failed
send. Status is a matter of one instance, so
`orchestrator` and `fleet_local` have one. Deadlock is not checked: the bounds stop the system.

**Fairness** (`FairSpec`, and in `OrchestratorSpec`). The poller's timers fire, frames that reached the
orchestrator are handled, microtasks run, and the orchestrator notices a
connection its agent has lost (TCP, or the heartbeat of its transport). Nothing
is assumed of agents, and not even that command timers fire:
`ControlSettles` (commands and overrides end) holds because an agent that stops
answering is evicted at the third missed poll.

`PlacementsSound` is `OneHome` (no id has two homes) and `PlacementsFit` (no slot
is promised twice). It and `EveryRoomAccounted` leave out what `orphaned` collects: a create that
was settled by a timeout or a disconnect, which the orchestrator cannot know the
outcome of. What it can and does not do about it is the first finding.

### Findings and observations

* **`double_create`** (run). The hold that follows a timed-out create is meant to last
  until a snapshot shows the room present or absent (FleetState.ts:584-587). It
  ends with any poll reply, including one the agent wrote before it got to the
  create. With both queued at a slow agent: the create times out, the reply ends
  the hold, the retry goes to another agent, and the first agent then executes
  its create. Its late ack gets it kicked (Orchestrator.ts:388), but the room stays.
* The placement override set at the ack of a drain is dropped when a snapshot
  equals it (FleetState.ts:657). If the application undrains its server before
  the next poll, none does: an active instance is excluded from placement
  although every snapshot says it is active, and FleetState.ts:643-644 says the
  override exists only until a snapshot confirms it. `orchestrator`, where
  applications do not act, shows that nothing else keeps an override
  (the second half of `ControlSettles`).
* The stale mark of an instance that never answered outlives it
  (FleetState.ts:302 against 318), without effect; and the default echo of the first
  poll confirms an `undrain()` (Orchestrator.ts:347).

### Proofs

`FleetControlPlaneProofs.tla` proves `ReservationsAlwaysBalance`
(`Spec => []ReservationsBalance`) for all constants that satisfy the
assumptions of the module, among them `UnknownAssumption`: `Unknown` is neither an
instance nor a snapshot nor a status. `ReservationsBalance` alone is not inductive. A
counter is lowered by one when a command is settled, which is right only if
the counter was the number of such commands, if that number is finite (a
cardinality says nothing otherwise), and if the command was still counted. So `Inv` has

* `PendBooks`: pending commands are finitely many, no two creates among them name one room,
  and `reserved` and `reservedIds` are what they take;
* `HoldBooks`: the same of `held` and `heldCount`;
* `GoneBooks`: an instance the orchestrator has no record of has no command, hold or
  override, so `Teardown` misses nothing and a new connection starts from zero;
* `Wires`: frames that name a command name one of an existing instance, and a
  full state carries a snapshot, because the hold that an ack or a reply ends is found through the frame.

`Teardown` and `HandleState` settle or release many at once; the lemma
`Released` subtracts a whole set of commands from each counter, and `IdsCounted` counts
commands by the rooms they name.

The rest of the module is about what is under way between the two sides, and proves
what relates them:

* `FleetTypeCorrect`: `Spec => []TypeOK`, and `DrainAlwaysConfirmed`: `Spec => DrainConfirmed`;
* `EveryRoomAlwaysAccounted`: `Spec => []EveryRoomAccounted`, and `AlwaysOneHome`: `Spec => []OneHome`;
* `PlacementsAlwaysSound`: `Spec => []PlacementsSound`, if `Pins = FALSE`;
* `StatusAlwaysSeen`: `Spec => []PlacementSeesStatus`, if `"status" \notin Local`.

The two hypotheses are those of the runs that check the properties, and needed. A pinned create with
`force` is placed without regard to capacity, by design. An application that calls
`undrain()` on its own agent leaves an override behind that nothing corrects (the second
observation above). The invariants build on each other:

* `Polling`: a connection carries one poll or one reply at most, the one outstanding, and what a
  hash-only reply stands for is what is recorded (`OnePoll`); a connection to come carries
  nothing (`Fresh`). Types depend on this: only so is there a free `reqId`. And since the
  poll under way echoes the status recorded when it was sent, which no reply can have changed
  since, what it confirms is what is recorded: `DrainConfirmed`.
* `Once`: no two commands share an id, a command is on its way once, and its ack is not
  under way before it is executed. `HeldFree`: the id of a pending create is not held.
* `Unmade`: if the room of a pending create exists, the agent has executed that create, and
  its ack is no refusal. So no id is given to a second command while a first may still make the room.
* `Home` and `Follow`: a room that exists is booked (`Kept`) at a connection of its process, and
  at the one in use. Booked means in the snapshot, reserved or held, and that the snapshot under
  way shows it too, or comes before the answer to its create. The order of frames matters
  here: a reply written before the create was executed ends the holds, but
  not the reservation, which lasts until the ack that follows the reply.
  `OneHome` alone is not inductive: a second home is prevented when the id is given out, long before.
* `RoomsFinite`, `ReportsFinite` and `Fits`: rooms are finitely many, and those that an agent has or is to make
  are at most its capacity. A candidate has a slot left for one more, because what is due to
  it is in its snapshot, reserved or held: `CandidateHasRoom` counts the union.
* `Seen`: an ack under way *announces* a status, and so does a caller that waits to resume, an
  override and a record. Along the queue of frames the last announcement before each reply is
  the status the reply shows, and the last of all is the status the agent has. A step adds a frame at the
  end, takes one off the front, or resumes a caller; each moves the announcement along. This holds while every
  ack answers a pending command (`Answerable`): after a timeout the ack is not heeded, and
  its agent will be kicked. `OkAcks` (only creates are refused) and `Resumers` (who resumes had
  asked a known instance) complete it.

The lemmas `WireMove` and `Move` classify the steps of the system by what they do to one connection and to
the books; most invariants are proved along them.

## 4. What readers of the fleet see

`FleetReadModel.tla` follows the orchestrator's read model from the snapshots to
the subscribers of its events. Rooms of several servers may have one raw id;
`FleetState.resolve` gives the plain id to one of them (fleet before local, then
the earlier connection) and names the others after their process. The result is
memoised until the next mutation, and `EventReconciler` announces differences of
successive results.

| Variables | Code |
|---|---|
| `records`, `view` | `FleetState.records` in order of `joinSeq`; `resolvedView` |
| `joined`, `known`, `synced` | `knownInstanceIds`, `knownRooms`, the state of the last `sync` |
| `told` | what a subscriber concludes from `instance:join` and `instance:leave` |
| `links`, `wire`, `carried`, `missed` | `Orchestrator.links`, the poll under way, the rooms its reply carries, the poller's misses |
| `hosted`, `link`, `uid` | `RoomManager.rooms` with provenance, the agent's connection, the process of each connection |
| `shared` | history, for `EventsMirror` only |

`Tick`, `HandleState`, `Join`, `Leave` and `Restart` are the orchestrator's
handlers, each with its `Teardown` or `ApplySnapshot` and the `Reconcile` that ends
it; `Answer`, `Loses`, `LocalCreate`, `FleetCreate`, `LocalDestroy` and
`DestroyRoom` change the servers. The two ends of a connection end separately,
so an old connection of a process overlaps its new one, as it does when a TCP
connection breaks unnoticed. A create by the fleet is one step here, under the
guarantee that `FleetControlPlane` checks (`OneHome`).

| Run | Question | Bounds |
|---|---|---|
| `fleet_readers` (subject `model`) | is the memo ever stale, do events add up to the view, does an id lead to one process, do rooms of the fleet keep their ids, do readers end up seeing what there is | 2 processes, 1 raw id, 4 connections, 2 creations or destructions, 1 fault (a restart, or a connection that ends while its agent lives), changes and faults 2 together; eviction at the second missed poll |

One raw id is enough because ids are resolved separately. Four connections
allow two processes to overlap with themselves, or one to be replaced twice.
**Fairness**: the poll timer fires, replies that were sent are handled, a connected agent
answers, and it notices that the orchestrator closed its connection. So
`Converges` holds also for half-open connections, which only eviction ends.

What the properties leave out, and what was seen on the way:

* When the plain id passes from one room to another, no event says so:
  `known` keeps the old home. `EventsMirror` states where a room is only for
  raw ids that were never reported by two instances at once (`shared`).
* Two overlapping connections of one process that both lose an id to a third
  server share one public id, although FleetState.ts:705 calls it unique.
  `OneIdOneProcess` is therefore about processes, which is what routing needs.
  In that overlap, and while an old connection keeps the plain id, `destroyRoom` is
  routed to the older, possibly dead, connection.
* After a restart, rooms of equal rank are named by the order in which agents
  report again, so names may change; the comment of `compareForCanonical`
  (FleetState.ts:950-957) calls the tie-break reproducible across restarts.
* Two rooms of the fleet collide not only across a restart
  (FleetState.ts:712): a server that is disconnected keeps its room, and the id
  may meanwhile be given out again.
* `joinSeq` is taken at the first snapshot, not at the join.

`FleetHttpProofs.tla` proves the three safety properties for all constants:
`MirrorsAlways` (`Spec => []EventsMirror`), `IdsOfOneProcess` (`Spec => []OneIdOneProcess`) and
`FleetRoomsKeepTheirId` (`Spec => FleetKeepsId`). The only assumption beyond the bounds is
`NoViewAssumption`: a view is not the mark of a dropped memo. `ReadInv` adds to `EventsMirror`

* `Inventory` and `RecordsOf`: the types of what the model is made from, and that an instance has
  one record, at the place it joined at;
* `Unread`: before the first view nobody has joined, so what `reconcile` announces then is everything;
* `Noted`: what two records share now is in `shared`.

Every view is the spelled-out `ViewOf` the records (`ResolvedView`). A memo stays right where it is kept
because only a new connection comes between (`ConnectionGrows`). Where records change, `PutRecords`
and `RemoveRecords` say how, and `PutHomes` and `RemoveHomes` that a room has no new home unless
two instances reported it before or after; then `known`, which `reconcile` never corrects, is
right still (`ReconcileStep`). The other two theorems need only that the view is `ViewOf` the records: two
rooms under one raw id cannot both go before the other (`OneKeeper`), and the only fleet room goes
before the rest (`FleetRoomKeeps`).

### One answer

`FleetApi.tla` looks at the same records from the REST routes: what `GET` answers
to a client that keeps responses, and where `POST /v1/rooms` puts a room.

| Variables | Code |
|---|---|
| `clock` | `Date.now()` |
| `reports`, `quiet`, `acked` | `FleetState.records`, `staleInstances`, `pendingStatus` |
| `reserving`, `awaiting` | `reservedByInstance`, `pendingByInstance` |
| `memo`, `hashMemo` | `resolvedView`, `cachedStateHash` |
| `cached` | a client's response with its route and ETag |

`Replies` is a poll reply, with a snapshot or without (`ApplySnapshotOf`, `Touch`);
`GoesQuiet`, `Goes` and `StatusAcked` are a missed poll, a removal and the ack
of a drain or undrain. `PostRooms` places by strategy or pin, and
`CreateEnds` turns the reservation into a hold or frees it. `Get` is
`sendConditional`. The hash is the projection it is made from.

| Run | Question | Bounds |
|---|---|---|
| `fleet_readers` (subject `api`) | is a 304 ever wrong, a memo ever stale (`NotModifiedIsSo`); does `least-loaded` ever pick an instance that another beats (`NeverDominated`) | 2 instances, 4 snapshots (loads, limits, labels, draining and full), 5 requests, 2 filters, 4 events |

Four events are a snapshot of each instance, a change of one, and a fourth that
invalidates or forgets to. Two instances suffice for a choice.

* A hash-only reply keeps the ETag, so after a 304 a client keeps the old
  `lastSyncAt`; `NotModifiedIsSo` excepts it, since computeStateHash leaves it out by design.
* A malformed `label` of a query is dropped by `RoomsRouter.roomFilter`, and the
  query then matches all rooms.
* An `instance:leave` that the shutdown itself causes reaches no event stream: they
  are ended first.

**Proofs.** `FleetHttpProofs.tla` proves both, for any instances, snapshots, requests and
filters: `NothingStaleIsServed` (`ApiSpec => []NotModifiedIsSo`) and `LoadIsSpread`
(`ApiSpec => NeverDominated`). `SnapshotAssumption` says what the wire lets through: counts
and limits are `uint32`, a list of rooms is finite.

* `NotModifiedIsSo` relates the answer that a client has kept to the records of now, but nothing
  in it remembers what the answer was made from. `ApiInv` does: from instances that were known once
  (`Known`), each *made* from a snapshot at some time (`Made`). Two such sets with one hash differ in
  their times only (`SameHash`), instance by instance (`HashOneToOne`), so every route answers
  them alike (`SameAnswer`). For `/stats` this is a statement about sums. The community
  module's `MapThenSumSet` is a recursive function on subsets, and the lemmas
  `TotalPick`, `TotalSplit` and `TotalImage` establish what is used of it: the sum does not depend
  on the order, nor on what else its members are. A reply that has nothing new (`Touched`)
  and a missed poll change no more than what the hash leaves out, or drop the memos.
* `NeverDominated` follows from the choice itself and the arithmetic of `Fractions`: loads
  are fractions of the limits, which the model compares by cross-multiplication, and fewer
  connections under a limit no lower are a smaller part of it.

## 5. The life of an agent

`AgentLifecycle.tla` models `FleetAgent` and the node `WSClient` it owns:
`connect()` with its deadline, the reconnect loop, hello and protocol mismatch,
`drain()` and `undrain()` from the application and from commands, `disconnect()`,
the signal handlers with `gracefulShutdown`, and the listeners that keep the provenance of
rooms. The orchestrator is reduced to what it sends and to the status it records
per connection.

| Variables | Code |
|---|---|
| `lifecycle`, `stopped`, `retry`, `deadline`, `listening` | `lifecycle`; `closed` and `intentionalClose`, always set together; the timers; `listenersAttached` |
| `connectors`, `waiting` | pending promises of `connect()`; `pendingStatus` |
| `status`, `room`, `origin` | `Snapshot.statusValue`; the room and `fleetOrigins` |
| `handlers`, `shutdown` | installed signal handlers; where `gracefulShutdown` is |
| `socket`, `inbox`, `recorded`, `reply` | the socket, frames to the agent, the orchestrator's record, the reply on its way |
| `met`, `idle`, `lapsed` | history, for properties only |

The run `clients` (subject `fleet`) asks whether `connect()`, `drain()` and `undrain()` end and
a lost connection comes back (`PromisesSettle`, a liveness property). Its first conjunct is the invariant
`NobodyStranded`, which says that nobody waits for what nothing can bring about any
more: while a `connect()` is pending or the agent is connecting, a timer, an attempt or a
greeting is under way; while a status is awaited, one of these or a connection. It asks too
whether provenance is right (`ProvenanceTrue`), and whether a signal ends in
shutdown (`ShutdownEnds`). Bounds: 2 `connect()` calls (one may join the other), 2 requests for a status, 1 command, 2 failures of a connection,
one room id; two failures suffice for one before and one after a hello.
**Fairness**: the agent's reconnect timer, acceptance by the server, polls and
their handling, the frames at the agent, and the steps of the shutdown. The
connect deadline and the application need not act.

Exceptions the properties name, each a behaviour of the code:

* `idle`: `drain()` or `undrain()` of an agent that has nothing to connect to sets
  `lifecycle` (FleetAgent.ts:653); `connect()` then returns at once without connecting,
  and the promise stays pending until `disconnect()`. `NobodyStranded` and `PromisesSettle` except it for as long.
* A `drain()` that is overtaken by `undrain()`, or by a command, before its echo (or the other way
  round): every echo from then on has the other status, and `resolveStatusOnEcho`
  (FleetAgent.ts:660-673) settles only those who wait for what is echoed. The promise stays
  pending, unless the status is changed back, until the connection is lost or
  the agent stopped. `PromisesSettle` excepts it: it speaks of those who wait for the current status;
  nothing in the code cancels the older request.
* A shutdown that waits for its drain goes on waiting when somebody undrains the
  instance meanwhile (`ShutdownEnds` allows `status = "active"`).
* `lapsed`: a room destroyed while the listeners are detached keeps its
  provenance (FleetAgent.ts:405), and a later local room is reported as the fleet's.

**Proofs.** `ClientProofs.tla` proves `NobodyEverStranded`
(`AgentSpec => []NobodyStranded`) and `ProvenanceAlwaysTrue`, without the bounds of the run.
It proves that something is under way, not that this settles the promise: `PromisesSettle` is
liveness and only model-checked. `NobodyStranded` needs three more facts. Frames go with their
socket (`FramesInv`). A connection is greeted once: on an open socket whose greeting was handled
no `connect()` is pending (`GreetingAnswers`); without it a timer that fires on an open
socket, where `WSClient` refuses to connect, could leave a `connect()` with nothing. And a
stopped agent has no socket and no timer, nor has one that only claims to be connected
(`StoppedHasNothing`).
`ProvenanceTrue` needs that an id is marked only while its room is the fleet's (`MarkedIsFleets`).

## 6. The reconnecting client

`ReconnectingClient.tla` models the browser's `WSClient` and, at the other end, a
`WSTransport` with its heartbeat. The client's handlers belong to the client and
not to a socket, so an event of an old socket acts on `this.ws`: sockets have an
identity and `ws` says which one the client thinks it has.

| Variables | Code |
|---|---|
| `ws`, `line`, `attached`, `hears` | `this.ws`; readyState of every socket so far; which still have the client's handlers |
| `attempts`, `armed`, `strays`, `fetching` | `reconnectAttempts`, `reconnectTimer`, timers nobody refers to any more, pending `getTicket` calls |
| `left`, `ticket` | `userDisconnected`, `lastTicket` |
| `serving`, `code`, `missed`, `silent`, `dead` | handshake stage, close code, `missedPings`, pings under way, lines that died silently |
| `crossed`, `told` | history, for properties only |

The run `clients` (subject `game`) checks that there is one socket (`OneSocket`), that
`disconnect()` is final whatever was awaited (`LeavingIsFinal`), that the server
drops what has left or died (`ServerLetsGo`), and that an application that wants to be connected
gets a socket or is told why not (`ComesBack`). Bounds: 2 calls of
`connect()`, 3 sockets, 2 attempts, missThreshold 2: enough for a
`disconnect()` and `connect()` around a pending ticket, and for a miss that is not yet a
termination. `ComesBack` says nothing once the three sockets are used up
(`Exhausted`). **Fairness**: timers, tickets and the browser's settling of sockets
together (none of them recurs for ever), and the heartbeat. Authentication may never end,
and the client never notices a dead line by itself.

* `crossed`: `connect()` while `performReconnect` awaits its ticket (lines
  359-383) leads to two sockets; the first keeps its handlers, and its close
  clears the `this.ws` of the second. `OneSocket` and `ComesBack` except it.
* A ticket that fails after `disconnect()` still reports `reconnect_failed`.

**Proofs.** `ClientProofs.tla` proves `LeavingAlwaysFinal`
(`Spec => LeavingIsFinal`, an action property) and `AlwaysOneSocket`
(`Spec => []OneSocket`) for any number of sockets, attempts and calls. The strengthening of
`OneSocket`, `OneThing`, says why it holds: a client that has not crossed has at
most one of a socket, an armed timer and an awaited ticket, and each step that starts one
of them ends another or finds none.

## 7. WebRTC sessions

`RtcSession.tla` composes a `SignalRoom`, one `RTCTransport` with its
`HostNegotiator`, and `RTCClient`s. Every `startNegotiation` makes a
`PeerNegotiator` with a signalling socket of its own, so the negotiation has the identity:
a *peer* is one negotiation, its signalling actor and its peer connection.

| Variables | Code |
|---|---|
| `room` | `joinOrder`, `hostId` |
| `peer` | the client's end: signalling socket and what is on its way, known host, peer connection, offer, ticket, close frame |
| `client` | `negotiation`, channel, `userDisconnected`, `disconnecting`, terminal close code, attempts, timer, pending tickets |
| `serve`, `table` | the host's end; `channels`, `peerToActor`, `closedActors`, unreliable channels, `pendingUnreliableByPeer`, and the actors of the layer |
| `link`, `hosting`, `faults` | ICE; the transport's signalling socket and disposal; the bound on disturbances |

The properties of `rtc_sessions`: `BooksAgree`, that the transport's maps and the
layer agree in every order of close, state change, grant, kick and dispose
(`LedgerAgrees`) and that members agree on the host, counting what is on its way
(`RoomAgrees`); `WantedAndAlone`, that a client has one negotiation
(`OneNegotiation`) and does not come back once kicked (`KickedStaysOut`);
`HostLetsGo`, that the host gives up everything closed, negotiations that never connect
included; and `NegotiationEnds`, that every negotiation ends in a channel or a
loss, unless nobody answers. Bounds: 2 clients, 2 negotiations, 1 reconnect attempt, 1
negotiation at a time at the host, 2 disturbances (kicks, refusals, losses, departures),
one client with an unreliable channel. Two negotiations are two
clients, or one client twice, and the second meets the cap of the first.
**Fairness**: one weak fairness condition for all deliveries, ICE, promises and the negotiation
timer; the host's application, the network and the clients' applications are free.

* `closedActors` (RTCTransport.ts:623) remembers actor ids
  for ever. With stable ids the second session of a client is never closed: its
  actor stays in the room and its channel in the maps, although
  RTCTransport.ts:13 says that handleClose is called on the close of the
  channel. `rtc_sessions` therefore runs with generated ids, which only leave a set that grows
  with every session; with `StableIds = TRUE` it finds `BooksAgree` violated.
* `connect()` while a ticket is awaited leads to two negotiations (`crossed`); and late
  events of a closed connection end the next negotiation.
* A kick from the signalling room sets the `pendingCloseCode` that later keeps
  the client from coming back when its game channel breaks.
* `PeerNegotiator` has no timeout: a client whose offer was dropped at the cap,
  or that was told of a host that is no RTCTransport, waits for ever
  (`Unanswered`). RTCTransport takes any `welcome` for its own and does not
  reconnect its signalling socket, so such a host can come to be elected.
* A refused ticket closes the channel without a close frame, so the client tries again;
  `reconnectAttempts` is not reset by success; frames between ticket and grant are dropped; the
  unreliable channel of a peer whose grant is refused stays in `pendingUnreliableByPeer`.

**Proofs.** `RtcSessionProofs.tla` proves the two invariants for any number of clients,
negotiations, attempts, faults and concurrent connections.

* `NegotiationsWantedAndAlone` (`Spec => []WantedAndAlone`). Not inductive by itself:
  nothing in it says that a client whose timer is armed has no negotiation, or that
  the fields of a client are reset when its peer goes. `SessionInv` adds (`OneWait`) that a
  client has *one* of a negotiation, an armed timer and an awaited ticket, and the
  last two only if its newest negotiation was not told of a kick; that peers are numbered
  as they are started and one that is not started has done nothing (`Numbered`); and that
  `disconnecting` is set exactly when there is no negotiation. All but the numbering is given
  up for a client once it is `crossed`. Most steps leave everything alone that the
  invariant tells peers apart by (`Looks`, `SameLooks`); those that lose a connection only
  make peers calmer (`Calmer`, `LossStep`); what remains is `StartStep`.
* `ElectionsAlwaysAgree` (`Spec => []RoomAgrees`), whatever ids are used. `RoomInv` says
  that no id is twice in `joinOrder`, that its head is the host, and that what each
  member knows, or the last message on its way that is not an answer, names the host
  (`Heard`). The lemmas are about `joinOrder.filter` (`WithoutIs`: order and
  head survive), about inboxes (`AppendHeard`, `SignalHeard`) and about leaving
  (`LeaveOK`), which every loss of a socket is made of.
* `BooksAlwaysAgree` (`Spec => []BooksAgree`) assumes `~StableIds`, because without it the
  property is false, as noted above. `LedgerInv` says that an actor has the name of its peer,
  that a channel in the maps belongs to an end that was admitted and has not closed, and, what
  makes it inductive, that an end which is not admitted yet was never in `closedActors`:
  `triggerClose` does nothing for an actor that is.

**Abstractions.** Candidates, frames (section 8), delays, the host
state handed over by SignalRoom and the client's end of the unreliable channel
are left out; a `getTicket` callback is configured; late events of one connection
are one event.

### In the browser

`BrowserRtc.tla` composes the browser's `RTCClient`, both halves of its
`NegotiationCore`, and its `RTCTransport`. It follows what `RtcSession` abstracts:
the queue in which `NativeBrowserPeer` runs the asynchronous operations of a peer
connection, any of which the browser may reject, and the candidates, which can
only be added after the remote description.

| Variables | Code |
|---|---|
| `client` | the fields of `RTCClient`, as in `RtcSession` |
| `peer`, `serve` | the two ends: `opQueue`, the descriptions, candidates sent and found; signalling socket, channel, ticket; admission |
| `link`, `hosting`, `toHost` | ICE; the host's signalling socket and the signals on their way to it |
| `table` | `channels`, `closedActors`, and the actors of the layer |
| `missed`, `faults` | history: candidates that were not added; the bound on disturbances |

`browser_rtc` checks `NothingMissed` (no candidate comes before its connection or
its description, although descriptions are set asynchronously) and
`BrowserSettles` (both ends come to rest). Bounds: 1 client, 2 negotiations, 1
reconnect attempt, 2 disturbances; two negotiations are what it takes for the events of one to reach
the fields of the next. **Fairness**: operations, signals, ICE, frames and grants together,
none of which recurs for ever; applications and the network are free.

**Proofs.** `BrowserRtcProofs.tla` proves `NoCandidateMissed`: `BrowserSpec =>
[]NothingMissed`, for any clients, negotiations, attempts and disturbances. The
property alone is far from inductive: a candidate passes four queues on its way
(the `opQueue` of its sender, the signalling room, the handlers of the receiver
and the receiver's `opQueue`), and at every one it has to be behind the
description. `BrowserInv` says so queue by queue. `Behind(s, x, y)` is "every x in s has a y before
it", and the lemmas `AppendKeeps` and `TailKeeps` say when sending and hearing keep it:

* `PeerSound`: a client's end has set its offer, or it is queued; an answer is queued behind
  the offer; candidates are queued behind the answer, and those still on their way
  come after it;
* `ServeSound`: the same of the host's end, with the offer;
* `WaySound`: who has set the description that it sends has sent it, provided that the
  other side can hear it; a candidate is on its way to the host only behind the offer of the
  same peer, or when the host's end exists.

Most other steps (ICE, channels, admission, close frames) change nothing that
`BrowserInv` tells apart (`TwinsSound`); a loss, a `disconnect()` or a departed host
empties queues and ends connections (`DropSound`, `GivenUpSound`), which can only take
candidates away. The liveness property `BrowserSettles` stays with TLC.

* The browser's `HostNegotiator` has neither the cap nor the timer of the node
  package: a peer that leaves before any candidate was added leaves its
  connection at the host for ever (`BrowserHostLetsGo` excepts it), and a second
  offer of a peer replaces the entry without closing the first.
* A connection that goes down, or a host that is disposed, while `grantAccess` is awaited
  is admitted all the same and nobody closes it (`deaf`).
* The default signalling socket sends its ticket as a sub-protocol, which cannot be
  empty: `connect('')` throws after the negotiator is set, and the client stays
  unusable until `disconnect()`. Tickets are not empty in the model.

## 8. Frames over WebRTC, and the rate limiter

`GameFrames.tla` follows the frames that an admitted client and the host exchange: what
`RTCClient.send` and the `message` listener of `RTCTransport` do with a frame,
`chunkFrame` and `ChunkReassembler`, the inbound cap, the second (unreliable)
channel, backpressure, and the rate limiter that `TLayer.handleMessage` asks.
`TokenBucket.tla`, which it extends, is `TokenBucketRateLimiter`.

| Variables | Code |
|---|---|
| `seq`, `partial` | `outboundSeq` of the sender; the `ChunkReassembler` of the receiver |
| `open`, `wire`, `ordered`, `fast`, `fastOpen` | the data channel and what is under way on it; the unreliable one |
| `sent`, `got`, `due` | history: sizes of the frames, what was handed over, what has to arrive |
| `now`, `buckets`, `lastSweep` | `Date.now()`; the `Map` of buckets in order of use; `lastSweep` |
| `ideal`, `cut` | history: buckets that are never dropped, actors for which that makes a difference |

A behaviour follows one direction (`way`), because the two share no state. A
refused frame leads to a kick, and kick and close are one step here; `RtcSession`
takes them apart. The unit of time is the refill of one token.

The run `frames` (subject `channel`) checks `Transparent` (every frame handed over is one that was sent,
whole, once and in order, and on an ordered channel none is missing but for the
reasons the code has) and `AsIdeal` (sweeping, evicting and a clock that steps back are
invisible, except to an actor the cap has evicted or that had no bucket when the clock
stepped back, and even then the limiter is never stricter). Bounds: 2 frames up or 4 down over
2 sessions; sequence numbers modulo 3 for 2^16, so that 4 frames wrap around; one oversize
frame, since it uses up a number; numbers do not wrap on an unordered channel, where
2^16 frames would have to be under way together; 2 actors for 1 bucket of 2 tokens,
3 instants, 1 step backwards, and an idle period of a full refill. The clock steps back only in
behaviours without frames (subject `clock`); with both, the theorems below say what TLC does not.

**Proofs.** `GameFramesProofs.tla` proves `DroppingIsInvisible` (`Spec => []AsIdeal`) for any actors,
capacities, caps and clock steps. `LimiterInv` says that the map *follows* the buckets
that are never dropped: an actor has one entry, of the same time, with no fewer tokens, and the
same unless it is `cut`; and who has no entry and is not cut is owed a full bucket by now. The
last part is what makes a sweep harmless, and needs that `IdleEvict` covers a full refill. The steps are built
from lemmas on one map: fewer entries (`FewerFollow`), one entry touched (`Adding`), one
released. What deleting entries does to a `Map` is `Keeping` of `Subsequence.tla`, the
library's `SelectSeq` as a recursive function; `KeepingMembers` of `SubsequenceProofs.tla` says that the
entries which are to stay are left, and no others.

`ChunkingIsTransparent` (`Spec => []Transparent`) is for any numbers of frames and sessions, and more than
two sequence numbers: a frame that is dropped because it needs too many chunks has used up a number, so
the numbers of the next frames but one must differ too. The invariant `FramesInv` was checked by TLC on
the run's instance before it was proved. Its parts: the messages of the wire are frames or chunks that were
sent, each once, in order if the channel is (`WireOK`); the reassembler has some chunks of one frame, lacks
some, and those it has are no longer under way (`PartialIs`); and what is due is handed over, or all of it is
under way or in the reassembler (`DueOK`). What keeps frames apart, although numbers are used again
and again, is `Chain`: *neighbours* among the frames of which anything is left have different
numbers (`ChainTells`), because in order each has the number after the one before it (or the
number after that), and without order numbers rise. In order the first frames go first
(`ChainShrinks`), so neighbours stay neighbours. Hence a chunk continues what is in the reassembler
exactly if it is of the same frame (`OneFrame`), and everything else about a step follows from that.

* The cap on buckets is called behaviourally transparent (TokenBucketRateLimiter.ts:45-46).
  It is not for an actor whose drained bucket is evicted: it starts again with a full one.
* The timer of a partial frame is not armed anew when a chunk arrives, so a
  large frame on a slow link is given up, and its rest stays until the next timeout
  or the next large frame.
* On an unordered main channel (`channelReliability`) the node packages chunk all the same,
  although src/node/README.md:161-163 says that reassembly cannot work there.
  Large frames whose chunks interleave are lost, but never mixed.
* The `RTCClient` of the browser (src/browser/src/RTCClient.ts:311) does not
  reassemble, although RTCTransport.ts:36-39 says that clients do: chunks reach its
  application as events of `__rivalis:chunk`. The model is of the node client.

## 9. The wires

`WireFormat.tla` has the format of the wires as functions on sequences of bytes: varints, zig-zag
and fields, each a key (tag and wire type) and a number or bytes, one after the other
(varint.ts and the loops of serializer.ts). `WireCodec.tla` has what is made of it: the messages
of the serializer, nested ones too, the versioned header, the
schemas of game, close, signal and fleet frames (the position of a field is its
tag), the payload conversions of fleet (null and absent fields, empty lists, hash-only
replies), `validateSnapshot`, the truncation of a close reason to whole code points, and the
test for a chunk frame. `parcel` is one frame on its way: its kind, payload,
builds, bytes, and what was read.

A behaviour encodes a payload by one build, has it relayed by a `SignalRoom` of
another, cuts it short or replaces it by JSON, and decodes it by a third. Builds
are `old` and `new` (before and after the fields that were appended last), `peer` (the copy
of the signal schemas in the negotiation cores) and `other` (another major).

The run `frames` (subject `bytes`) checks `SameMeaning`: builds of one major agree
on what a frame says, builds of two majors and JSON are refused at the header, a whole snapshot is
stored exactly when it is valid, a kick's reason arrives as the longest beginning that
fits, and a frame cut short is refused or read as a beginning of what was sent: the fields up
to one of them, or up to an element of a list, as they were written, and defaults for the rest
(`TornNeverLies`, stated on the payload that the caller gets).
Only frames of `new` builds are cut, and of the states those with an allowed URL.
Bounds: small payloads of every kind, integers modulo 512 (two varint bytes, and negative
numbers), reasons of up to 3 code points of one to four bytes under a cap of 5, names of 1 and
lists of 1. These put every cap and every continuation bit on both sides of its boundary; the
lists of rooms are within all caps, or over one of them.

**Proofs.** `FrameIsReadBack` (in `GameFramesProofs.tla`) is what `SameMeaning` rests on, for fields
of any number, order and content: whatever the schemas of the two builds, a reader gets from the
bytes the very fields that were written, and from any beginning of the bytes an error or the first
of the fields. So a build that skips the tags it does not know loses only those, and
of a torn frame only a beginning is read. The hypothesis (`Writable`) is that keys, numbers and
lengths are less than `Word`, which is at most 2^32 (`FormatAssumption`): then a varint has at most five
bytes (`FiveBytes`), and the reader's limit of eight is out of reach. `SignedNumbersReadBack`
adds that zig-zag keeps within that bound, and `FramesTellFieldsApart` that no two messages share their bytes.

The argument: a number's bytes all have the continuation bit but the last (`VarintIsNumber`), so the
reader's first byte without it is where the writer stopped, whatever follows (`NumberReadBack`), and a
part of it never ends (`NumberTorn`). Lengths, then fields, then frames follow, the last by a least
counterexample among the sequences of fields. `Varint`, `Value`, `WriteAll` and `ReadAll` are recursive
functions; that there are such functions is proved once, for a step that uses values of smaller
arguments only (`Recursion`). For `ReadAll` this is that some byte is taken whenever a field is read
(`FieldIsTaken`): the reader always ends, on any bytes.

* "Throws a plain Error when the body is malformed/truncated" (`decodeFrame`,
  fleet/src/wire/serializer.ts:391-394; likewise `Codec.decode`, handshake/src/codec.ts:112-114) is
  not what the code does: the reader (handshake/src/wire/serializer.ts:123-148) stops where
  the bytes do, and a frame that ends between two fields, or two elements of a list, is
  read without an error. A poll without its last fields asks for a full state and echoes
  `active`; an ack without its `ok` is a refusal; a state without its last rooms can be
  valid and is then recorded, with the hash of the whole one, so that the agent goes on
  saying that nothing changed. Nothing in this code sends such a frame, and a WebSocket message arrives
  whole or not at all: it takes a fault in between. `TornNeverLies` states what the code does.
* The fleet's frames go through `@toolcase/serializer`, which writes an `int32` (`maxConnections`
  and `maxRooms`, fleet/src/wire/serializer.ts:157-158) with its sign extended, in up
  to ten bytes for a negative one, and not zig-zag. `WireCodec` and the proofs have
  the format of handshake for all frames: what is read back is the same.
* Strings are measured in bytes here; the code's `length` counts UTF-16 units.
* `validateSnapshot` does not cap `hash`, `processUid`, `agentVersion`, `status` and
  `origin`, although snapshotSchema.ts:35 says that its caps bound memory.

## 10. The process of an orchestrator

`FleetServer.tla` models what is around the control plane: how `rivalis-fleet`
makes a configuration from flags and environment (or refuses to), which keys its
port accepts for what, the throttle on failed authentication, event streams, and
the shutdown that a signal starts.

| Variables | Code |
|---|---|
| `process`, `production`, `config` | where `main()` or the shutdown is; `NODE_ENV`; `ResolvedConfig` |
| `now`, `buckets`, `lastPruneAt` | `AuthThrottle` and its clock |
| `stream`, `streams`, `subscribed` | responses of `GET /v1/events`; `ctx.streams`; their listeners and timers |
| `requests`, `ideal`, `cut` | bound; history: buckets that are never dropped, addresses the cap has dropped |

The run `orchestrator` (subject `server`) checks `KeysServeOneAudience` (over every
combination of flags and environment), `ThrottleAsIdeal` (pruning is invisible, and
the cap only ever lenient) and `SignalEnds` (a signal ends the process although
streams are opened during the shutdown and clients never leave). Bounds: 2 addresses
for 1 bucket, failures at most 2 in 3 ticks, 3 requests, 4 ticks, 2
streams of which 1 may be open; two good keys and a short one in three lists; time passes under one
configuration only (subject `clock`), under the others all requests come at once.
**Fairness**: `rivalis.shutdown()` has a time-out, so `RivalisStops`;
`fastify.close()` returns once its connections are closed, so `Exits`; and a stream that the
server has ended closes. Clients need do nothing.

* shared.ts speaks of at most `limit` failures per window. A bucket that is full
  refills meanwhile, so up to 2 * `limit` - 1 failures can fall into one window.
* `resolveConfig` keeps the admin keys when the REST API is off, although the type's comment
  calls them empty then. They reach no route (`ServesApi`).
* `/readyz` stays 200 while a shutdown waits for the transports. A second
  `listen()` while the first is under way is not guarded against.
* The clock of the throttle does not step back in the model.

**Proofs.** `FleetHttpProofs.tla` proves `KeysAlwaysServeOne`
(`ServerSpec => []KeysServeOneAudience`) for any keys, flags and environments. The invariant is
that a process that listens, or tries to, in production has a `SoundConfig`: the lists are disjoint,
and hold no weak and no generated key. It is established by `resolveCliConfig` and
`enforceSecurityPolicy` together (`StartedSound`); neither suffices alone.

`PruningNeverShows` (`ServerSpec => []ThrottleAsIdeal`) is for any addresses, limits, windows, caps and requests. Its
invariant `ThrottleInv` is that of the limiter in section 8, with one difference: an address is cut
only by the cap. For the cap one has to know that `evictIfOver`, called just after an insertion,
never drops the bucket it was called for (`Evicted`): that one is the youngest and the last, and the
scan for the oldest takes the first of equals.

## 11. Checked only by TLC, and not modelled

Proved, for all constants that meet their hypotheses, are the theorems of sections 2 to 10. Everything else
is model-checked only:

* the liveness properties (`PromisesSettle` among them), for good: the proof system reasons neither about fairness nor about
  ENABLED;
* `SameMeaning` of the codecs, as messages are nested by RECURSIVE operators. The format of the bytes below it is
  proved (section 9).

Other recursions over data are within reach, although the library's induction theorems take a
predicate as a parameter, which the provers cannot instantiate. The sums of section 4, the maps
of sections 8 and 10 and the format of section 9 are recursive functions; that such a function exists, and what it computes, is
proved by a least counterexample: a set of natural numbers that is not
empty has a least member (`LeastOne`), and the recursion leads from it to a smaller one.

Not modelled, with the reason:

* Constants, option checks and loggers of core; status codes, envelopes, CORS and the
  audit log of the fleet's routers: no state a property could be about.
* `SignalServer`, `SignalAuthMiddleware` and `IceConfig`: wiring of parts that are
  modelled, and credentials computed from their inputs. `DevStunResponder`, a test aid; its
  `listen()` calls itself idempotent, but a second call before the first has bound
  opens a second socket, and a second `shutdown()` makes `socket.close()` throw.
* Backpressure of `WSTransport`: the same comparison as in `GameFrames`; what waits
  to be sent is a matter of the network stack.
* The host state that a leaving host hands to the next one in `SignalRoom`: a value that is
  stored and sent on.
* Demos and the web site: more than a quarter of the repository's source lines; they use the packages.

Deadlock is not checked in any run, because everywhere the bounds, or the end of
all connections, stop the system.

## 12. Plan

Done: the modules of sections 2 to 10, and the proofs about the transport layer, the
fleet, the sessions over WebRTC and their frames. Of the invariants the runs check, one is stated by no theorem (section 11).
