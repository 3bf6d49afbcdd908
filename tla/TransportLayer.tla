--------------------------- MODULE TransportLayer ---------------------------
(***************************************************************************)
(* The connection-to-room core of Rivalis: the transport layer             *)
(* (core/src/TLayer.ts), the rooms and their manager (Room.ts,             *)
(* RoomManager.ts), and the WebSocket handler that drives them             *)
(* (node/src/WSTransport.ts).                                              *)
(*                                                                         *)
(* Node runs one handler at a time.  A handler stops only at an `await`,   *)
(* and its rest runs later as a microtask, so an action is the code        *)
(* between two awaits.  `awaiting` holds the continuations that wait for a *)
(* promise of user code (connection limiter, authentication, rate          *)
(* limiter); `jobs` is the microtask queue, which is first in first out    *)
(* and is drained before the next socket event.  Calls made by application *)
(* code (create, destroy, broadcast, kick) may come at any point between   *)
(* two jobs.                                                               *)
(***************************************************************************)
EXTENDS Naturals, Sequences, FiniteSets

CONSTANTS
    Conn,           \* WebSocket connections, one handleConnect call each
    Room,           \* room ids
    StableId,       \* actor ids an AuthMiddleware may request (reconnects)
    NoRoom,         \* "no entry in roomIds"
    MaxActors,      \* Room.maxActors of every room
    MaxPending,     \* TLayer.MAX_PENDING_EMITS_PER_KEY (256 in the code)
    DestroyOnEmpty, \* the rooms whose class sets destroyOnEmpty
    Presence,       \* whether the rooms broadcast presence
    ConnLimited,    \* whether a connectionLimiter is configured
    AsyncLimiter,   \* whether RateLimiter.check returns a promise that waits
    MaxFrames,      \* bound: frames a client sends
    MaxBroadcasts,  \* bound: broadcasts made by application code
    MaxCreates      \* bound: times one room id is created

ASSUME IdsAssumption ==
    /\ NoRoom \notin Room
    /\ Conn \cap StableId = {}
ASSUME BoundsAssumption ==
    /\ {MaxActors, MaxPending} \subseteq Nat \ {0}
    /\ {MaxFrames, MaxBroadcasts, MaxCreates} \subseteq Nat
    /\ DestroyOnEmpty \subseteq Room
    /\ {Presence, ConnLimited, AsyncLimiter} \subseteq BOOLEAN

\* generateId(16) is 64 random bits: the id generated for a connection is
\* modelled as that connection, so two generated ids never coincide.
ActorId == StableId \cup Conn

VARIABLES
    exists,      \* keys of RoomManager.rooms
    gen,         \* how often a room id was created (identity of the object)
    actors,      \* Room.actors: the ids in each room's actor map
    roomIds,     \* TLayer.roomIds: actor id -> room id
    listeners,   \* TLayer.emitter: connections listening for an actor id
    heldMsgs,    \* TLayer.pendingEmits under `message:<id>`
    heldKick,    \* the ids with an entry in pendingEmits under `kick:<id>`
    buckets,     \* the ids the rate limiter holds state for
    sock,        \* readyState of each socket
    phase,       \* where the handleConnect call of a connection is
    closedEarly, \* connections whose closedEarly flag is set
    unheard,     \* history: connections that closed before handleConnect had
                 \* registered its close listener
    aid,         \* the actor id grantAccess chose for a connection
    awaiting,    \* continuations waiting for a user promise
    jobs,        \* the microtask queue
    disposed,    \* Rivalis.shutdown ran
    frames,      \* number of frames each client has sent
    handled,     \* history: frames of a connection a room listener received
    emits,       \* number of messages emitted so far
    expected,    \* history: messages emitted to a connection's actor
    delivered,   \* history: messages written to a connection's socket
    visited      \* history: rooms some actor has joined since creation

roomVars == <<exists, gen, actors, visited>>
layerVars == <<roomIds, listeners, heldMsgs, heldKick, buckets>>
closeVars == <<closedEarly, unheard>>
connVars == <<sock, phase, closedEarly, unheard, aid>>
loopVars == <<awaiting, jobs>>
emitVars == <<emits, expected, delivered>>
frameVars == <<frames, handled>>
vars == <<roomVars, layerVars, connVars, loopVars, emitVars, frameVars,
          disposed>>

Kinds == {"limited", "authenticated", "granted", "refused", "checked"}
Job == (Kinds \X Conn \X Nat) \cup ({"empty"} \X Room \X Nat)

Phases == {"idle", "limiting", "authenticating", "joined", "refused",
           "attached", "over"}

TypeOK ==
    /\ exists \subseteq Room
    /\ gen \in [Room -> Nat]
    /\ actors \in [Room -> SUBSET ActorId]
    /\ roomIds \in [ActorId -> Room \cup {NoRoom}]
    /\ listeners \in [ActorId -> SUBSET Conn]
    /\ heldMsgs \in [ActorId -> Seq(Nat)]
    /\ heldKick \subseteq ActorId
    /\ buckets \subseteq ActorId
    /\ sock \in [Conn -> {"none", "open", "closing", "closed"}]
    /\ phase \in [Conn -> Phases]
    /\ closedEarly \subseteq Conn
    /\ unheard \subseteq Conn
    /\ aid \in [Conn -> ActorId]
    /\ awaiting \subseteq Job
    /\ jobs \in Seq(Job)
    /\ disposed \in BOOLEAN
    /\ frames \in [Conn -> Nat]
    /\ handled \in [Conn -> Seq(Nat)]
    /\ emits \in Nat
    /\ expected \in [Conn -> Seq(Nat)]
    /\ delivered \in [Conn -> Seq(Nat)]
    /\ visited \subseteq Room

Init ==
    /\ exists = {}
    /\ gen = [r \in Room |-> 0]
    /\ actors = [r \in Room |-> {}]
    /\ roomIds = [a \in ActorId |-> NoRoom]
    /\ listeners = [a \in ActorId |-> {}]
    /\ heldMsgs = [a \in ActorId |-> <<>>]
    /\ heldKick = {}
    /\ buckets = {}
    /\ sock = [c \in Conn |-> "none"]
    /\ phase = [c \in Conn |-> "idle"]
    /\ closedEarly = {}
    /\ unheard = {}
    /\ aid = [c \in Conn |-> c]
    /\ awaiting = {}
    /\ jobs = <<>>
    /\ disposed = FALSE
    /\ frames = [c \in Conn |-> 0]
    /\ handled = [c \in Conn |-> <<>>]
    /\ emits = 0
    /\ expected = [c \in Conn |-> <<>>]
    /\ delivered = [c \in Conn |-> <<>>]
    /\ visited = {}

-----------------------------------------------------------------------------
(* Emission: TLayer.emit and the two listeners WSTransport registers.      *)

\* The connections that listen for one of the actors in S.
Listening(S) == {c \in Conn : \E a \in S : c \in listeners[a]}

\* Mutants: each `..._mutant` is the definition after it with a plausible bug.
Closing_mutant(C) == [c \in Conn |-> IF c \in C THEN "terminated" ELSE sock[c]]

\* socket.close: only an open socket starts closing.
Closing(C) == [c \in Conn |-> IF c \in C /\ sock[c] = "open" THEN "closing"
                                                           ELSE sock[c]]

Hold_unbuffered(held, ids, S, n) == held
\* What emit does with frame n for an actor of S nobody listens for: it is
\* buffered if the actor is registered (in ids) and the buffer is not full.
Hold(held, ids, S, n) ==
    [a \in ActorId |->
        IF /\ a \in S
           /\ listeners[a] = {}
           /\ ids[a] # NoRoom
           /\ Len(held[a]) < MaxPending
        THEN Append(held[a], n)
        ELSE held[a]]

\* What the 'message' listeners write: nothing to a socket that is not OPEN.
Write(out, S, n) ==
    [c \in Conn |-> IF c \in Listening(S) /\ sock[c] = "open"
                    THEN Append(out[c], n) ELSE out[c]]

\* The connections that own an actor of S and can still be served.
Owners(S) ==
    {c \in Conn : /\ aid[c] \in S
                  /\ \/ phase[c] = "joined"
                     \/ phase[c] = "attached" /\ sock[c] = "open"}

Expect(log, C, n) ==
    [c \in Conn |-> IF c \in C THEN Append(log[c], n) ELSE log[c]]

\* room.broadcast / actor.send: message number emits + 1 to every actor of S.
Send(S) ==
    /\ emits' = emits + 1
    /\ delivered' = Write(delivered, S, emits + 1)
    /\ expected' = Expect(expected, Owners(S), emits + 1)

EmitMessage(S) ==
    Send(S) /\ heldMsgs' = Hold(heldMsgs, roomIds, S, emits + 1)

\* TLayer.kick for every actor of S: the 'kick' listener closes the socket.
EmitKick(S) ==
    /\ sock' = Closing(Listening(S))
    /\ heldKick' = heldKick \cup
                   {a \in S : listeners[a] = {} /\ roomIds[a] # NoRoom}

-----------------------------------------------------------------------------
(* Room manager and application calls.                                     *)

\* emptyDestroyScheduled of the room object now registered under r.
EmptyDestroyScheduled(r) ==
    \E i \in 1..Len(jobs) : jobs[i] = <<"empty", r, gen[r]>>

CreateRoom(r) ==
    /\ r \notin exists
    /\ gen[r] < MaxCreates
    /\ exists' = exists \cup {r}
    /\ gen' = [gen EXCEPT ![r] = @ + 1]
    /\ UNCHANGED <<actors, visited, layerVars, connVars, loopVars, emitVars,
                   frameVars, disposed>>

Cleared_mutant(R) == actors

\* this.actors.clear() of the rooms of R.
Cleared(R) == [r \in Room |-> IF r \in R THEN {} ELSE actors[r]]

\* RoomManager.destroy with Room.handleDestroy, for the rooms of R.
Destroy(R) ==
    /\ exists' = exists \ R
    /\ EmitKick(UNION {actors[r] : r \in R})
    /\ actors' = Cleared(R)
    /\ visited' = visited \ R
    /\ UNCHANGED <<gen, roomIds, listeners, heldMsgs, buckets, emitVars>>

DestroyRoom(r) ==
    /\ r \in exists
    /\ Destroy({r})
    /\ UNCHANGED <<phase, closeVars, aid, loopVars, frameVars, disposed>>

Broadcast(r) ==
    /\ r \in exists
    /\ emits < MaxBroadcasts
    /\ EmitMessage(actors[r])
    /\ UNCHANGED <<roomVars, roomIds, listeners, heldKick, buckets, connVars,
                   loopVars, frameVars, disposed>>

KickActor(r, a) ==
    /\ r \in exists
    /\ a \in actors[r]
    /\ EmitKick({a})
    /\ UNCHANGED <<roomVars, roomIds, listeners, heldMsgs, buckets, phase,
                   closeVars, aid, loopVars, emitVars, frameVars, disposed>>

-----------------------------------------------------------------------------
(* Joining and leaving, as called by the connection's actions below.       *)

LastOneOut_beforeDelete(r, a) == actors[r] = {}

\* roomIds.delete(a)
Unregistered(a) == [roomIds EXCEPT ![a] = NoRoom]

\* The room's actor map is empty once a is deleted from it.
LastOneOut(r, a) == actors[r] \ {a} = {}

\* a's room exists and has a in its actor map.
InRoom(a) == roomIds[a] \in exists /\ a \in actors[roomIds[a]]

\* Room.handleLeave: the leaver is gone before presence is broadcast; `queue`
\* is the microtask queue the caller leaves.
HandleLeave(r, a, queue) ==
    LET rest == actors[r] \ {a} IN
    /\ actors' = [actors EXCEPT ![r] = rest]
    /\ IF Presence
       THEN /\ Send(rest)
            /\ heldMsgs' = [Hold(heldMsgs, roomIds, rest, emits + 1)
                              EXCEPT ![a] = <<>>]
       ELSE heldMsgs' = [heldMsgs EXCEPT ![a] = <<>>] /\ UNCHANGED emitVars
    /\ jobs' = IF /\ r \in DestroyOnEmpty
                  /\ LastOneOut(r, a)
                  /\ ~EmptyDestroyScheduled(r)
               THEN Append(queue, <<"empty", r, gen[r]>>) ELSE queue

\* TLayer.handleClose: deregister, leave the room if there is one, clean up.
HandleClose(a, queue) ==
    /\ roomIds' = Unregistered(a)
    /\ IF InRoom(a)
       THEN HandleLeave(roomIds[a], a, queue)
       ELSE /\ heldMsgs' = [heldMsgs EXCEPT ![a] = <<>>]
            /\ jobs' = queue
            /\ UNCHANGED <<actors, emitVars>>
    /\ listeners' = [listeners EXCEPT ![a] = {}]
    /\ heldKick' = heldKick \ {a}
    /\ buckets' = buckets \ {a}
    /\ UNCHANGED <<exists, gen, visited>>

Allocatable_taken(c) == StableId \cup {c}
CanJoin_offByOne(r) == r \in exists /\ Cardinality(actors[r]) <= MaxActors

\* The ids grantAccess may use for c: the requested one if it is free, and
\* otherwise (nothing requested, malformed, taken) a generated one.
Allocatable(c) == {a \in StableId \cup {c} : roomIds[a] = NoRoom}

\* The room exists and is below maxActors, checked after the await.
CanJoin(r) == r \in exists /\ Cardinality(actors[r]) < MaxActors

\* grantAccess from getRoom on, when handleJoin succeeds.  onJoin may send
\* its actor a greeting and may kick it; presence is broadcast afterwards.
Join(c, r, a, greet, kick) ==
    LET ids     == [roomIds EXCEPT ![a] = r]
        members == actors[r] \cup {a}
        n       == emits + (IF greet THEN 1 ELSE 0)
        heldG   == IF greet THEN Hold(heldMsgs, ids, {a}, n) ELSE heldMsgs
        outG    == IF greet THEN Write(delivered, {a}, n) ELSE delivered
        expG    == IF greet THEN Expect(expected, {c}, n) ELSE expected
    IN  /\ CanJoin(r)
        /\ roomIds' = ids
        /\ actors' = [actors EXCEPT ![r] = members]
        /\ visited' = visited \cup {r}
        /\ aid' = [aid EXCEPT ![c] = a]
        /\ phase' = [phase EXCEPT ![c] = "joined"]
        /\ emits' = IF Presence THEN n + 1 ELSE n
        /\ heldMsgs' = IF Presence THEN Hold(heldG, ids, members, n + 1)
                                   ELSE heldG
        /\ delivered' = IF Presence THEN Write(outG, members, n + 1) ELSE outG
        /\ expected' = IF Presence
                       THEN Expect(expG, Owners(members) \cup {c}, n + 1)
                       ELSE expG
        /\ IF kick
           THEN /\ sock' = Closing(Listening({a}))
                /\ heldKick' = IF listeners[a] = {} THEN heldKick \cup {a}
                                                    ELSE heldKick
           ELSE UNCHANGED <<sock, heldKick>>
        /\ UNCHANGED <<exists, gen, listeners, buckets, closeVars>>

\* grantAccess when onJoin throws, after having sent a greeting or not:
\* everything registered for the id is unwound.
JoinThrows(c, r, a, greet) ==
    LET ids == [roomIds EXCEPT ![a] = r]
        n   == emits + 1
        sent == IF greet THEN Hold(heldMsgs, ids, {a}, n) ELSE heldMsgs
    IN  /\ CanJoin(r)
        /\ emits' = IF greet THEN n ELSE emits
        /\ delivered' = IF greet THEN Write(delivered, {a}, n) ELSE delivered
        /\ heldMsgs' = [sent EXCEPT ![a] = <<>>]
        /\ heldKick' = heldKick \ {a}
        /\ listeners' = [listeners EXCEPT ![a] = {}]
        /\ phase' = [phase EXCEPT ![c] = "refused"]
        /\ UNCHANGED <<roomVars, roomIds, buckets, sock, closeVars, aid,
                       expected>>

\* grantAccess when it throws before it registers anything: invalid ticket,
\* no such room, room not joinable, room full.
JoinRefused(c) ==
    /\ phase' = [phase EXCEPT ![c] = "refused"]
    /\ UNCHANGED <<roomVars, layerVars, sock, closeVars, aid, emitVars>>

-----------------------------------------------------------------------------
(* WSTransport.handleConnect, piece by piece.                              *)

Quiet == jobs = <<>>   \* socket events wait for the microtask queue

\* From the ticket on: register the close listener, call grantAccess, which
\* awaits the AuthMiddleware.
BeginAuth(c) ==
    /\ phase' = [phase EXCEPT ![c] = "authenticating"]
    /\ awaiting' = awaiting \cup {<<"authenticated", c, 0>>}

Connect(c) ==
    /\ Quiet
    /\ ~disposed
    /\ phase[c] = "idle"
    /\ \/ /\ ~ConnLimited
          /\ sock' = [sock EXCEPT ![c] = "open"]
          /\ BeginAuth(c)
       \/ /\ ConnLimited
          /\ sock' = [sock EXCEPT ![c] = "open"]
          /\ phase' = [phase EXCEPT ![c] = "limiting"]
          /\ awaiting' = awaiting \cup {<<"limited", c, 0>>}
       \/ \* bad origin or no ticket: closed at once
          /\ sock' = [sock EXCEPT ![c] = "closing"]
          /\ phase' = [phase EXCEPT ![c] = "over"]
          /\ UNCHANGED awaiting
    /\ UNCHANGED <<roomVars, layerVars, closeVars, aid, jobs, emitVars,
                   frameVars, disposed>>

\* A promise of user code settles: its continuation becomes a microtask.
Settle(k) ==
    /\ k \in awaiting
    /\ awaiting' = awaiting \ {k}
    /\ jobs' = Append(jobs, k)
    /\ UNCHANGED <<roomVars, layerVars, connVars, emitVars, frameVars,
                   disposed>>

\* The job at the head of the queue is of the given kind, for x.
Running(kind, x) == ~Quiet /\ Head(jobs)[1] = kind /\ Head(jobs)[2] = x

\* connectionLimiter.check settled.
Limited(c) ==
    /\ Running("limited", c)
    /\ jobs' = Tail(jobs)
    /\ \/ BeginAuth(c) /\ UNCHANGED sock
       \/ /\ sock' = Closing({c})
          /\ phase' = [phase EXCEPT ![c] = "over"]
          /\ UNCHANGED awaiting
    /\ UNCHANGED <<roomVars, layerVars, closeVars, aid, emitVars, frameVars,
                   disposed>>

\* authenticate settled: grantAccess runs to its end.
Authenticated(c) ==
    /\ Running("authenticated", c)
    /\ \/ /\ \E r \in Room, a \in Allocatable(c), greet, kick \in BOOLEAN :
                Join(c, r, a, greet, kick)
          /\ jobs' = Append(Tail(jobs), <<"granted", c, 0>>)
       \/ /\ \/ \E r \in Room, a \in Allocatable(c), greet \in BOOLEAN :
                   JoinThrows(c, r, a, greet)
             \/ JoinRefused(c)
          /\ jobs' = Append(Tail(jobs), <<"refused", c, 0>>)
    /\ UNCHANGED <<awaiting, frameVars, disposed>>

\* handleConnect after grantAccess threw.
Refused(c) ==
    /\ Running("refused", c)
    /\ jobs' = Tail(jobs)
    /\ sock' = Closing({c})
    /\ phase' = [phase EXCEPT ![c] = "over"]
    /\ UNCHANGED <<roomVars, layerVars, closeVars, aid, awaiting, emitVars,
                   frameVars, disposed>>

\* handleConnect after grantAccess returned: drain an early close, or attach
\* the listeners, which flushes what emit has buffered for the actor.
Granted(c) ==
    LET a == aid[c] IN
    /\ Running("granted", c)
    /\ \/ /\ c \in closedEarly
          /\ phase' = [phase EXCEPT ![c] = "over"]
          /\ HandleClose(a, Tail(jobs))
          /\ UNCHANGED sock
       \/ /\ c \notin closedEarly
          /\ phase' = [phase EXCEPT ![c] = "attached"]
          /\ jobs' = Tail(jobs)
          /\ listeners' = [listeners EXCEPT ![a] = @ \cup {c}]
          /\ delivered' = [d \in Conn |->
                              IF d \in listeners[a] \cup {c} /\ sock[d] = "open"
                              THEN delivered[d] \o heldMsgs[a]
                              ELSE delivered[d]]
          /\ heldMsgs' = [heldMsgs EXCEPT ![a] = <<>>]
          /\ sock' = IF a \in heldKick THEN Closing(listeners[a] \cup {c})
                                       ELSE sock
          /\ heldKick' = heldKick \ {a}
          /\ UNCHANGED <<roomVars, roomIds, buckets, emits, expected>>
    /\ UNCHANGED <<closeVars, aid, awaiting, frameVars, disposed>>

FlagsEarlyClose_late(c) == FALSE

\* The close listener is registered and actorId is still null.
FlagsEarlyClose(c) == phase[c] \in {"authenticating", "joined", "refused"}

\* The socket's 'close' event: peer gone, close handshake done, terminated.
\* A close listener exists only from BeginAuth on.
SocketCloses(c) ==
    /\ Quiet
    /\ sock[c] \in {"open", "closing"}
    /\ sock' = [sock EXCEPT ![c] = "closed"]
    /\ IF phase[c] = "attached"
       THEN HandleClose(aid[c], jobs)
       ELSE UNCHANGED <<roomVars, layerVars, emitVars, jobs>>
    /\ closedEarly' = IF FlagsEarlyClose(c) THEN closedEarly \cup {c}
                                            ELSE closedEarly
    /\ unheard' = IF phase[c] = "limiting" THEN unheard \cup {c} ELSE unheard
    /\ UNCHANGED <<phase, aid, awaiting, frameVars, disposed>>

-----------------------------------------------------------------------------
(* Inbound frames: TLayer.handleMessage up to and after the rate limiter.  *)

FrameArrives(c) ==
    LET a == aid[c]
        k == <<"checked", c, frames[c] + 1>>
    IN
    /\ Quiet
    /\ phase[c] = "attached"
    /\ sock[c] \in {"open", "closing"}
    /\ frames[c] < MaxFrames
    /\ frames' = [frames EXCEPT ![c] = @ + 1]
    /\ \/ \* a text frame
          /\ sock' = Closing({c})
          /\ UNCHANGED <<heldKick, buckets, loopVars>>
       \/ \* undecodable, topic too long, payload too big
          /\ EmitKick({a})
          /\ UNCHANGED <<buckets, loopVars>>
       \/ /\ roomIds[a] = NoRoom
          /\ UNCHANGED <<sock, heldKick, buckets, loopVars>>
       \/ /\ roomIds[a] # NoRoom
          /\ buckets' = buckets \cup {a}
          /\ IF AsyncLimiter
             THEN awaiting' = awaiting \cup {k} /\ UNCHANGED jobs
             ELSE jobs' = Append(jobs, k) /\ UNCHANGED awaiting
          /\ UNCHANGED <<sock, heldKick>>
    /\ UNCHANGED <<roomVars, roomIds, listeners, heldMsgs, phase, closeVars,
                   aid, emitVars, handled, disposed>>

StillJoined_stale(a) == TRUE

\* Membership is looked up again after the await.
StillJoined(a) == InRoom(a)

\* rateLimiter.check settled; the membership is looked up again.
Checked(c) ==
    LET a == aid[c]
        r == roomIds[a]
    IN
    /\ Running("checked", c)
    /\ jobs' = Tail(jobs)
    /\ \/ \* rate limited, or unbound topic under the 'kick' policy
          /\ EmitKick({a})
          /\ UNCHANGED <<roomIds, handled>>
       \/ \* no longer joined
          /\ r = NoRoom
          /\ UNCHANGED <<roomIds, handled, sock, heldKick>>
       \/ \* the room is gone
          /\ r # NoRoom /\ r \notin exists
          /\ roomIds' = Unregistered(a)
          /\ UNCHANGED <<handled, sock, heldKick>>
       \/ \* Room.handleMessage: unknown actor, or unbound topic under 'drop'
          /\ r \in exists
          /\ UNCHANGED <<roomIds, handled, sock, heldKick>>
       \/ \* Room.handleMessage: a bound listener receives the frame
          /\ StillJoined(a)
          /\ handled' = [handled EXCEPT ![c] = Append(@, Head(jobs)[3])]
          /\ UNCHANGED <<roomIds, sock, heldKick>>
    /\ UNCHANGED <<roomVars, listeners, heldMsgs, buckets, phase, closeVars,
                   aid, awaiting, emitVars, frames, disposed>>

-----------------------------------------------------------------------------
\* The g-th room object of id r is registered (manager # null) and empty.
StillEmpty(r, g) == r \in exists /\ g = gen[r] /\ actors[r] = {}

\* The microtask of scheduleDestroyOnEmpty.
TeardownEmpty(r) ==
    /\ Running("empty", r)
    /\ jobs' = Tail(jobs)
    /\ IF StillEmpty(r, Head(jobs)[3])
       THEN Destroy({r})
       ELSE UNCHANGED <<roomVars, layerVars, sock, emitVars>>
    /\ UNCHANGED <<phase, closeVars, aid, awaiting, frameVars, disposed>>

\* WSTransport.dispose: stop accepting, close every client.
Dispose == disposed' = TRUE /\ sock' = Closing(Conn)

\* Rivalis.shutdown up to its await: destroy every room, then dispose.
Shutdown ==
    /\ ~disposed
    /\ Dispose
    /\ exists' = {}
    /\ actors' = Cleared(exists)
    /\ visited' = {}
    /\ heldKick' = heldKick \cup
         {a \in UNION {actors[r] : r \in exists} :
             listeners[a] = {} /\ roomIds[a] # NoRoom}
    /\ UNCHANGED <<gen, roomIds, listeners, heldMsgs, buckets, phase,
                   closeVars, aid, loopVars, emitVars, frameVars>>

RunJob ==
    \/ \E c \in Conn : \/ Limited(c)
                       \/ Authenticated(c)
                       \/ Refused(c)
                       \/ Granted(c)
                       \/ Checked(c)
    \/ \E r \in Room : TeardownEmpty(r)

Next ==
    \/ \E r \in Room : CreateRoom(r) \/ DestroyRoom(r) \/ Broadcast(r)
    \/ \E r \in Room, a \in ActorId : KickActor(r, a)
    \/ \E c \in Conn : Connect(c) \/ SocketCloses(c) \/ FrameArrives(c)
    \/ \E k \in awaiting : Settle(k)
    \/ RunJob
    \/ Shutdown

Spec == Init /\ [][Next]_vars

\* Node drains the microtask queue, and a socket that is closing closes: the
\* ws library destroys it if the peer does not complete the handshake.
Fairness ==
    /\ WF_vars(RunJob)
    /\ \A c \in Conn : WF_vars(sock[c] = "closing" /\ SocketCloses(c))

FairSpec == Spec /\ Fairness

-----------------------------------------------------------------------------
(* Safety.                                                                 *)

\* An id in a room's actor map is registered in TLayer.roomIds for that very
\* room, and the room exists: the two maps, kept by different objects, agree,
\* and no id is ever in two rooms.
MembershipAgrees ==
    \A r \in Room : \A a \in actors[r] : r \in exists /\ roomIds[a] = r

\* Connections racing through authentication never overfill a room
\* (TLayer.grantAccess checks maxActors after the await, not before).
CapacityRespected == \A r \in Room : Cardinality(actors[r]) <= MaxActors

\* The connections that keep a: attached and not closed yet, or joined with
\* handleConnect still to resume.  (One whose close nobody heard, because it
\* came during connectionLimiter.check, keeps its actor for ever.)
Keepers(a) ==
    {c \in Conn : /\ aid[c] = a
                  /\ \/ phase[c] = "attached" /\ sock[c] # "closed"
                     \/ phase[c] = "attached" /\ c \in unheard
                     \/ phase[c] = "joined"}

\* Every trace of an actor (room membership, registration, listeners,
\* buffered frames, rate limiter state) has a connection whose close will
\* remove it: nothing outlives its socket, however the close interleaves with
\* the handshake, room destruction and frames in flight.
NothingLeaks ==
    \A a \in ActorId :
        Keepers(a) = {} =>
            /\ \A r \in Room : a \notin actors[r]
            /\ roomIds[a] = NoRoom
            /\ listeners[a] = {}
            /\ heldMsgs[a] = <<>>
            /\ a \notin heldKick
            /\ a \notin buckets

\* An actor's socket gets every message emitted to that actor since it
\* joined, in order and once, although the first ones are emitted before the
\* transport listens; a socket that stopped being open gets a prefix.
\* (MaxPending is large enough here that emit never drops.)
NoMessageLost ==
    \A c \in Conn :
        phase[c] = "attached" =>
            /\ Len(delivered[c]) <= Len(expected[c])
            /\ delivered[c] = SubSeq(expected[c], 1, Len(delivered[c]))
            /\ sock[c] = "open" => delivered[c] = expected[c]

\* Rivalis.sockets >= Rivalis.connections: every registered actor has a raw
\* socket (between handlers, and until dispose drops the server).
SocketsCoverConnections ==
    Quiet /\ ~disposed =>
        Cardinality({a \in ActorId : roomIds[a] # NoRoom})
            <= Cardinality({c \in Conn : sock[c] \in {"open", "closing"}})

\* A destroyOnEmpty room that had actors and has none is about to go: no
\* order of leaves, failed joins and re-creation leaves it behind.
EmptiedRoomScheduled ==
    \A r \in exists \cap visited \cap DestroyOnEmpty :
        actors[r] = {} => EmptyDestroyScheduled(r)

-----------------------------------------------------------------------------
(* Action properties.                                                      *)

\* A room never receives a frame of a client whose socket has closed, even
\* if the frame was waiting for the rate limiter when it closed.
NoFrameAfterClose ==
    [][\A c \in Conn : handled'[c] # handled[c] => sock[c] # "closed"]_vars

-----------------------------------------------------------------------------
(* Liveness.                                                               *)

Member(c) == \E r \in Room : aid[c] \in actors[r] /\ phase[c] # "over"

\* A connection that is being closed, whatever the reason (kick, destroyed
\* room, bad frame, shutdown), eventually leaves its room for good, if its
\* close is heard at all.
ClosingLeaves ==
    \A c \in Conn : sock[c] = "closing" ~> [](~Member(c)) \/ c \in unheard

=============================================================================
