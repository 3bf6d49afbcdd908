------------------------------ MODULE FleetApi ------------------------------
(***************************************************************************)
(* What the REST routes answer from the read model of the orchestrator:    *)
(* instances, rooms and stats with weak ETags (sendConditional,            *)
(* FleetState.stats and its two memos), and where POST /v1/rooms puts a    *)
(* room (FleetState.place, pick), while replies of agents arrive, are      *)
(* missed, or stop.                                                        *)
(*                                                                         *)
(* One handler is one action, and each event of the orchestrator takes one *)
(* tick of the clock.  The hash is the projection that is hashed.  Public  *)
(* room ids are FleetReadModel's: here a room is known by its instance and *)
(* its raw id.  Commands and their acks are FleetControlPlane's: here a    *)
(* create holds a slot until it settles.  Name, URL and versions of an     *)
(* instance are its process; lists are sets.                               *)
(***************************************************************************)
EXTENDS Naturals, FiniteSets, FiniteSetsExt

CONSTANTS
    Conns,     \* instance ids
    Snapshots, \* what agents may report
    Requests,  \* bodies of POST /v1/rooms
    Filters,   \* queries of GET /v1/rooms
    None,      \* null, or an absent option
    MaxTime    \* bound: events of the orchestrator

ASSUME ApiAssumption == MaxTime \in Nat /\ None \notin Conns \cup Snapshots

\* On the wire counts and limits are uint32, and a list of rooms is finite.
ASSUME SnapshotAssumption == \A s \in Snapshots :
    /\ IsFiniteSet(s.rooms) /\ \A r \in s.rooms : r.connections \in Nat
    /\ s.maxConnections \in Nat \cup {None}

VARIABLES
    clock,    \* Date.now()
    reports,  \* FleetState.records: InstanceRecord of each known instance
    quiet,    \* staleInstances
    acked,    \* pendingStatus
    reserving, awaiting, \* reservedByInstance, pendingByInstance
    memo,     \* resolvedView
    hashMemo, \* cachedStateHash
    cached    \* the response a client of a conditional route has kept

placing == <<reserving, awaiting>>
apiVars == <<clock, reports, quiet, acked, placing, memo, hashMemo, cached>>

Reporters == DOMAIN reports

-----------------------------------------------------------------------------
(* The read model.                                                         *)

\* buildInstanceInfo: connections are summed, rooms carry what is their instance's.
BuildInstanceInfo(i, s, at) ==
    [id |-> i, processUid |-> s.processUid, labels |-> s.labels, roomTypes |-> s.roomTypes,
     rooms |-> {[id |-> <<i, r.id>>, type |-> r.type, connections |-> r.connections,
                 instanceId |-> i, endpointUrl |-> s.processUid, local |-> r.origin = "local"] : r \in s.rooms},
     connections |-> MapThenSumSet(LAMBDA r : r.connections, s.rooms),
     maxRooms |-> s.maxRooms, maxConnections |-> s.maxConnections,
     autoCreate |-> s.autoCreate, status |-> s.status, lastSyncAt |-> at]

\* resolve, but for the ids.
Instances(recs) == {recs[i].info : i \in DOMAIN recs}
ReadMemo(recs, m) == IF m = None THEN Instances(recs) ELSE m

\* Mutant: labels are not part of the hash.
Projection_unlabelled(info) == [f \in DOMAIN info \ {"lastSyncAt", "labels"} |-> info[f]]

\* computeStateHash: all that is semantic.
Projection(info) == [f \in DOMAIN info \ {"lastSyncAt"} |-> info[f]]
StateHash(infos) == {Projection(x) : x \in infos}

Hash == IF hashMemo = None THEN StateHash(ReadMemo(reports, memo)) ELSE hashMemo

\* The getters rooms, stats and instances, and findRooms with a filter.
MatchesLabels(labels, required) == required \subseteq labels
FindRooms(infos, filter) ==
    {r \in UNION {x.rooms : x \in {y \in infos : MatchesLabels(y.labels, filter.labels)}} :
        filter.type \in {None, r.type}}
Stats(infos) ==
    [instances |-> Cardinality(infos), rooms |-> Cardinality(UNION {x.rooms : x \in infos}),
     connections |-> MapThenSumSet(LAMBDA x : x.connections, infos),
     roomTypes |-> UNION {x.roomTypes : x \in infos}]

\* The conditional routes and their data.
Routes == {<<"stats">>, <<"instances">>} \cup {<<"rooms", f>> : f \in Filters}
Data(route, infos) ==
    IF route = <<"stats">> THEN Stats(infos)
    ELSE IF route = <<"instances">> THEN infos ELSE FindRooms(infos, route[2])

ApiInit ==
    /\ clock = 0
    /\ reports = <<>> /\ quiet = {} /\ acked = [i \in Conns |-> None]
    /\ reserving = [i \in Conns |-> 0] /\ awaiting = [i \in Conns |-> 0]
    /\ memo = None /\ hashMemo = None /\ cached = None

Passes == clock < MaxTime /\ clock' = clock + 1

-----------------------------------------------------------------------------
(* Replies of agents.                                                      *)

\* reconcilePendingStatus, now that i is recorded with status s.
ReconcilePendingStatus(i, s) == acked' = IF acked[i] = s THEN [acked EXCEPT ![i] = None] ELSE acked
ClearPendingVisibility(i) == awaiting' = [awaiting EXCEPT ![i] = 0]

\* applySnapshot, and the reconciler reads at once; the order of joining is kept.
ApplySnapshotOf(i, s) ==
    LET joinSeq == IF i \in Reporters THEN reports[i].joinSeq ELSE clock
        rec == [info |-> BuildInstanceInfo(i, s, clock), joinSeq |-> joinSeq]
    IN
    /\ reports' = [j \in Reporters \cup {i} |-> IF j = i THEN rec ELSE reports[j]]
    /\ memo' = Instances(reports') /\ hashMemo' = None
    /\ ClearPendingVisibility(i)
    /\ ReconcilePendingStatus(i, s.status)

\* touch: no memo is dropped, the time is written into the remembered instance.
Touch(i) ==
    /\ reports' = [reports EXCEPT ![i].info.lastSyncAt = clock]
    /\ ClearPendingVisibility(i)
    /\ ReconcilePendingStatus(i, reports[i].info.status)
    /\ memo' = IF memo = None THEN None
               ELSE {IF x.id = i THEN [x EXCEPT !.lastSyncAt = clock] ELSE x : x \in memo}
    /\ UNCHANGED hashMemo

\* handleState of a reply that matches its poll: a snapshot, one that validateSnapshot
\* refuses, or the news that nothing has changed.
Replies(i) ==
    /\ Passes
    /\ quiet' = quiet \ {i}
    /\ \/ \E s \in Snapshots : ApplySnapshotOf(i, s)
       \/ UNCHANGED <<reports, memo, hashMemo, acked, awaiting>>
       \/ i \in Reporters /\ Touch(i)
    /\ UNCHANGED <<reserving, cached>>

\* onStale
GoesQuiet(i) ==
    /\ Passes /\ i \in Reporters
    /\ quiet' = quiet \cup {i}
    /\ UNCHANGED <<reports, acked, placing, memo, hashMemo, cached>>

\* teardownInstance: its commands fail, then removeInstance.
Goes(i) ==
    /\ Passes /\ i \in Reporters
    /\ reports' = [j \in Reporters \ {i} |-> reports[j]]
    /\ memo' = Instances(reports') /\ hashMemo' = None
    /\ quiet' = quiet \ {i} /\ acked' = [acked EXCEPT ![i] = None]
    /\ reserving' = [reserving EXCEPT ![i] = 0]
    /\ ClearPendingVisibility(i)
    /\ UNCHANGED cached

\* setPendingStatus, after the ack of a drain or undrain.
StatusAcked(i, s) ==
    /\ Passes /\ i \in Reporters
    /\ acked' = [acked EXCEPT ![i] = s]
    /\ UNCHANGED <<reports, quiet, placing, memo, hashMemo, cached>>

-----------------------------------------------------------------------------
(* POST /v1/rooms.                                                         *)

Info(i) == reports[i].info
Status(i) == IF acked[i] # None THEN acked[i] ELSE Info(i).status

\* hasHeadroom: slots in use and promised, and connections.
FreeSlot(i) ==
    Info(i).maxRooms # None => Cardinality(Info(i).rooms) + reserving[i] + awaiting[i] < Info(i).maxRooms
HasRoom(i) ==
    FreeSlot(i) /\ (Info(i).maxConnections # None => Info(i).connections < Info(i).maxConnections)

\* place: the filter of a placement by strategy.
Eligible(req) ==
    {i \in Reporters : /\ Status(i) = "active" /\ i \notin quiet
                       /\ Info(i).autoCreate /\ req.type \in Info(i).roomTypes
                       /\ MatchesLabels(Info(i).labels, req.labels)
                       /\ HasRoom(i)}

\* Mutant: who declares a limit is scored by it, whatever the others do.
Load_each(i, normalized) ==
    IF Info(i).maxConnections # None THEN <<Info(i).connections, Info(i).maxConnections>> ELSE <<Info(i).connections, 1>>

\* scoreOf, a fraction.
Load(i, normalized) ==
    IF normalized THEN <<Info(i).connections, Info(i).maxConnections>> ELSE <<Info(i).connections, 1>>
Below(a, b) == a[1] * b[2] < b[1] * a[2]

\* pick: those it chooses from at random.  Relative loads are compared only if every
\* candidate declares a limit.
Best(S, strategy) ==
    LET normalized == \A i \in S : Info(i).maxConnections # None
        L(i) == Load(i, normalized)
    IN  CASE strategy = "random" -> S
          [] strategy = "least-loaded" -> {i \in S : \A j \in S : ~Below(L(j), L(i))}
          [] strategy = "most-loaded" -> {i \in S : \A j \in S : ~Below(L(i), L(j))}

\* The instance a pin names; of the records of a process the one that joined last
\* (latestRecordByProcessUid).
Pinned(pin) ==
    IF pin.by = "instanceId" THEN Reporters \cap {pin.value}
    ELSE {i \in Reporters : /\ Info(i).processUid = pin.value
                            /\ \A j \in Reporters : Info(j).processUid = pin.value =>
                                   reports[j].joinSeq <= reports[i].joinSeq}

\* place, pinned: only `force` passes over status and silence, nothing over autoCreate.
PinAdmits(i, force) == (force \/ (Status(i) = "active" /\ i \notin quiet)) /\ Info(i).autoCreate

\* place: where the room may go; nowhere is an error.
Places(req) ==
    IF req.pin # None THEN {i \in Pinned(req.pin) : PinAdmits(i, req.force)}
    ELSE Best(Eligible(req), req.strategy)

\* createRoom up to its command.
PostRooms(req) ==
    /\ Passes
    /\ \E i \in Places(req) : reserving' = [reserving EXCEPT ![i] = @ + 1]
    /\ UNCHANGED <<reports, quiet, acked, awaiting, memo, hashMemo, cached>>

\* A create ends: acked or timed out, its slot is kept until a reply (holdUntilVisible);
\* refused, it is released.
CreateEnds(i) ==
    /\ Passes /\ reserving[i] > 0
    /\ reserving' = [reserving EXCEPT ![i] = @ - 1]
    /\ awaiting' \in {awaiting, [awaiting EXCEPT ![i] = @ + 1]}
    /\ UNCHANGED <<reports, quiet, acked, memo, hashMemo, cached>>

-----------------------------------------------------------------------------
(* GET, conditional.                                                       *)

\* sendConditional, to a client that sends the ETag it has for this route, or none:
\* 304 leaves it with what it has.
Get(route) ==
    LET infos == ReadMemo(reports, memo) IN
    /\ memo' = infos /\ hashMemo' = Hash
    /\ cached' = IF cached # None /\ cached.route = route /\ cached.etag = Hash THEN cached
                 ELSE [route |-> route, etag |-> Hash, data |-> Data(route, infos)]
    /\ UNCHANGED <<clock, reports, quiet, acked, placing>>

ApiNext ==
    \/ \E i \in Conns : \/ Replies(i) \/ GoesQuiet(i) \/ Goes(i) \/ CreateEnds(i)
                        \/ \E s \in {"active", "draining"} : StatusAcked(i, s)
    \/ \E req \in Requests : PostRooms(req)
    \/ \E route \in Routes : Get(route)

ApiSpec == ApiInit /\ [][ApiNext]_apiVars

-----------------------------------------------------------------------------
(* Properties.                                                             *)

ApiTypeOK ==
    /\ clock \in 0..MaxTime /\ Reporters \subseteq Conns /\ quiet \subseteq Reporters
    /\ acked \in [Conns -> {None, "active", "draining"}]
    /\ reserving \in [Conns -> Nat] /\ awaiting \in [Conns -> Nat]

\* What a client may go on using and what readers are given is so: both memos equal
\* what they would be made anew, the times of quiet heartbeats included, and a client
\* whose ETag is still current has the data it would be sent, but for those times
\* (sendConditional, FleetState.touch, invalidate, computeStateHash).
WithoutTimes(route, data) == IF route = <<"instances">> THEN StateHash(data) ELSE data
NotModifiedIsSo ==
    /\ memo # None => memo = Instances(reports)
    /\ hashMemo # None => hashMemo = StateHash(Instances(reports))
    /\ cached # None /\ cached.etag = StateHash(Instances(reports)) =>
          WithoutTimes(cached.route, cached.data) =
              WithoutTimes(cached.route, Data(cached.route, Instances(reports)))

\* Spreading load never chooses an instance when another that could take the room has
\* fewer connections and no lower a limit, however the candidates declare their limits
\* (FleetState.pick).
NoLower(i, j) == Info(j).maxConnections = None
                 \/ (Info(i).maxConnections # None /\ Info(j).maxConnections >= Info(i).maxConnections)
NeverDominated ==
    [][\A req \in {q \in Requests : q.pin = None /\ q.strategy = "least-loaded"} :
          PostRooms(req) =>
              \A i \in Conns : reserving'[i] > reserving[i] =>
                  ~\E j \in Eligible(req) : Info(j).connections < Info(i).connections /\ NoLower(i, j)]_apiVars
=============================================================================
