-------------------------- MODULE FleetReadModel --------------------------
(***************************************************************************)
(* What readers of the orchestrator see: the read model of FleetState, the *)
(* public room ids it derives, its memo, and the events that               *)
(* EventReconciler derives from it, while agents connect, reconnect and    *)
(* fall silent, rooms come and go, and the orchestrator restarts.         *)
(*                                                                         *)
(* A connection is numbered in the order of joining and is the instance id *)
(* its records carry.  A poll is answered once, by a snapshot, so the      *)
(* sequence numbers of a connection only grow and applySnapshot never      *)
(* drops one.  Of a snapshot only the rooms are kept; the state hash is    *)
(* the view itself.  encodeRoomId keeps ids apart and never yields '~': a  *)
(* public id is a sequence, <<room>> or <<process, room>>.                 *)
(***************************************************************************)
EXTENDS Naturals, Sequences

CONSTANTS
    Process,     \* server processes; a process is also its processUid
    RoomId,      \* raw room ids
    NoView,      \* a memo that was dropped
    EvictAfter,  \* missed replies that evict an instance (3 in the code)
    MaxConnects, \* bound: connections of all processes together
    MaxChanges,  \* bound: rooms created and destroyed
    MaxFaults    \* bound: restarts of the orchestrator and connections that
                 \* end while their agent lives

ASSUME ReadModelAssumption ==
    /\ EvictAfter \in Nat \ {0}
    /\ {MaxConnects, MaxChanges, MaxFaults} \subseteq Nat

Instance == 1..MaxConnects
Origin == {"fleet", "local"}

\* What a memo holds: a view, which is never the dropped one.
View == [instances : SUBSET Instance,
         rooms : SUBSET [inst : Instance, at : Nat, raw : RoomId, id : Seq(RoomId \cup Process)]]

ASSUME NoViewAssumption == NoView \notin View

VARIABLES
    hosted,     \* the rooms of each process: raw id -> origin or "none"
    link,       \* the connection a process believes it has, or 0
    uid,        \* the process of each connection made so far
    links,      \* Orchestrator.links, and the keys of Poller.entries
    wire,       \* the outstanding poll: "idle", "polled", or the reply that is
                \* under way, "same" (hash-only) or "full"
    carried,    \* the rooms a full reply carries
    missed,     \* Poller: consecutive missed replies
    records,    \* FleetState.records in Map order, which is that of joinSeq
    view,       \* FleetState.resolvedView
    joined,     \* EventReconciler.knownInstanceIds
    known,      \* EventReconciler.knownRooms: public id -> instance
    told,       \* the instances a subscriber was told of and not told to forget
    synced,     \* the state of the last sync event
    changes, faults, \* counters for the bounds
    shared      \* history: raw ids two instances reported at the same time, as
                \* far as this orchestrator knows

agents == <<hosted, link, uid, changes>>
poller == <<links, wire, carried, missed>>
model == <<records, view>>
events == <<joined, known, told, synced>>
history == <<faults, shared>>
vars == <<agents, poller, model, events, history>>

-----------------------------------------------------------------------------
(* The public ids.                                                         *)

\* The rooms that are reported, with the place of their instance in the order
\* of joining.
Entries(recs) ==
    UNION {{[inst |-> recs[n].inst, at |-> n, uid |-> uid[recs[n].inst], raw |-> r,
             origin |-> recs[n].rooms[r]] :
                r \in {q \in RoomId : recs[n].rooms[q] # "none"}} : n \in 1..Len(recs)}

\* Mutant: who joined first keeps the id, whoever made the room.
Precedes_byJoin(e, f) == e.at < f.at

\* compareForCanonical: fleet before local, then the earlier joiner.
Precedes(e, f) ==
    \/ e.origin = "fleet" /\ f.origin = "local"
    \/ e.origin = f.origin /\ e.at < f.at

\* Mutant: only rooms the fleet made are kept apart.
PublicId_fleetOnly(e, all) ==
    IF \A f \in all \ {e} : f.raw = e.raw /\ f.origin = "fleet" => Precedes(e, f)
        THEN <<e.raw>> ELSE <<e.uid, e.raw>>

\* resolve: one room keeps the id, the others are named after their process.
PublicId(e, all) ==
    IF \A f \in all \ {e} : f.raw = e.raw => Precedes(e, f)
        THEN <<e.raw>> ELSE <<e.uid, e.raw>>

Resolve(recs) ==
    LET all == Entries(recs)
        rooms == {[inst |-> e.inst, at |-> e.at, raw |-> e.raw,
                   id |-> PublicId(e, all)] : e \in all}
    IN  [instances |-> {recs[n].inst : n \in 1..Len(recs)}, rooms |-> rooms]

Ids(v) == IF v = NoView THEN {} ELSE {x.id : x \in v.rooms}
Bearers(v, id) == {x \in v.rooms : x.id = id}

\* Of several rooms with one id, byPublicId keeps the last and the reconciler
\* the first.
Route(v, id) == CHOOSE x \in Bearers(v, id) : \A y \in Bearers(v, id) : y.at <= x.at
FirstOf(v, id) == CHOOSE x \in Bearers(v, id) : \A y \in Bearers(v, id) : x.at <= y.at

\* A query: the memo, or a new one.
Read(recs, memo) == IF memo = NoView THEN Resolve(recs) ELSE memo

-----------------------------------------------------------------------------
(* EventReconciler.                                                        *)

\* reconcile, after instances in gone were announced as removed.
Reconcile(recs, memo, gone) ==
    LET v == Read(recs, memo)
        old == joined \ gone
    IN
    /\ view' = v
    /\ joined' = v.instances
    /\ told' = (told \ gone) \cup (v.instances \ old)
    /\ known' = [id \in Ids(v) |-> IF id \in DOMAIN known THEN known[id]
                                    ELSE FirstOf(v, id).inst]
    /\ synced' = v

-----------------------------------------------------------------------------
(* FleetState.                                                             *)

RecordOf(i) == {n \in 1..Len(records) : records[n].inst = i}

\* applySnapshot: an instance keeps the place it joined at.
Put(i, rooms) ==
    IF RecordOf(i) = {}
        THEN Append(records, [inst |-> i, rooms |-> rooms])
        ELSE [n \in 1..Len(records) |->
                IF records[n].inst = i THEN [records[n] EXCEPT !.rooms = rooms]
                                       ELSE records[n]]

Nothing == [r \in RoomId |-> "none"]
Reported(rooms) == {r \in RoomId : rooms[r] # "none"}
SharedNow(recs) ==
    {r \in RoomId : \E k, n \in 1..Len(recs) :
        k # n /\ r \in Reported(recs[k].rooms) \cap Reported(recs[n].rooms)}

ApplySnapshot(i, rooms) ==
    /\ records' = Put(i, rooms)
    /\ Reconcile(records', NoView, {})
    /\ shared' = shared \cup SharedNow(records')

\* removeInstance: the others keep their order.
RemoveInstance(i) ==
    IF RecordOf(i) = {} THEN records
    ELSE LET k == CHOOSE k \in RecordOf(i) : TRUE
         IN  [n \in 1..Len(records) - 1 |-> records[IF n < k THEN n ELSE n + 1]]

\* What ends while the agent at its other end is up counts as a fault.
Fault(up) ==
    /\ up => faults < MaxFaults
    /\ faults' = faults + (IF up THEN 1 ELSE 0)

Live(i) == link[uid[i]] = i /\ i \in links

\* Mutant: removing an instance does not drop the memo.
Teardown_keepsView(i) ==
    /\ links' = links \ {i}
    /\ wire' = [wire EXCEPT ![i] = "idle"]
    /\ carried' = [carried EXCEPT ![i] = Nothing]
    /\ missed' = [missed EXCEPT ![i] = 0]
    /\ records' = RemoveInstance(i)
    /\ Reconcile(records', view, IF RecordOf(i) = {} THEN {} ELSE {i})

\* Orchestrator.teardownInstance.  Nothing is announced of an instance that
\* never reported.
Teardown(i) ==
    /\ links' = links \ {i}
    /\ wire' = [wire EXCEPT ![i] = "idle"]
    /\ carried' = [carried EXCEPT ![i] = Nothing]
    /\ missed' = [missed EXCEPT ![i] = 0]
    /\ records' = RemoveInstance(i)
    /\ IF RecordOf(i) = {} THEN Reconcile(records', view, {})
                           ELSE Reconcile(records', NoView, {i})

-----------------------------------------------------------------------------
(* The orchestrator's handlers.                                            *)

Connects == Len(uid)

\* handleAgentJoin: hello, and the first poll.  sendPoll reads the model.
Join(p) ==
    LET i == Connects + 1 IN
    /\ link[p] = 0 /\ Connects < MaxConnects
    /\ uid' = Append(uid, p)
    /\ link' = [link EXCEPT ![p] = i]
    /\ links' = links \cup {i}
    /\ wire' = [wire EXCEPT ![i] = "polled"]
    /\ view' = Read(records, view)
    /\ UNCHANGED <<hosted, changes, carried, missed, records, events, history>>

\* Mutant: an instance that misses too many polls is never evicted.
Tick_keeps(i) ==
    /\ i \in links /\ wire[i] = "idle"
    /\ wire' = [wire EXCEPT ![i] = "polled"]
    /\ view' = Read(records, view)
    /\ UNCHANGED <<agents, links, carried, missed, records, events, history>>

\* The poller's timer: a poll when the last one was answered, else a miss, and
\* too many in a row evict.
Tick(i) ==
    /\ i \in links
    /\ \/ /\ wire[i] = "idle"
          /\ wire' = [wire EXCEPT ![i] = "polled"]
          /\ view' = Read(records, view)
          /\ UNCHANGED <<links, carried, missed, records, events, faults, shared>>
       \/ /\ wire[i] # "idle" /\ missed[i] + 1 < EvictAfter
          /\ missed' = [missed EXCEPT ![i] = @ + 1]
          /\ UNCHANGED <<links, wire, carried, model, events, faults, shared>>
       \/ /\ wire[i] # "idle" /\ missed[i] + 1 >= EvictAfter
          /\ Fault(Live(i))
          /\ Teardown(i)
          /\ UNCHANGED shared
    /\ UNCHANGED agents

\* handleAgentLeave.
Leave(i) ==
    /\ i \in links
    /\ Fault(Live(i))
    /\ Teardown(i)
    /\ UNCHANGED <<agents, shared>>

\* handleState: what is under way arrives, also after the agent's end closed.
HandleState(i) ==
    /\ i \in links /\ wire[i] \in {"same", "full"}
    /\ wire' = [wire EXCEPT ![i] = "idle"]
    /\ carried' = [carried EXCEPT ![i] = Nothing]
    /\ missed' = [missed EXCEPT ![i] = 0]
    /\ IF wire[i] = "same" THEN UNCHANGED <<model, events, shared>>
                           ELSE ApplySnapshot(i, carried[i])
    /\ UNCHANGED <<agents, links, faults>>

-----------------------------------------------------------------------------
(* The agents.                                                             *)

\* onPoll: a snapshot, or the news that it is the one on record.
Answer(p) ==
    LET i == link[p]
        same == \E n \in RecordOf(i) : records[n].rooms = hosted[p]
    IN
    /\ i \in links /\ wire[i] = "polled"
    /\ wire' = [wire EXCEPT ![i] = IF same THEN "same" ELSE "full"]
    /\ carried' = [carried EXCEPT ![i] = IF same THEN Nothing ELSE hosted[p]]
    /\ UNCHANGED <<agents, links, missed, model, events, history>>

\* The agent's end of its connection closes.
Loses(p) ==
    /\ link[p] # 0
    /\ Fault(link[p] \in links)
    /\ link' = [link EXCEPT ![p] = 0]
    /\ UNCHANGED <<hosted, uid, changes, poller, model, events, shared>>

Change(p, r, origin) ==
    /\ changes < MaxChanges
    /\ changes' = changes + 1
    /\ hosted' = [hosted EXCEPT ![p][r] = origin]
    /\ UNCHANGED <<link, uid, poller, model, events, faults, shared>>

\* The application makes a room, whatever the fleet calls its own.
LocalCreate(p, r) == hosted[p][r] = "none" /\ Change(p, r, "local")

\* The orchestrator makes a room: the id is in no view and, as
\* FleetControlPlane shows, in no create of a connected instance that is still
\* to be seen.
IsRoomIdTaken(r) ==
    \/ <<r>> \in Ids(view)
    \/ \E i \in links : RecordOf(i) # {} /\ hosted[uid[i]][r] = "fleet"

FleetCreate(p, r) ==
    /\ link[p] \in links /\ RecordOf(link[p]) # {}
    /\ ~IsRoomIdTaken(r)
    /\ hosted[p][r] = "none"
    /\ Change(p, r, "fleet")

LocalDestroy(p, r) == hosted[p][r] # "none" /\ Change(p, r, "none")

\* destroyRoom: the command goes to the instance the id leads to, under the raw
\* id, and does nothing if that agent has left or has no such room.
DestroyRoom(id) ==
    LET x == Route(view, id)
        p == uid[x.inst]
    IN
    /\ link[p] = x.inst /\ hosted[p][x.raw] # "none"
    /\ Change(p, x.raw, "none")

-----------------------------------------------------------------------------
(* The orchestrator restarts: nothing of it survives.                    *)

Restart ==
    /\ Fault(TRUE)
    /\ links' = {}
    /\ wire' = [i \in Instance |-> "idle"]
    /\ carried' = [i \in Instance |-> Nothing]
    /\ missed' = [i \in Instance |-> 0]
    /\ records' = <<>> /\ view' = NoView
    /\ joined' = {} /\ known' = <<>> /\ told' = {}
    /\ synced' = NoView
    /\ shared' = {}
    /\ UNCHANGED agents

Init ==
    /\ hosted = [p \in Process |-> Nothing]
    /\ link = [p \in Process |-> 0]
    /\ uid = <<>>
    /\ links = {}
    /\ wire = [i \in Instance |-> "idle"]
    /\ carried = [i \in Instance |-> Nothing]
    /\ missed = [i \in Instance |-> 0]
    /\ records = <<>> /\ view = NoView
    /\ joined = {} /\ known = <<>> /\ told = {}
    /\ synced = NoView
    /\ changes = 0 /\ faults = 0
    /\ shared = {}

Next ==
    \/ \E p \in Process : Join(p) \/ Answer(p) \/ Loses(p)
    \/ \E i \in Instance : Tick(i) \/ Leave(i) \/ HandleState(i)
    \/ \E p \in Process, r \in RoomId :
          LocalCreate(p, r) \/ FleetCreate(p, r) \/ LocalDestroy(p, r)
    \/ \E id \in Ids(view) : DestroyRoom(id)
    \/ Restart

Spec == Init /\ [][Next]_vars

\* Timers fire, frames arrive, a connected agent answers, and an agent whose
\* connection the orchestrator closed learns of it.
FairSpec ==
    /\ Spec
    /\ \A i \in Instance : WF_vars(Tick(i)) /\ WF_vars(HandleState(i))
    /\ \A p \in Process : /\ WF_vars(Answer(p))
                          /\ WF_vars(link[p] \notin links /\ Loses(p))

-----------------------------------------------------------------------------
(* Properties.                                                             *)

\* Whoever reads the model or follows its events sees the records, although the
\* model is remembered and the events are differences: no memo is stale, a
\* subscriber knows the instances and the rooms there are, and unless two
\* instances ever reported a room under one raw id, where each room is.
EventsMirror ==
    /\ view = NoView => records = <<>> /\ told = {} /\ known = <<>>
    /\ view # NoView =>
          /\ view = Resolve(records)
          /\ told = view.instances /\ joined = told
          /\ DOMAIN known = Ids(view)
          /\ records # <<>> => synced = view
          /\ \A x \in view.rooms : x.raw \notin shared => known[x.id] = x.inst

\* A public id never stands for rooms of two processes, so a command for it
\* cannot reach the wrong one.  (FleetState.ts:705 calls the ids unique; two
\* connections of one process that lose an id to a third share one.)
OneIdOneProcess ==
    view # NoView =>
        \A x, y \in view.rooms : x.id = y.id => uid[x.inst] = uid[y.inst]

\* While a connection reports a room that the fleet made, the room keeps the id
\* its creator was given, whatever applications call theirs and whoever joins
\* or leaves; only another room the fleet made may take it.
FleetRooms(recs, r) ==
    {recs[n].inst : n \in {k \in 1..Len(recs) : recs[k].rooms[r] = "fleet"}}

FleetKeepsId ==
    [][\A r \in RoomId : \A i \in FleetRooms(records, r) \cap FleetRooms(records', r) :
          (\E x \in view.rooms : x.inst = i /\ x.id = <<r>>) =>
              \/ \E x \in view'.rooms : x.inst = i /\ x.id = <<r>>
              \/ FleetRooms(records', r) # {i}]_vars

\* Once rooms and connections are left alone, readers see each connected agent
\* once, as it is, and nothing of connections that are gone.
Converges ==
    <>[](\A n \in 1..Len(records) :
            LET i == records[n].inst IN
            link[uid[i]] = i /\ records[n].rooms = hosted[uid[i]])
===========================================================================
