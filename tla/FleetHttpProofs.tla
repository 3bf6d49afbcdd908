--------------------------- MODULE FleetHttpProofs ---------------------------
(***************************************************************************)
(* What an orchestrator shows to its clients, for any processes, rooms,    *)
(* connections, requests and faults: what readers of the fleet see is what *)
(* is on record, and a public id is that of one process (FleetReadModel);  *)
(* what the REST routes answer and where they put a room (FleetApi); and   *)
(* whom its port lets in (FleetServer).                                    *)
(***************************************************************************)
EXTENDS FleetReadModel, FleetApi, FleetServer, SubsequenceProofs, FiniteSetTheorems

Rooms == [RoomId -> Origin \cup {"none"}]

\* FleetState.records is a map: an instance has one record.
RecordsOf(recs, u) ==
    /\ recs \in Seq([inst : 1..Len(u), rooms : Rooms])
    /\ \A k, n \in 1..Len(recs) : recs[k].inst = recs[n].inst => k = n

\* The rooms of the processes, and the connections.
Inventory ==
    /\ hosted \in [Process -> Rooms]
    /\ link \in [Process -> 0..Len(uid)]
    /\ uid \in Seq(Process) /\ Len(uid) <= MaxConnects
    /\ links \subseteq 1..Len(uid)
    /\ carried \in [Instance -> Rooms]

\* What the read model is made from.
ReadTypes == Inventory /\ RecordsOf(records, uid)

\* Nobody has joined before there is a view.
Unread == view = NoView => joined = {}

\* The history holds what the records share.
Noted == SharedNow(records) \subseteq shared

ReadInv == ReadTypes /\ Unread /\ Noted /\ EventsMirror

-----------------------------------------------------------------------------
(* The read model, spelled out.                                            *)

\* The room r of record n goes before that of record k.
Beats(recs, n, k, r) ==
    \/ recs[n].rooms[r] = "fleet" /\ recs[k].rooms[r] = "local"
    \/ recs[n].rooms[r] = recs[k].rooms[r] /\ n < k

\* Record n keeps the raw id r.
Keeps(recs, n, r) ==
    \A k \in 1..Len(recs) : k # n /\ recs[k].rooms[r] # "none" => Beats(recs, n, k, r)

IdOf(recs, u, n, r) == IF Keeps(recs, n, r) THEN <<r>> ELSE <<u[recs[n].inst], r>>

Shown(recs, u, n, r) ==
    [inst |-> recs[n].inst, at |-> n, raw |-> r, id |-> IdOf(recs, u, n, r)]

ShownRooms(recs, u) ==
    UNION {{Shown(recs, u, n, r) : r \in {q \in RoomId : recs[n].rooms[q] # "none"}} :
              n \in 1..Len(recs)}

InstancesOf(recs) == {recs[n].inst : n \in 1..Len(recs)}

ViewOf(recs, u) == [instances |-> InstancesOf(recs), rooms |-> ShownRooms(recs, u)]

\* Entries and Resolve, with the processes of the connections named.
EntryAt(recs, u, n, r) ==
    [inst |-> recs[n].inst, at |-> n, uid |-> u[recs[n].inst], raw |-> r,
     origin |-> recs[n].rooms[r]]
EntriesAt(recs, u) ==
    UNION {{EntryAt(recs, u, n, r) : r \in {q \in RoomId : recs[n].rooms[q] # "none"}} :
              n \in 1..Len(recs)}
ShownAs(e, all) == [inst |-> e.inst, at |-> e.at, raw |-> e.raw, id |-> PublicId(e, all)]
ResolveAt(recs, u) ==
    [instances |-> InstancesOf(recs),
     rooms |-> {ShownAs(e, EntriesAt(recs, u)) : e \in EntriesAt(recs, u)}]

LEMMA ShownMember ==
    ASSUME NEW recs, NEW u, NEW x
    PROVE  x \in ShownRooms(recs, u) <=>
              \E n \in 1..Len(recs), r \in RoomId :
                  recs[n].rooms[r] # "none" /\ x = Shown(recs, u, n, r)
  BY DEF ShownRooms

LEMMA EntryMember ==
    ASSUME NEW recs, NEW u, NEW e
    PROVE  e \in EntriesAt(recs, u) <=>
              \E n \in 1..Len(recs), r \in RoomId :
                  recs[n].rooms[r] # "none" /\ e = EntryAt(recs, u, n, r)
  BY DEF EntriesAt

\* An entry is shown under the id it keeps.
LEMMA ShownEntry ==
    ASSUME NEW recs, NEW u, NEW n \in 1..Len(recs), NEW r \in RoomId,
           recs[n].rooms[r] # "none"
    PROVE  ShownAs(EntryAt(recs, u, n, r), EntriesAt(recs, u)) = Shown(recs, u, n, r)
<1> DEFINE e == EntryAt(recs, u, n, r)
           all == EntriesAt(recs, u)
<1>1. ASSUME Keeps(recs, n, r), NEW f \in all \ {e}, f.raw = e.raw
      PROVE  Precedes(e, f)
  <2>1. PICK k \in 1..Len(recs), q \in RoomId :
           recs[k].rooms[q] # "none" /\ f = EntryAt(recs, u, k, q)
    BY <1>1, EntryMember
  <2>2. q = r /\ k # n
    BY <1>1, <2>1 DEF EntryAt
  <2> QED
    BY <1>1, <2>1, <2>2 DEF Keeps, Beats, Precedes, EntryAt
<1>2. ASSUME \A f \in all \ {e} : f.raw = e.raw => Precedes(e, f)
      PROVE  Keeps(recs, n, r)
  <2> SUFFICES ASSUME NEW k \in 1..Len(recs), k # n, recs[k].rooms[r] # "none"
               PROVE  Beats(recs, n, k, r)
    BY DEF Keeps
  <2> DEFINE f == EntryAt(recs, u, k, r)
  <2>1. f \in all /\ f # e /\ f.raw = e.raw
    BY EntryMember DEF EntryAt
  <2> QED
    BY <1>2, <2>1 DEF Beats, Precedes, EntryAt
<1>3. PublicId(e, all) = IdOf(recs, u, n, r)
  <2>1. e.raw = r /\ e.uid = u[recs[n].inst]
    BY DEF EntryAt
  <2> HIDE DEF e, all
  <2> QED
    BY <1>1, <1>2, <2>1 DEF PublicId, IdOf
<1> QED
  BY <1>3 DEF ShownAs, Shown, EntryAt

LEMMA ResolvedView ==
    ASSUME NEW recs, NEW u
    PROVE  ResolveAt(recs, u) = ViewOf(recs, u)
<1> DEFINE all == EntriesAt(recs, u)
<1>1. {ShownAs(e, all) : e \in all} = ShownRooms(recs, u)
  <2>1. ASSUME NEW e \in all PROVE ShownAs(e, all) \in ShownRooms(recs, u)
    <3>1. PICK n \in 1..Len(recs), r \in RoomId :
             recs[n].rooms[r] # "none" /\ e = EntryAt(recs, u, n, r)
      BY <2>1, EntryMember
    <3>2. ShownAs(e, all) = Shown(recs, u, n, r)
      BY <3>1, ShownEntry
    <3> QED
      BY <3>1, <3>2, ShownMember
  <2>2. ASSUME NEW x \in ShownRooms(recs, u) PROVE \E e \in all : x = ShownAs(e, all)
    <3>1. PICK n \in 1..Len(recs), r \in RoomId :
             recs[n].rooms[r] # "none" /\ x = Shown(recs, u, n, r)
      BY <2>2, ShownMember
    <3>2. EntryAt(recs, u, n, r) \in all
      BY <3>1, EntryMember
    <3> QED
      BY <3>1, <3>2, ShownEntry
  <2> QED
    BY <2>1, <2>2
<1> QED
  BY <1>1 DEF ResolveAt, ViewOf

\* The same of the model's operator, in this state and in the next.
LEMMA ResolveNow == \A recs : Resolve(recs) = ViewOf(recs, uid)
<1> TAKE recs
<1>1. Resolve(recs) = ResolveAt(recs, uid)
  BY DEF Resolve, ResolveAt, Entries, EntriesAt, EntryAt, ShownAs, InstancesOf
<1> QED
  BY <1>1, ResolvedView

LEMMA ResolveNext == Resolve(records)' = ViewOf(records', uid')
<1>1. Resolve(records)' = ResolveAt(records', uid')
  BY DEF Resolve, ResolveAt, Entries, EntriesAt, EntryAt, ShownAs, InstancesOf, PublicId, Precedes
<1> QED
  BY <1>1, ResolvedView

LEMMA RecordAt ==
    ASSUME NEW u, NEW recs, RecordsOf(recs, u), NEW n \in 1..Len(recs)
    PROVE  recs[n].inst \in 1..Len(u) /\ recs[n].rooms \in Rooms
<1> DEFINE R == [inst : 1..Len(u), rooms : Rooms]
<1>1. recs \in Seq(R)
  BY DEF RecordsOf
<1>2. recs[n] \in R
  <2> HIDE DEF R
  <2> QED
    BY <1>1
<1> QED
  BY <1>2

\* A view is not the dropped one.
LEMMA ViewSeen ==
    ASSUME NEW u \in Seq(Process), Len(u) <= MaxConnects, NEW recs, RecordsOf(recs, u)
    PROVE  ViewOf(recs, u) # NoView
<1>1. InstancesOf(recs) \subseteq Instance
  <2>1. \A n \in 1..Len(recs) : recs[n].inst \in 1..Len(u)
    BY RecordAt
  <2>2. 1..Len(u) \subseteq Instance
    BY ReadModelAssumption DEF Instance
  <2> QED
    BY <2>1, <2>2 DEF InstancesOf
<1>2. ASSUME NEW x \in ShownRooms(recs, u)
      PROVE  x \in [inst : Instance, at : Nat, raw : RoomId, id : Seq(RoomId \cup Process)]
  <2>1. PICK n \in 1..Len(recs), r \in RoomId : x = Shown(recs, u, n, r)
    BY <1>2, ShownMember
  <2>2. recs[n].inst \in 1..Len(u)
    BY RecordAt
  <2>3. recs[n].inst \in Instance
    BY <1>1 DEF InstancesOf
  <2>4. u[recs[n].inst] \in Process
    BY <2>2
  <2>5. IdOf(recs, u, n, r) \in Seq(RoomId \cup Process)
    <3> DEFINE p == u[recs[n].inst]
               Part == RoomId \cup Process
    <3>1. r \in Part /\ p \in Part
      BY <2>4
    <3>2. <<r>> \in Seq(Part) /\ <<p, r>> \in Seq(Part)
      <4> HIDE DEF Part, p
      <4> QED
        BY <3>1
    <3> QED
      BY <3>2 DEF IdOf
  <2> QED
    BY <2>1, <2>3, <2>5 DEF Shown
<1>3. ViewOf(recs, u) \in View
  BY <1>1, <1>2 DEF ViewOf, View
<1> QED
  BY <1>3, NoViewAssumption

-----------------------------------------------------------------------------
(* Who keeps a public id.                                                  *)

\* The instances that report a room.
Homes(recs, r) == {recs[n].inst : n \in {k \in 1..Len(recs) : recs[k].rooms[r] # "none"}}

LEMMA HomesShare ==
    ASSUME NEW recs, NEW r \in RoomId, NEW a \in Homes(recs, r), NEW b \in Homes(recs, r), a # b
    PROVE  r \in SharedNow(recs)
  BY DEF Homes, SharedNow, Reported

LEMMA HomesOfShown ==
    ASSUME NEW recs, NEW u, NEW x \in ShownRooms(recs, u)
    PROVE  x.raw \in RoomId /\ x.inst \in Homes(recs, x.raw)
<1>1. PICK n \in 1..Len(recs), r \in RoomId :
        recs[n].rooms[r] # "none" /\ x = Shown(recs, u, n, r)
  BY ShownMember
<1> QED
  BY <1>1 DEF Shown, Homes

\* A raw id stands for its own room; a longer one is no raw id.
LEMMA RawIds ==
    ASSUME NEW recs, NEW u, NEW r, NEW y \in ShownRooms(recs, u), y.id = <<r>>
    PROVE  y.raw = r
<1>1. PICK n \in 1..Len(recs), q \in RoomId : y = Shown(recs, u, n, q)
  BY ShownMember
<1>2. y.id = IdOf(recs, u, n, q) /\ y.raw = q
  BY <1>1 DEF Shown
<1>3. CASE Keeps(recs, n, q)
  <2>1. <<q>> = <<r>>
    BY <1>2, <1>3 DEF IdOf
  <2> QED
    BY <1>2, <2>1
<1>4. CASE ~Keeps(recs, n, q)
  <2>1. <<u[recs[n].inst], q>> = <<r>>
    BY <1>2, <1>4 DEF IdOf
  <2>2. Len(<<u[recs[n].inst], q>>) = 2 /\ Len(<<r>>) = 1
    OBVIOUS
  <2> QED
    BY <2>1, <2>2
<1> QED
  BY <1>3, <1>4

\* A room that is not shared has its raw id for itself.
LEMMA UnsharedId ==
    ASSUME NEW recs, NEW u, NEW x \in ShownRooms(recs, u), x.raw \notin SharedNow(recs)
    PROVE  /\ x.id = <<x.raw>>
           /\ \A y \in ShownRooms(recs, u) : y.id = x.id => y = x
<1>1. PICK n \in 1..Len(recs), r \in RoomId :
        recs[n].rooms[r] # "none" /\ x = Shown(recs, u, n, r)
  BY ShownMember
<1>2. x.raw = r
  BY <1>1 DEF Shown
<1>3. \A k \in 1..Len(recs) : k # n => recs[k].rooms[r] = "none"
  BY <1>1, <1>2 DEF SharedNow, Reported
<1>4. x.id = <<r>>
  <2>1. Keeps(recs, n, r)
    BY <1>3 DEF Keeps
  <2> QED
    BY <1>1, <2>1 DEF Shown, IdOf
<1>5. ASSUME NEW y \in ShownRooms(recs, u), y.id = x.id
      PROVE  y = x
  <2>1. PICK k \in 1..Len(recs), q \in RoomId :
          recs[k].rooms[q] # "none" /\ y = Shown(recs, u, k, q)
    BY <1>5, ShownMember
  <2>2. q = r
    BY <1>4, <1>5, <2>1, RawIds DEF Shown
  <2> QED
    BY <1>1, <1>3, <2>1, <2>2
<1> QED
  BY <1>2, <1>4, <1>5

-----------------------------------------------------------------------------
(* The events.                                                             *)

\* The view and what was made of it agree with records recs.
Mirrors(v, recs, u) ==
    /\ v = ViewOf(recs, u)
    /\ told = v.instances /\ joined = told
    /\ DOMAIN known = Ids(v)
    /\ recs # <<>> => synced = v
    /\ \A x \in v.rooms : x.raw \notin shared => known[x.id] = x.inst

LEMMA MirrorsNow == view # NoView => (EventsMirror <=> Mirrors(view, records, uid))
  BY ResolveNow DEF EventsMirror, Mirrors

LEMMA MirrorsNext == Mirrors(view, records, uid)' /\ (view # NoView)' => EventsMirror' /\ Unread'
  BY ResolveNext DEF EventsMirror, Mirrors, Unread

\* reconcile, when the records changed so that only removed instances are gone and no
\* room has a new home, but one that is shared.
LEMMA ReconcileStep ==
    ASSUME ReadInv, uid' = uid, RecordsOf(records', uid),
           shared \subseteq shared', Noted',
           NEW kept, NEW gone,
           kept = NoView \/ (kept = view /\ records' = records),
           Reconcile(records', kept, gone),
           InstancesOf(records) \ gone \subseteq InstancesOf(records'),
           \A r \in RoomId : \A a \in Homes(records, r), b \in Homes(records', r) :
              a = b \/ r \in shared'
    PROVE  EventsMirror' /\ Unread'
<1> DEFINE v == ViewOf(records', uid)
<1>1. Read(records', kept) = v
  <2>1. CASE kept = NoView
    BY <2>1, ResolveNow DEF Read
  <2>2. CASE kept # NoView
    BY <2>2, MirrorsNow DEF Read, ReadInv, Mirrors
  <2> QED
    BY <2>1, <2>2
<1>2. v # NoView
  BY ViewSeen DEF ReadInv, ReadTypes, Inventory
<1>3. /\ view' = v /\ joined' = v.instances /\ synced' = v
      /\ told' = (told \ gone) \cup (v.instances \ (joined \ gone))
      /\ known' = [id \in Ids(v) |-> IF id \in DOMAIN known THEN known[id]
                                      ELSE FirstOf(v, id).inst]
  <2> HIDE DEF v
  <2> QED
    BY <1>1 DEF Reconcile
<1>4. v.instances = InstancesOf(records') /\ v.rooms = ShownRooms(records', uid)
  BY DEF ViewOf
<1>5. told' = v.instances
  <2>1. joined = told
    BY DEF ReadInv, EventsMirror, Unread
  <2>2. told \subseteq InstancesOf(records)
    <3>1. CASE view = NoView
      BY <3>1 DEF ReadInv, EventsMirror
    <3>2. CASE view # NoView
      BY <3>2, MirrorsNow DEF ReadInv, Mirrors, ViewOf
    <3> QED
      BY <3>1, <3>2
  <2> HIDE DEF v
  <2> QED
    BY <1>3, <1>4, <2>1, <2>2
<1>6. ASSUME NEW x \in v.rooms, x.raw \notin shared'
      PROVE  known'[x.id] = x.inst
  <2>1. x.raw \notin SharedNow(records')
    BY <1>6 DEF Noted
  <2>2. /\ x.id = <<x.raw>>
        /\ \A y \in v.rooms : y.id = x.id => y = x
    BY <1>4, <1>6, <2>1, UnsharedId
  <2>3. x.raw \in RoomId /\ x.inst \in Homes(records', x.raw)
    BY <1>4, <1>6, HomesOfShown
  <2>4. x.id \in Ids(v)
    BY <1>2, <1>6 DEF Ids
  <2>5. CASE x.id \in DOMAIN known
    <3>1. view # NoView
      <4>1. known = <<>> => DOMAIN known = {}
        OBVIOUS
      <4> QED
        BY <2>5, <4>1 DEF ReadInv, EventsMirror
    <3>2. Mirrors(view, records, uid)
      BY <3>1, MirrorsNow DEF ReadInv
    <3>3. PICK y \in view.rooms : y.id = x.id
      BY <2>5, <3>1, <3>2 DEF Mirrors, Ids
    <3>4. y \in ShownRooms(records, uid)
      BY <3>2, <3>3 DEF Mirrors, ViewOf
    <3>5. y.raw = x.raw
      BY <2>2, <3>3, <3>4, RawIds
    <3>6. y.inst \in Homes(records, x.raw)
      BY <3>4, <3>5, HomesOfShown
    <3>7. y.inst = x.inst
      BY <1>6, <2>3, <3>6
    <3>8. known[y.id] = y.inst
      BY <1>6, <3>2, <3>3, <3>5 DEF Mirrors
    <3> HIDE DEF v
    <3> QED
      BY <1>3, <2>4, <2>5, <3>3, <3>7, <3>8
  <2>6. CASE x.id \notin DOMAIN known
    <3>1. Bearers(v, x.id) = {x}
      <4> HIDE DEF v
      <4> QED
        BY <1>6, <2>2 DEF Bearers
    <3>2. x.at <= x.at
      <4>1. PICK n \in 1..Len(records'), r \in RoomId : x = Shown(records', uid, n, r)
        BY <1>4, <1>6, ShownMember
      <4> QED
        BY <4>1 DEF Shown
    <3>3. FirstOf(v, x.id) = x
      BY <3>1, <3>2 DEF FirstOf
    <3> HIDE DEF v
    <3> QED
      BY <1>3, <2>4, <2>6, <3>3
  <2> QED
    BY <2>5, <2>6
<1>7. DOMAIN known' = Ids(v)
  <2> HIDE DEF v
  <2> QED
    BY <1>3
<1>8. Mirrors(view, records, uid)'
  BY <1>3, <1>5, <1>6, <1>7 DEF Mirrors, Ids
<1> QED
  BY <1>2, <1>3, <1>8, MirrorsNext

-----------------------------------------------------------------------------
(* How the records change.                                                 *)

RecordsAfterPut(recs, i) ==
    /\ \A n \in 1..Len(records) :
          /\ n \in 1..Len(recs) /\ recs[n].inst = records[n].inst
          /\ records[n].inst # i => recs[n] = records[n]
    /\ \A n \in 1..Len(recs) : recs[n].inst = i \/ n \in 1..Len(records)

\* applySnapshot changes the record of one instance, or makes it.
LEMMA PutRecords ==
    ASSUME RecordsOf(records, uid), NEW i \in 1..Len(uid), NEW rooms \in Rooms
    PROVE  RecordsOf(Put(i, rooms), uid) /\ RecordsAfterPut(Put(i, rooms), i)
<1> DEFINE R == [inst : 1..Len(uid), rooms : Rooms]
           rec == [inst |-> i, rooms |-> rooms]
<1>1. records \in Seq(R) /\ rec \in R
  BY DEF RecordsOf
<1>2. CASE RecordOf(i) = {}
  <2> DEFINE q == Append(records, rec)
  <2>1. Put(i, rooms) = q
    BY <1>2 DEF Put
  <2>2. /\ q \in Seq(R) /\ Len(q) = Len(records) + 1 /\ q[Len(q)] = rec
        /\ Len(records) \in Nat
        /\ \A n \in 1..Len(records) : n \in 1..Len(q) /\ q[n] = records[n]
    <3> HIDE DEF R, rec
    <3> QED
      BY <1>1
  <2>3. \A n \in 1..Len(q) : n \in 1..Len(records) \/ n = Len(q)
    BY <2>2
  <2>4. \A n \in 1..Len(records) : records[n].inst # i
    BY <1>2 DEF RecordOf
  <2>5. q[Len(q)].inst = i
    BY <2>2
  <2>6. \A k, n \in 1..Len(q) : q[k].inst = q[n].inst => k = n
    <3> HIDE DEF q
    <3> QED
      BY <2>2, <2>3, <2>4, <2>5 DEF RecordsOf
  <2>7. RecordsOf(q, uid)
    BY <2>2, <2>6 DEF RecordsOf
  <2>8. RecordsAfterPut(q, i)
    <3> HIDE DEF q
    <3> QED
      BY <2>2, <2>3, <2>4, <2>5 DEF RecordsAfterPut
  <2> QED
    BY <2>1, <2>7, <2>8
<1>3. CASE RecordOf(i) # {}
  <2> DEFINE q == [n \in 1..Len(records) |->
                     IF records[n].inst = i THEN [records[n] EXCEPT !.rooms = rooms]
                                            ELSE records[n]]
  <2>1. Put(i, rooms) = q
    BY <1>3 DEF Put
  <2>2. \A n \in 1..Len(records) : records[n] \in R
    <3> HIDE DEF R
    <3> QED
      BY <1>1
  <2>3. \A n \in 1..Len(records) :
          q[n] \in R /\ q[n].inst = records[n].inst
            /\ (records[n].inst # i => q[n] = records[n])
    BY <2>2
  <2>4. q \in Seq(R) /\ Len(q) = Len(records)
    <3>1. Len(records) \in Nat
      BY <1>1
    <3> HIDE DEF R
    <3> QED
      BY <2>3, <3>1
  <2>5. \A k, n \in 1..Len(q) : q[k].inst = q[n].inst => k = n
    BY <2>3, <2>4 DEF RecordsOf
  <2>6. RecordsOf(q, uid)
    BY <2>4, <2>5 DEF RecordsOf
  <2>7. RecordsAfterPut(q, i)
    <3> HIDE DEF q
    <3> QED
      BY <2>3, <2>4 DEF RecordsAfterPut
  <2> QED
    BY <2>1, <2>6, <2>7
<1> QED
  BY <1>2, <1>3

\* Where the reports of an instance put it, nothing moves unless it is shared.
LEMMA PutHomes ==
    ASSUME NEW recs, NEW i, RecordsAfterPut(recs, i)
    PROVE  /\ InstancesOf(records) \subseteq InstancesOf(recs)
           /\ \A r \in RoomId : \A a \in Homes(records, r), b \in Homes(recs, r) :
                 a = b \/ r \in SharedNow(records) \/ r \in SharedNow(recs)
<1>1. InstancesOf(records) \subseteq InstancesOf(recs)
  BY DEF InstancesOf, RecordsAfterPut
<1>2. ASSUME NEW r \in RoomId, NEW a \in Homes(records, r), NEW b \in Homes(recs, r), a # b
      PROVE  r \in SharedNow(records) \/ r \in SharedNow(recs)
  <2>1. a # i => a \in Homes(recs, r)
    BY <1>2 DEF Homes, RecordsAfterPut
  <2>2. b # i => b \in Homes(records, r)
    BY <1>2 DEF Homes, RecordsAfterPut
  <2> QED
    BY <1>2, <2>1, <2>2, HomesShare
<1> QED
  BY <1>1, <1>2

RecordsAfterRemove(recs, i) ==
    /\ \A n \in 1..Len(recs) : \E k \in 1..Len(records) : recs[n] = records[k]
    /\ \A k, n \in 1..Len(recs) : recs[k].inst = recs[n].inst => k = n
    /\ \A k \in 1..Len(records) :
          records[k].inst # i => \E n \in 1..Len(recs) : recs[n] = records[k]

\* removeInstance takes out one record.
LEMMA RemoveRecords ==
    ASSUME RecordsOf(records, uid), NEW i
    PROVE  RecordsOf(RemoveInstance(i), uid) /\ RecordsAfterRemove(RemoveInstance(i), i)
<1> DEFINE R == [inst : 1..Len(uid), rooms : Rooms]
<1>1. records \in Seq(R)
  BY DEF RecordsOf
<1>2. CASE RecordOf(i) = {}
  <2>1. RemoveInstance(i) = records
    BY <1>2 DEF RemoveInstance
  <2> QED
    BY <2>1 DEF RecordsAfterRemove, RecordsOf
<1>3. CASE RecordOf(i) # {}
  <2> DEFINE j == CHOOSE k \in RecordOf(i) : TRUE
             Old(n) == IF n < j THEN n ELSE n + 1
             q == [n \in 1..Len(records) - 1 |-> records[Old(n)]]
  <2>1. RemoveInstance(i) = q
    BY <1>3 DEF RemoveInstance
  <2>2. j \in 1..Len(records) /\ records[j].inst = i /\ Len(records) \in Nat
    <3>1. j \in RecordOf(i)
      BY <1>3
    <3>2. Len(records) \in Nat
      BY <1>1
    <3> HIDE DEF j
    <3> QED
      BY <3>1, <3>2 DEF RecordOf
  <2> HIDE DEF j
  <2>3. \A n \in 1..Len(records) - 1 : Old(n) \in 1..Len(records) /\ q[n] = records[Old(n)]
    BY <2>2
  <2>4. \A n \in 1..Len(records) : records[n] \in R
    <3> HIDE DEF R
    <3> QED
      BY <1>1
  <2>5. q \in Seq(R) /\ Len(q) = Len(records) - 1
    <3>1. \A n \in 1..Len(records) - 1 : q[n] \in R
      <4> HIDE DEF q, R, Old
      <4> QED
        BY <2>3, <2>4
    <3>2. Len(records) - 1 \in Nat
      BY <2>2
    <3> HIDE DEF R
    <3> QED
      BY <3>1, <3>2
  <2>6. \A k, n \in 1..Len(q) : Old(k) = Old(n) => k = n
    BY <2>2, <2>5
  <2>7. \A k, n \in 1..Len(q) : q[k].inst = q[n].inst => k = n
    <3> SUFFICES ASSUME NEW k \in 1..Len(q), NEW n \in 1..Len(q), q[k].inst = q[n].inst
                 PROVE  k = n
      OBVIOUS
    <3> HIDE DEF q, Old
    <3>1. k \in 1..Len(records) - 1 /\ n \in 1..Len(records) - 1
      BY <2>5
    <3>2. /\ Old(k) \in 1..Len(records) /\ q[k] = records[Old(k)]
          /\ Old(n) \in 1..Len(records) /\ q[n] = records[Old(n)]
      BY <2>3, <3>1
    <3>3. Old(k) = Old(n)
      BY <3>2 DEF RecordsOf
    <3> QED
      BY <2>6, <3>3
  <2>8. \A k \in 1..Len(records) :
          records[k].inst # i => \E n \in 1..Len(q) : q[n] = records[k]
    <3> SUFFICES ASSUME NEW k \in 1..Len(records), records[k].inst # i
                 PROVE  \E n \in 1..Len(q) : q[n] = records[k]
      OBVIOUS
    <3> DEFINE n == IF k < j THEN k ELSE k - 1
    <3>1. n \in 1..Len(q) /\ Old(n) = k
      <4>1. k # j
        BY <2>2
      <4>2. Len(q) = Len(records) - 1
        BY <2>5
      <4> HIDE DEF q
      <4> QED
        BY <2>2, <4>1, <4>2
    <3> HIDE DEF n, Old, q
    <3> QED
      BY <2>3, <2>5, <3>1
  <2>9. \A n \in 1..Len(q) : \E k \in 1..Len(records) : q[n] = records[k]
    <3> HIDE DEF q, Old
    <3> QED
      BY <2>3, <2>5
  <2> HIDE DEF q, Old
  <2> QED
    BY <2>1, <2>5, <2>7, <2>8, <2>9 DEF RecordsAfterRemove, RecordsOf
<1> QED
  BY <1>2, <1>3

\* A removal moves nothing, and what is shared after it was shared before.
LEMMA RemoveHomes ==
    ASSUME NEW recs, NEW i, RecordsAfterRemove(recs, i), RecordsOf(records, uid)
    PROVE  /\ InstancesOf(records) \ {i} \subseteq InstancesOf(recs)
           /\ SharedNow(recs) \subseteq SharedNow(records)
           /\ \A r \in RoomId : \A a \in Homes(records, r), b \in Homes(recs, r) :
                 a = b \/ r \in SharedNow(records)
<1>1. InstancesOf(records) \ {i} \subseteq InstancesOf(recs)
  <2> SUFFICES ASSUME NEW k \in 1..Len(records), records[k].inst # i
               PROVE  records[k].inst \in InstancesOf(recs)
    BY DEF InstancesOf
  <2>1. PICK n \in 1..Len(recs) : recs[n] = records[k]
    BY DEF RecordsAfterRemove
  <2> QED
    BY <2>1 DEF InstancesOf
<1>2. \A r \in RoomId : Homes(recs, r) \subseteq Homes(records, r)
  BY DEF Homes, RecordsAfterRemove
<1>3. ASSUME NEW r \in SharedNow(recs)
      PROVE  r \in SharedNow(records)
  <2>1. PICK k \in 1..Len(recs), n \in 1..Len(recs) :
          k # n /\ recs[k].rooms[r] # "none" /\ recs[n].rooms[r] # "none"
    BY DEF SharedNow, Reported
  <2>2. recs[k].inst # recs[n].inst
    BY <2>1 DEF RecordsAfterRemove
  <2>3. /\ r \in RoomId
        /\ recs[k].inst \in Homes(recs, r) /\ recs[n].inst \in Homes(recs, r)
    BY <2>1 DEF Homes, SharedNow
  <2> QED
    BY <1>2, <2>2, <2>3, HomesShare
<1> QED
  BY <1>1, <1>2, <1>3, HomesShare

-----------------------------------------------------------------------------
(* The steps.                                                              *)

LEMMA NothingThere == Nothing \in Rooms
  BY DEF Nothing, Rooms

\* A read fills the memo with what it would have been.
LEMMA ReadStep ==
    ASSUME ReadInv, UNCHANGED <<records, events, shared>>,
           ViewOf(records, uid') = ViewOf(records, uid),
           view' = view \/ view' = Read(records, view)
    PROVE  Unread' /\ Noted' /\ EventsMirror'
<1>1. Noted'
  BY DEF ReadInv, Noted, SharedNow, Reported
<1>2. CASE view' = NoView
  <2>1. view = NoView
    BY <1>2 DEF Read
  <2> QED
    BY <1>1, <1>2, <2>1 DEF ReadInv, Unread, EventsMirror, events
<1>3. CASE view' # NoView /\ view # NoView
  <2>1. view' = view
    BY <1>3 DEF Read
  <2>2. Mirrors(view, records, uid)
    BY <1>3, MirrorsNow DEF ReadInv
  <2>3. Mirrors(view, records, uid)'
    BY <2>1, <2>2 DEF Mirrors, events, Ids
  <2> QED
    BY <1>1, <1>3, <2>3, MirrorsNext
<1>4. CASE view' # NoView /\ view = NoView
  <2>1. /\ records = <<>> /\ told = {} /\ known = <<>> /\ joined = {}
    BY <1>4 DEF ReadInv, EventsMirror, Unread
  <2>2. view' = ViewOf(records', uid')
    BY <1>4, ResolveNow DEF Read
  <2>3. InstancesOf(records') = {} /\ ShownRooms(records', uid') = {}
    <3>1. 1..Len(records') = {}
      BY <2>1
    <3> QED
      BY <3>1 DEF InstancesOf, ShownRooms
  <2>4. view'.instances = {} /\ view'.rooms = {}
    BY <2>2, <2>3 DEF ViewOf
  <2>5. DOMAIN known' = {} /\ Ids(view') = {}
    BY <2>1, <2>4 DEF Ids, events
  <2>6. Mirrors(view, records, uid)'
    BY <2>1, <2>2, <2>4, <2>5 DEF Mirrors, events, Ids
  <2> QED
    BY <1>1, <1>4, <2>6, MirrorsNext
<1> QED
  BY <1>2, <1>3, <1>4

\* A new connection has no record yet.
LEMMA ConnectionGrows ==
    ASSUME NEW u \in Seq(Process), NEW p \in Process, RecordsOf(records, u)
    PROVE  /\ RecordsOf(records, Append(u, p))
           /\ ViewOf(records, Append(u, p)) = ViewOf(records, u)
<1> DEFINE w == Append(u, p)
<1>1. /\ Len(u) \in Nat /\ Len(w) = Len(u) + 1
      /\ \A i \in 1..Len(u) : i \in 1..Len(w) /\ w[i] = u[i]
  OBVIOUS
<1>2. \A n \in 1..Len(records) :
        /\ records[n] \in [inst : 1..Len(u), rooms : Rooms]
        /\ records[n].inst \in 1..Len(u)
  <2> DEFINE R == [inst : 1..Len(u), rooms : Rooms]
  <2>1. records \in Seq(R)
    BY DEF RecordsOf
  <2>2. \A n \in 1..Len(records) : records[n] \in R
    <3> HIDE DEF R
    <3> QED
      BY <2>1
  <2> QED
    BY <2>2
<1> HIDE DEF w
<1>3. RecordsOf(records, w)
  <2> DEFINE R == [inst : 1..Len(w), rooms : Rooms]
  <2>1. \A n \in 1..Len(records) : records[n] \in R
    BY <1>1, <1>2
  <2>2. Len(records) \in Nat /\ records = [n \in 1..Len(records) |-> records[n]]
    BY DEF RecordsOf
  <2>3. records \in Seq(R)
    <3> HIDE DEF R
    <3> QED
      BY <2>1, <2>2
  <2> QED
    BY <2>3 DEF RecordsOf
<1>4. \A n \in 1..Len(records), r \in RoomId : Shown(records, w, n, r) = Shown(records, u, n, r)
  BY <1>1, <1>2 DEF Shown, IdOf
<1>5. ShownRooms(records, w) = ShownRooms(records, u)
  <2>1. \A x : x \in ShownRooms(records, w) <=> x \in ShownRooms(records, u)
    BY <1>4, ShownMember
  <2> QED
    BY <2>1 DEF ShownRooms
<1> QED
  BY <1>3, <1>5 DEF ViewOf, w

\* What applySnapshot and reconcile do with a report.
LEMMA SnapshotStep ==
    ASSUME ReadInv, uid' = uid, NEW i \in 1..Len(uid), NEW rooms \in Rooms,
           ApplySnapshot(i, rooms)
    PROVE  RecordsOf(records, uid)' /\ Unread' /\ Noted' /\ EventsMirror'
<1>1. RecordsOf(records, uid)
  BY DEF ReadInv, ReadTypes, Inventory
<1>2. RecordsOf(records', uid) /\ RecordsAfterPut(records', i)
  BY <1>1, PutRecords DEF ApplySnapshot
<1>3. shared' = shared \cup SharedNow(records') /\ Reconcile(records', NoView, {})
  BY DEF ApplySnapshot
<1>4. Noted'
  BY <1>3 DEF Noted, SharedNow, Reported
<1>5. \A r \in RoomId : \A a \in Homes(records, r), b \in Homes(records', r) :
         a = b \/ r \in shared'
  BY <1>2, <1>3, PutHomes DEF ReadInv, Noted
<1>6. InstancesOf(records) \ {} \subseteq InstancesOf(records')
  BY <1>2, PutHomes
<1>7. EventsMirror' /\ Unread'
  <2> DEFINE none == NoView
             gone == {}
  <2>1. /\ Reconcile(records', none, gone) /\ none = NoView
        /\ InstancesOf(records) \ gone \subseteq InstancesOf(records')
    BY <1>3, <1>6
  <2>2. shared \subseteq shared'
    BY <1>3
  <2> HIDE DEF none, gone
  <2> QED
    BY <1>2, <1>4, <1>5, <2>1, <2>2, ReconcileStep
<1>8. RecordsOf(records, uid)'
  BY <1>2 DEF RecordsOf
<1> QED
  BY <1>4, <1>7, <1>8

\* What teardownInstance does, for an instance that reported and one that did not.
LEMMA TeardownStep ==
    ASSUME ReadInv, uid' = uid, shared' = shared, NEW i, Teardown(i)
    PROVE  /\ links' \subseteq links /\ carried' \in [Instance -> Rooms]
           /\ RecordsOf(records, uid)' /\ Unread' /\ Noted' /\ EventsMirror'
<1>1. links' \subseteq links /\ carried' \in [Instance -> Rooms]
  BY NothingThere DEF Teardown, ReadInv, ReadTypes, Inventory
<1>2. RecordsOf(records, uid)
  BY DEF ReadInv, ReadTypes, Inventory
<1>3. RecordsOf(records', uid) /\ RecordsAfterRemove(records', i)
  BY <1>2, RemoveRecords DEF Teardown
<1>4. RecordsOf(records, uid)'
  BY <1>3 DEF RecordsOf
<1>5. SharedNow(records') \subseteq SharedNow(records)
  BY <1>2, <1>3, RemoveHomes
<1>6. Noted'
  BY <1>5 DEF Noted, ReadInv, SharedNow, Reported
<1>7. \A r \in RoomId : \A a \in Homes(records, r), b \in Homes(records', r) :
         a = b \/ r \in shared'
  BY <1>2, <1>3, RemoveHomes DEF ReadInv, Noted
<1>8. CASE RecordOf(i) = {}
  <2>1. records' = records /\ Reconcile(records', view, {})
    BY <1>8 DEF Teardown, RemoveInstance
  <2> DEFINE kept == view
             gone == {}
  <2>2. /\ Reconcile(records', kept, gone) /\ kept = view /\ records' = records
        /\ InstancesOf(records) \ gone \subseteq InstancesOf(records')
    BY <2>1
  <2> HIDE DEF kept, gone
  <2>3. EventsMirror' /\ Unread'
    BY <1>3, <1>6, <1>7, <2>2, ReconcileStep
  <2> QED
    BY <1>1, <1>4, <1>6, <2>3
<1>9. CASE RecordOf(i) # {}
  <2> DEFINE kept == NoView
             gone == {i}
  <2>1. /\ Reconcile(records', kept, gone) /\ kept = NoView
        /\ InstancesOf(records) \ gone \subseteq InstancesOf(records')
    BY <1>2, <1>3, <1>9, RemoveHomes DEF Teardown
  <2> HIDE DEF kept, gone
  <2>2. EventsMirror' /\ Unread'
    BY <1>3, <1>6, <1>7, <2>1, ReconcileStep
  <2> QED
    BY <1>1, <1>4, <1>6, <2>2
<1> QED
  BY <1>8, <1>9

\* A step that changes no record.
LEMMA QuietStep ==
    ASSUME ReadInv, UNCHANGED <<records, events, shared, uid>>, Inventory',
           view' = view \/ view' = Read(records, view)
    PROVE  ReadInv'
<1>1. RecordsOf(records, uid)'
  BY DEF ReadInv, ReadTypes, Inventory, RecordsOf
<1>2. ViewOf(records, uid') = ViewOf(records, uid)
  OBVIOUS
<1>3. Unread' /\ Noted' /\ EventsMirror'
  BY <1>2, ReadStep
<1> QED
  BY <1>1, <1>3 DEF ReadInv, ReadTypes, Inventory

LEMMA ReadInit == Init => ReadInv
<1> SUFFICES ASSUME Init PROVE ReadInv
  OBVIOUS
<1>1. uid = <<>> /\ records = <<>> /\ Len(uid) = 0 /\ Len(records) = 0 /\ MaxConnects \in Nat
  BY ReadModelAssumption DEF Init
<1>2. Inventory
  BY <1>1, NothingThere DEF Init, Inventory
<1>3. RecordsOf(records, uid)
  BY <1>1 DEF RecordsOf
<1>4. Noted
  BY <1>1 DEF Noted, SharedNow
<1> QED
  BY <1>2, <1>3, <1>4 DEF Init, ReadInv, ReadTypes, Inventory, Unread, EventsMirror

LEMMA JoinStep ==
    ASSUME ReadInv, NEW p \in Process, Join(p)
    PROVE  ReadInv'
<1> DEFINE i == Len(uid) + 1
<1>1. /\ uid' = Append(uid, p) /\ Len(uid) < MaxConnects
      /\ link' = [link EXCEPT ![p] = i] /\ links' = links \cup {i}
      /\ view' = Read(records, view)
      /\ UNCHANGED <<hosted, carried, records, events, shared>>
  BY DEF Join, Connects, history
<1>2. /\ uid \in Seq(Process) /\ Len(uid) \in Nat /\ MaxConnects \in Nat
      /\ RecordsOf(records, uid)
  BY ReadModelAssumption DEF ReadInv, ReadTypes, Inventory
<1>3. uid' \in Seq(Process) /\ Len(uid') = Len(uid) + 1 /\ Len(uid') <= MaxConnects
  BY <1>1, <1>2
<1>4. link' \in [Process -> 0..Len(uid')] /\ links' \subseteq 1..Len(uid')
  <2>1. 0..Len(uid) \subseteq 0..Len(uid') /\ i \in 0..Len(uid') /\ i \in 1..Len(uid')
    BY <1>2, <1>3
  <2>2. link \in [Process -> 0..Len(uid)] /\ links \subseteq 1..Len(uid)
    BY DEF ReadInv, ReadTypes, Inventory
  <2>3. 1..Len(uid) \subseteq 1..Len(uid')
    BY <1>2, <1>3
  <2> HIDE DEF i
  <2> QED
    BY <1>1, <2>1, <2>2, <2>3
<1>5. Inventory'
  BY <1>1, <1>3, <1>4 DEF ReadInv, ReadTypes, Inventory
<1>6. RecordsOf(records, uid') /\ ViewOf(records, uid') = ViewOf(records, uid)
  BY <1>1, <1>2, ConnectionGrows
<1>7. RecordsOf(records, uid)'
  BY <1>1, <1>6 DEF RecordsOf
<1>8. Unread' /\ Noted' /\ EventsMirror'
  BY <1>1, <1>6, ReadStep
<1> QED
  BY <1>5, <1>7, <1>8 DEF ReadInv, ReadTypes, Inventory

LEMMA AnswerStep ==
    ASSUME ReadInv, NEW p \in Process, Answer(p)
    PROVE  ReadInv'
<1> DEFINE i == link[p]
<1>1. PICK said \in {Nothing, hosted[p]} : carried' = [carried EXCEPT ![i] = said]
  BY DEF Answer
<1>2. said \in Rooms
  BY <1>1, NothingThere DEF ReadInv, ReadTypes, Inventory
<1>3. Inventory'
  BY <1>1, <1>2 DEF Answer, ReadInv, ReadTypes, Inventory, agents
<1> QED
  BY <1>3, QuietStep DEF Answer, agents, model, history

LEMMA LosesStep ==
    ASSUME ReadInv, NEW p \in Process, Loses(p)
    PROVE  ReadInv'
<1>1. Len(uid) \in Nat
  BY DEF ReadInv, ReadTypes, Inventory
<1>2. Inventory'
  BY <1>1 DEF Loses, ReadInv, ReadTypes, Inventory, poller
<1> QED
  BY <1>2, QuietStep DEF Loses, model, poller

\* A room is made or destroyed; who did it does not matter.
LEMMA ChangeStep ==
    ASSUME ReadInv, NEW p, NEW r, NEW origin \in Origin \cup {"none"}, Change(p, r, origin)
    PROVE  ReadInv'
<1>1. hosted' \in [Process -> Rooms]
  BY DEF Change, ReadInv, ReadTypes, Inventory, Rooms
<1>2. Inventory'
  BY <1>1 DEF Change, ReadInv, ReadTypes, Inventory, poller
<1> QED
  BY <1>2, QuietStep DEF Change, model, poller

\* A connection is given up, by the poller or by its end.
LEMMA RemovalStep ==
    ASSUME ReadInv, NEW i, Teardown(i), UNCHANGED <<agents, shared>>
    PROVE  ReadInv'
<1>1. uid' = uid /\ shared' = shared
  BY DEF agents
<1>2. /\ links' \subseteq links /\ carried' \in [Instance -> Rooms]
      /\ RecordsOf(records, uid)' /\ Unread' /\ Noted' /\ EventsMirror'
  BY <1>1, TeardownStep
<1> QED
  BY <1>2 DEF ReadInv, ReadTypes, Inventory, agents

LEMMA TickStep ==
    ASSUME ReadInv, NEW i \in Instance, Tick(i)
    PROVE  ReadInv'
<1>1. CASE wire[i] = "idle"
  BY <1>1, QuietStep DEF Tick, agents, ReadInv, ReadTypes, Inventory
<1>2. CASE wire[i] # "idle" /\ missed[i] + 1 < EvictAfter
           /\ UNCHANGED <<links, wire, carried, model, events, faults, shared>>
  BY <1>2, QuietStep DEF Tick, agents, model, ReadInv, ReadTypes, Inventory
<1>3. CASE Teardown(i) /\ UNCHANGED <<agents, shared>>
  BY <1>3, RemovalStep
<1> QED
  BY <1>1, <1>2, <1>3 DEF Tick

LEMMA HandleStateStep ==
    ASSUME ReadInv, NEW i \in Instance, HandleState(i)
    PROVE  ReadInv'
<1>1. /\ carried' = [carried EXCEPT ![i] = Nothing] /\ i \in links
      /\ UNCHANGED <<agents, links>>
  BY DEF HandleState
<1>2. Inventory'
  BY <1>1, NothingThere DEF agents, ReadInv, ReadTypes, Inventory
<1>3. CASE wire[i] = "same"
  BY <1>1, <1>2, <1>3, QuietStep DEF HandleState, agents, model
<1>4. CASE wire[i] # "same"
  <2>1. ApplySnapshot(i, carried[i]) /\ uid' = uid
    BY <1>1, <1>4 DEF HandleState, agents
  <2>2. i \in 1..Len(uid) /\ carried[i] \in Rooms
    BY <1>1 DEF ReadInv, ReadTypes, Inventory
  <2> DEFINE rooms == carried[i]
  <2>3. ApplySnapshot(i, rooms) /\ rooms \in Rooms
    BY <2>1, <2>2
  <2> HIDE DEF rooms
  <2>4. RecordsOf(records, uid)' /\ Unread' /\ Noted' /\ EventsMirror'
    BY <2>1, <2>2, <2>3, SnapshotStep
  <2> QED
    BY <1>2, <2>4 DEF ReadInv, ReadTypes, Inventory
<1> QED
  BY <1>3, <1>4

LEMMA RestartStep ==
    ASSUME ReadInv, Restart
    PROVE  ReadInv'
<1>1. Len(records') = 0 /\ records' = <<>> /\ links' = {}
  BY DEF Restart
<1>2. RecordsOf(records, uid)'
  BY <1>1 DEF RecordsOf
<1>3. Noted'
  BY <1>1 DEF Noted, SharedNow
<1>4. Unread' /\ EventsMirror'
  BY DEF Restart, Unread, EventsMirror
<1>5. Inventory'
  BY <1>1, NothingThere DEF Restart, agents, ReadInv, ReadTypes, Inventory
<1> QED
  BY <1>2, <1>3, <1>4, <1>5 DEF ReadInv, ReadTypes, Inventory

LEMMA ReadModelStep == ReadInv /\ [Next]_vars => ReadInv'
<1> SUFFICES ASSUME ReadInv, [Next]_vars PROVE ReadInv'
  OBVIOUS
<1>1. CASE UNCHANGED vars
  BY <1>1, QuietStep DEF vars, agents, poller, model, history, ReadInv, ReadTypes, Inventory
<1>2. ASSUME NEW p \in Process, Join(p) \/ Answer(p) \/ Loses(p)
      PROVE  ReadInv'
  BY <1>2, JoinStep, AnswerStep, LosesStep
<1>3. ASSUME NEW i \in Instance, Tick(i) \/ Leave(i) \/ HandleState(i)
      PROVE  ReadInv'
  BY <1>3, TickStep, RemovalStep, HandleStateStep DEF Leave
<1>4. ASSUME NEW p \in Process, NEW r \in RoomId,
             LocalCreate(p, r) \/ FleetCreate(p, r) \/ LocalDestroy(p, r)
      PROVE  ReadInv'
  BY <1>4, ChangeStep DEF LocalCreate, FleetCreate, LocalDestroy, Origin
<1>5. ASSUME NEW id \in Ids(view), DestroyRoom(id)
      PROVE  ReadInv'
  BY <1>5, ChangeStep DEF DestroyRoom, Origin
<1>6. CASE Restart
  BY <1>6, RestartStep
<1> QED
  BY <1>1, <1>2, <1>3, <1>4, <1>5, <1>6 DEF Next

-----------------------------------------------------------------------------
(* What readers may count on.                                              *)

\* Of two rooms under one raw id, not both keep it.
LEMMA OneKeeper ==
    ASSUME NEW recs, NEW u, RecordsOf(recs, u),
           NEW n \in 1..Len(recs), NEW k \in 1..Len(recs), NEW r \in RoomId,
           recs[n].rooms[r] # "none", recs[k].rooms[r] # "none",
           Keeps(recs, n, r), Keeps(recs, k, r)
    PROVE  n = k
<1> SUFFICES ASSUME n # k PROVE FALSE
  OBVIOUS
<1>1. Beats(recs, n, k, r) /\ Beats(recs, k, n, r)
  BY DEF Keeps
<1> QED
  BY <1>1 DEF Beats

\* Rooms with one public id are of one process.
LEMMA OneProcess ==
    ASSUME NEW recs, NEW u, RecordsOf(recs, u),
           NEW x \in ShownRooms(recs, u), NEW y \in ShownRooms(recs, u), x.id = y.id
    PROVE  u[x.inst] = u[y.inst]
<1>1. PICK n \in 1..Len(recs), r \in RoomId :
        recs[n].rooms[r] # "none" /\ x = Shown(recs, u, n, r)
  BY ShownMember
<1>2. PICK k \in 1..Len(recs), q \in RoomId :
        recs[k].rooms[q] # "none" /\ y = Shown(recs, u, k, q)
  BY ShownMember
<1>3. CASE Keeps(recs, n, r)
  <2>1. x.id = <<r>> /\ x.raw = r
    BY <1>1, <1>3 DEF Shown, IdOf
  <2>2. q = r
    BY <1>2, <2>1, RawIds DEF Shown
  <2>3. Keeps(recs, k, q)
    <3> SUFFICES ASSUME ~Keeps(recs, k, q) PROVE FALSE
      OBVIOUS
    <3>1. <<u[recs[k].inst], q>> = <<r>>
      BY <1>2, <2>1 DEF Shown, IdOf
    <3>2. Len(<<u[recs[k].inst], q>>) = 2 /\ Len(<<r>>) = 1
      OBVIOUS
    <3> QED
      BY <3>1, <3>2
  <2>4. n = k
    BY <1>1, <1>2, <1>3, <2>2, <2>3, OneKeeper
  <2> QED
    BY <1>1, <1>2, <2>4 DEF Shown
<1>4. CASE Keeps(recs, k, q)
  <2>1. y.id = <<q>> /\ y.raw = q
    BY <1>2, <1>4 DEF Shown, IdOf
  <2>2. r = q
    BY <1>1, <2>1, RawIds DEF Shown
  <2>3. CASE Keeps(recs, n, r)
    BY <1>3, <2>3
  <2>4. CASE ~Keeps(recs, n, r)
    <3>1. <<u[recs[n].inst], r>> = <<q>>
      BY <1>1, <2>1, <2>4 DEF Shown, IdOf
    <3>2. Len(<<u[recs[n].inst], r>>) = 2 /\ Len(<<q>>) = 1
      OBVIOUS
    <3> QED
      BY <3>1, <3>2
  <2> QED
    BY <2>3, <2>4
<1>5. CASE ~Keeps(recs, n, r) /\ ~Keeps(recs, k, q)
  <2>1. x.id = <<u[recs[n].inst], r>> /\ y.id = <<u[recs[k].inst], q>>
    BY <1>1, <1>2, <1>5 DEF Shown, IdOf
  <2>2. x.inst = recs[n].inst /\ y.inst = recs[k].inst
    BY <1>1, <1>2 DEF Shown
  <2> DEFINE a == u[recs[n].inst]
             b == u[recs[k].inst]
  <2>3. <<a, r>> = <<b, q>>
    BY <1>5, <2>1
  <2>4. a = b
    <3> HIDE DEF a, b
    <3>1. <<a, r>>[1] = <<b, q>>[1]
      BY <2>3
    <3> QED
      BY <3>1
  <2> QED
    BY <2>2, <2>4
<1> QED
  BY <1>3, <1>4, <1>5

LEMMA ViewOfRecords == ReadInv /\ view # NoView => view.rooms = ShownRooms(records, uid)
  BY MirrorsNow DEF ReadInv, Mirrors, ViewOf

\* The inductive invariant of the read model.
THEOREM ReadInvariant == Spec => []ReadInv
<1> QED
  BY ReadInit, ReadModelStep, PTL DEF Spec

\* Nobody reads a stale memo, and who follows the events knows the instances, the rooms
\* and, unless two instances ever reported one raw id, where they are (resolve,
\* invalidate, EventReconciler.reconcile).
THEOREM MirrorsAlways == Spec => []EventsMirror
<1>1. ReadInv => EventsMirror
  BY DEF ReadInv
<1> QED
  BY <1>1, ReadInvariant, PTL

\* A public id stands for rooms of one process only (compareForCanonical, resolve).
THEOREM IdsOfOneProcess == Spec => []OneIdOneProcess
<1>1. ReadInv => OneIdOneProcess
  <2> SUFFICES ASSUME ReadInv, view # NoView, NEW x \in view.rooms, NEW y \in view.rooms,
                      x.id = y.id
               PROVE  uid[x.inst] = uid[y.inst]
    BY DEF OneIdOneProcess
  <2> QED
    BY ViewOfRecords, OneProcess DEF ReadInv, ReadTypes
<1> QED
  BY <1>1, ReadInvariant, PTL

\* The only room that the fleet made under a raw id has it.
LEMMA FleetRoomKeeps ==
    ASSUME NEW recs, NEW u, RecordsOf(recs, u),
           NEW r \in RoomId, NEW i, FleetRooms(recs, r) = {i}
    PROVE  \E x \in ShownRooms(recs, u) : x.inst = i /\ x.id = <<r>>
<1>1. PICK n \in 1..Len(recs) : recs[n].rooms[r] = "fleet" /\ recs[n].inst = i
  BY DEF FleetRooms
<1>2. ASSUME NEW k \in 1..Len(recs), k # n, recs[k].rooms[r] # "none"
      PROVE  Beats(recs, n, k, r)
  <2>1. recs[k].rooms[r] \in Origin
    BY <1>2, RecordAt DEF Rooms
  <2>2. recs[k].inst # i
    BY <1>1, <1>2 DEF RecordsOf
  <2>3. recs[k].rooms[r] # "fleet"
    BY <2>2 DEF FleetRooms
  <2> QED
    BY <1>1, <2>1, <2>3 DEF Beats, Origin
<1>3. Keeps(recs, n, r)
  BY <1>2 DEF Keeps
<1> DEFINE x == Shown(recs, u, n, r)
<1>4. x \in ShownRooms(recs, u)
  BY <1>1, ShownMember
<1>5. x.inst = i /\ x.id = <<r>>
  BY <1>1, <1>3 DEF Shown, IdOf
<1> QED
  BY <1>4, <1>5

LEMMA ViewOfNextRecords ==
    ReadInv' /\ records' # <<>> => view'.rooms = ShownRooms(records', uid')
<1> SUFFICES ASSUME ReadInv', records' # <<>>
             PROVE  view'.rooms = ShownRooms(records', uid')
  OBVIOUS
<1>1. view' = Resolve(records)'
  BY DEF ReadInv, EventsMirror
<1> QED
  BY <1>1, ResolveNext DEF ViewOf

\* A room that the fleet made does not lose the id its creator was given to applications
\* or newcomers, whatever joins, leaves, reports or restarts (compareForCanonical).
THEOREM FleetRoomsKeepTheirId == Spec => FleetKeepsId
<1>1. ASSUME ReadInv', NEW r \in RoomId, NEW i, i \in FleetRooms(records', r),
             FleetRooms(records', r) = {i}
      PROVE  \E x \in view'.rooms : x.inst = i /\ x.id = <<r>>
  <2>1. records' # <<>>
    BY <1>1 DEF FleetRooms
  <2>2. view'.rooms = ShownRooms(records', uid')
    BY <1>1, <2>1, ViewOfNextRecords
  <2>3. RecordsOf(records', uid')
    BY <1>1 DEF ReadInv, ReadTypes, RecordsOf
  <2> QED
    BY <1>1, <2>2, <2>3, FleetRoomKeeps
<1> DEFINE Kept == \A r \in RoomId : \A i \in FleetRooms(records, r) \cap FleetRooms(records', r) :
                      (\E x \in view.rooms : x.inst = i /\ x.id = <<r>>) =>
                          \/ \E x \in view'.rooms : x.inst = i /\ x.id = <<r>>
                          \/ FleetRooms(records', r) # {i}
<1>2. ReadInv' => Kept
  BY <1>1
<1>3. ReadInv /\ [Next]_vars => [Kept]_vars
  BY <1>2, ReadModelStep
<1> QED
  BY <1>3, ReadInvariant, PTL DEF Spec, FleetKeepsId

-----------------------------------------------------------------------------
(* The sum of the connections of a set (MapThenSumSet).                    *)

Total(S) == MapThenSumSet(LAMBDA x : x.connections, S)

Pick(s) == CHOOSE x \in s : TRUE

Sum(f, s) == IF s = {} THEN 0 ELSE Pick(s).connections + f[s \ {Pick(s)}]

IsSum(f, S) == f = [s \in SUBSET S |-> Sum(f, s)]

LEMMA Smaller ==
    ASSUME NEW s, IsFiniteSet(s), s # {}
    PROVE  /\ Pick(s) \in s /\ IsFiniteSet(s \ {Pick(s)})
           /\ Cardinality(s) \in Nat \ {0}
           /\ \A y \in s : Cardinality(s \ {y}) = Cardinality(s) - 1
<1>1. Pick(s) \in s
  BY DEF Pick
<1> QED
  BY <1>1, FS_EmptySet, FS_CardinalityType, FS_RemoveElement

\* The function that MapThenSumSet computes with exists.
LEMMA SumExists ==
    ASSUME NEW S, IsFiniteSet(S)
    PROVE  \E f : IsSum(f, S)
<1> DEFINE Card(s) == Cardinality(s)
           Upto(n, f) == \A s \in SUBSET S : Card(s) <= n => f[s] = Sum(f, s)
           F == {n \in Nat : ~ \E f : Upto(n, f)}
<1>1. \A s \in SUBSET S : IsFiniteSet(s) /\ Card(s) \in Nat
  BY FS_Subset, FS_CardinalityType
<1>2. F = {}
  <2> SUFFICES ASSUME F # {} PROVE FALSE
    OBVIOUS
  <2>1. PICK n \in F : \A k \in F : n <= k
    <3>1. F \subseteq Nat
      OBVIOUS
    <3> HIDE DEF F
    <3> QED
      BY <3>1, LeastOne
  <2>2. CASE n = 0
    <3> DEFINE f == [s \in SUBSET S |-> 0]
    <3>1. \A s \in SUBSET S : Card(s) <= 0 => s = {}
      BY <1>1, FS_EmptySet
    <3>2. Upto(0, f)
      BY <3>1 DEF Sum
    <3> QED
      BY <2>1, <2>2, <3>2
  <2>3. CASE n # 0
    <3>1. n \in Nat /\ n - 1 \in Nat /\ n - 1 \notin F
      BY <2>1, <2>3
    <3>2. PICK f : Upto(n - 1, f)
      BY <3>1
    <3> DEFINE g == [s \in SUBSET S |-> Sum(f, s)]
    <3>3. ASSUME NEW s \in SUBSET S, Card(s) <= n
          PROVE  g[s] = Sum(g, s)
      <4>1. CASE s = {}
        BY <4>1 DEF Sum
      <4>2. CASE s # {}
        <5> DEFINE t == s \ {Pick(s)}
        <5>1. t \in SUBSET S /\ Card(t) = Card(s) - 1 /\ Card(s) \in Nat
          BY <1>1, <4>2, Smaller
        <5>2. Card(t) <= n - 1
          BY <3>1, <3>3, <5>1
        <5>3. f[t] = Sum(f, t)
          BY <3>2, <5>1, <5>2
        <5>4. g[t] = f[t]
          BY <5>1, <5>3
        <5> QED
          BY <4>2, <5>4 DEF Sum
      <4> QED
        BY <4>1, <4>2
    <3>4. Upto(n, g)
      BY <3>3
    <3> QED
      BY <2>1, <3>4
  <2> QED
    BY <2>2, <2>3
<1>3. Card(S) \in Nat
  BY FS_CardinalityType
<1>4. PICK f : Upto(Card(S), f)
  BY <1>2, <1>3
<1>5. \A s \in SUBSET S : Card(s) <= Card(S)
  BY FS_Subset
<1> DEFINE g == [s \in SUBSET S |-> f[s]]
<1>6. \A s \in SUBSET S : f[s] = Sum(f, s)
  BY <1>4, <1>5
<1>7. \A s \in SUBSET S : Sum(g, s) = Sum(f, s)
  BY DEF Sum
<1>8. IsSum(g, S)
  BY <1>6, <1>7 DEF IsSum
<1> QED
  BY <1>8

LEMMA TotalIsSum ==
    ASSUME NEW S, IsFiniteSet(S)
    PROVE  \E f : IsSum(f, S) /\ Total(S) = f[S]
<1> DEFINE h == CHOOSE f : f = [s \in SUBSET S |-> IF s = {} THEN 0
                       ELSE (CHOOSE x \in s : TRUE).connections + f[s \ {CHOOSE x \in s : TRUE}]]
<1>1. Total(S) = h[S]
  BY DEF Total, MapThenSumSet, MapThenFoldSet
<1>2. \E f : f = [s \in SUBSET S |-> IF s = {} THEN 0
                       ELSE (CHOOSE x \in s : TRUE).connections + f[s \ {CHOOSE x \in s : TRUE}]]
  BY SumExists DEF IsSum, Sum, Pick
<1>3. IsSum(h, S)
  BY <1>2 DEF IsSum, Sum, Pick
<1> HIDE DEF h
<1> QED
  BY <1>1, <1>3

\* Two sums agree where both are defined.
LEMMA SumsAgree ==
    ASSUME NEW S, NEW f, IsSum(f, S), NEW T, NEW g, IsSum(g, T), IsFiniteSet(S),
           NEW s \in SUBSET S, s \subseteq T
    PROVE  f[s] = g[s]
<1> DEFINE Fails(u) == u \subseteq S /\ u \subseteq T /\ f[u] # g[u]
           F == {Cardinality(u) : u \in {v \in SUBSET S : Fails(v)}}
<1>1. \A u \in SUBSET S : IsFiniteSet(u) /\ Cardinality(u) \in Nat
  BY FS_Subset, FS_CardinalityType
<1>2. SUFFICES ASSUME Fails(s) PROVE FALSE
  OBVIOUS
<1>3. PICK n \in F : \A k \in F : n <= k
  <2>1. F \subseteq Nat /\ F # {}
    BY <1>1, <1>2
  <2> HIDE DEF F
  <2> QED
    BY <2>1, LeastOne
<1>4. PICK u \in SUBSET S : Fails(u) /\ n = Cardinality(u)
  BY <1>3
<1>5. f[u] = Sum(f, u) /\ g[u] = Sum(g, u)
  BY <1>4 DEF IsSum
<1>6. u # {}
  BY <1>4, <1>5 DEF Sum
<1> DEFINE t == u \ {Pick(u)}
<1>7. t \in SUBSET S /\ t \subseteq T /\ Cardinality(t) = n - 1 /\ n \in Nat
  BY <1>1, <1>4, <1>6, Smaller
<1>8. f[t] # g[t]
  BY <1>4, <1>5, <1>6 DEF Sum
<1>9. n - 1 \in F
  BY <1>7, <1>8
<1> QED
  BY <1>3, <1>7, <1>9

LEMMA TotalPick ==
    ASSUME NEW S, IsFiniteSet(S)
    PROVE  Total(S) = IF S = {} THEN 0 ELSE Pick(S).connections + Total(S \ {Pick(S)})
<1>1. PICK f : IsSum(f, S) /\ Total(S) = f[S]
  BY TotalIsSum
<1>2. Total(S) = Sum(f, S)
  BY <1>1 DEF IsSum
<1>3. CASE S = {}
  BY <1>2, <1>3 DEF Sum
<1>4. CASE S # {}
  <2> DEFINE t == S \ {Pick(S)}
  <2>1. IsFiniteSet(t)
    BY <1>4, Smaller
  <2> HIDE DEF t
  <2>2. PICK g : IsSum(g, t) /\ Total(t) = g[t]
    BY <2>1, TotalIsSum
  <2>3. t \in SUBSET S
    BY DEF t
  <2>4. f[t] = g[t]
    BY <1>1, <2>2, <2>3, SumsAgree
  <2> QED
    BY <1>2, <1>4, <2>2, <2>4 DEF Sum, t
<1> QED
  BY <1>3, <1>4

Counted(S) == IsFiniteSet(S) /\ \A x \in S : x.connections \in Nat

\* Among the counted sets for which P fails, given as a set of them, there is a smallest.
LEMMA SmallestFailure ==
    ASSUME NEW W, W # {}, \A S \in W : IsFiniteSet(S)
    PROVE  \E S \in W : \A T \in W : ~(Cardinality(T) < Cardinality(S))
<1> DEFINE F == {Cardinality(S) : S \in W}
<1>1. \A S \in W : Cardinality(S) \in Nat
  BY FS_CardinalityType
<1>2. PICK n \in F : \A k \in F : n <= k
  <2>1. F \subseteq Nat /\ F # {}
    BY <1>1
  <2> HIDE DEF F
  <2> QED
    BY <2>1, LeastOne
<1>3. PICK S \in W : n = Cardinality(S)
  BY <1>2
<1>4. \A T \in W : Cardinality(S) <= Cardinality(T)
  BY <1>2, <1>3
<1>5. \A T \in W : ~(Cardinality(T) < Cardinality(S))
  BY <1>1, <1>4
<1> QED
  BY <1>5

LEMMA TotalIsNat ==
    ASSUME NEW S, Counted(S)
    PROVE  Total(S) \in Nat
<1> DEFINE W == {s \in SUBSET S : Total(s) \notin Nat}
<1>1. \A s \in SUBSET S : IsFiniteSet(s)
  BY FS_Subset DEF Counted
<1>2. SUFFICES ASSUME W # {} PROVE FALSE
  OBVIOUS
<1>3. PICK s \in W : \A t \in W : ~(Cardinality(t) < Cardinality(s))
  <2>1. \A s \in W : IsFiniteSet(s)
    BY <1>1
  <2> HIDE DEF W
  <2> QED
    BY <1>2, <2>1, SmallestFailure
<1>4. IsFiniteSet(s) /\ Total(s) \notin Nat /\ s \subseteq S
  BY <1>1, <1>3
<1>5. s # {} /\ Total(s) = Pick(s).connections + Total(s \ {Pick(s)})
  BY <1>4, TotalPick
<1>6. Pick(s) \in s /\ Cardinality(s \ {Pick(s)}) < Cardinality(s)
  BY <1>4, <1>5, Smaller
<1>7. Total(s \ {Pick(s)}) \in Nat
  BY <1>3, <1>4, <1>6
<1> QED
  BY <1>4, <1>5, <1>6, <1>7 DEF Counted

\* The order in which a set is summed up makes no difference.
LEMMA TotalSplit ==
    ASSUME NEW S, Counted(S), NEW y \in S
    PROVE  Total(S) = y.connections + Total(S \ {y})
<1> DEFINE W == {s \in SUBSET S : \E z \in s : Total(s) # z.connections + Total(s \ {z})}
<1>1. \A s \in SUBSET S : Counted(s) /\ IsFiniteSet(s) /\ Total(s) \in Nat
  BY FS_Subset, TotalIsNat DEF Counted
<1>2. SUFFICES ASSUME W # {} PROVE FALSE
  OBVIOUS
<1>3. PICK s \in W : \A t \in W : ~(Cardinality(t) < Cardinality(s))
  <2>1. \A s \in W : IsFiniteSet(s)
    BY <1>1
  <2> HIDE DEF W
  <2> QED
    BY <1>2, <2>1, SmallestFailure
<1>4. PICK z \in s : Total(s) # z.connections + Total(s \ {z})
  BY <1>3
<1> DEFINE x == Pick(s)
<1>5. s \in SUBSET S /\ s # {} /\ IsFiniteSet(s)
  BY <1>1, <1>3
<1>6. Total(s) = x.connections + Total(s \ {x}) /\ x \in s
  BY <1>5, TotalPick, Smaller
<1>7. x # z
  BY <1>4, <1>6
<1>8. Cardinality(s \ {x}) < Cardinality(s) /\ Cardinality(s \ {z}) < Cardinality(s)
  BY <1>4, <1>5, <1>6, Smaller
<1> HIDE DEF x
<1> DEFINE r == (s \ {x}) \ {z}
<1>9. Total(s \ {x}) = z.connections + Total(r)
  BY <1>3, <1>4, <1>5, <1>7, <1>8
<1>10. Total(s \ {z}) = x.connections + Total(r)
  <2>1. (s \ {z}) \ {x} = r /\ x \in s \ {z} /\ s \ {z} \in SUBSET S
    BY <1>5, <1>6, <1>7
  <2> HIDE DEF r
  <2> QED
    BY <1>3, <1>8, <2>1
<1>11. r \in SUBSET S /\ x \in S /\ z \in S
  BY <1>4, <1>5, <1>6
<1>12. Total(r) \in Nat /\ x.connections \in Nat /\ z.connections \in Nat
  BY <1>1, <1>11 DEF Counted
<1> HIDE DEF r
<1> QED
  BY <1>4, <1>6, <1>9, <1>10, <1>12

\* Nor does what else its members are.
LEMMA TotalImage ==
    ASSUME NEW S, Counted(S), NEW p, \A x \in S : p[x].connections = x.connections,
           \A x, y \in S : p[x] = p[y] => x = y
    PROVE  Total({p[x] : x \in S}) = Total(S)
<1> DEFINE Image(s) == {p[x] : x \in s}
           W == {s \in SUBSET S : Total(Image(s)) # Total(s)}
<1>1. \A s \in SUBSET S : Counted(s) /\ IsFiniteSet(s)
  BY FS_Subset DEF Counted
<1>2. SUFFICES ASSUME W # {} PROVE FALSE
  OBVIOUS
<1>3. PICK s \in W : \A t \in W : ~(Cardinality(t) < Cardinality(s))
  <2>1. \A s \in W : IsFiniteSet(s)
    BY <1>1
  <2> HIDE DEF W
  <2> QED
    BY <1>2, <2>1, SmallestFailure
<1>4. s \in SUBSET S /\ Counted(s) /\ IsFiniteSet(s)
  BY <1>1, <1>3
<1>5. Counted(Image(s))
  <2>1. IsFiniteSet(Image(s))
    <3> DEFINE f == [z \in s |-> p[z]]
    <3>1. f \in Surjection(s, Image(s))
      BY DEF Surjection
    <3> HIDE DEF f
    <3> QED
      BY <1>4, <3>1, FS_Surjection
  <2>2. \A z \in Image(s) : z.connections \in Nat
    BY <1>4 DEF Counted
  <2> QED
    BY <2>1, <2>2 DEF Counted
<1>6. CASE s = {}
  <2>1. Image(s) = s
    BY <1>6
  <2> QED
    BY <1>3, <2>1
<1>7. CASE s # {}
  <2> DEFINE x == Pick(s)
             t == s \ {x}
  <2>1. x \in s /\ Cardinality(t) < Cardinality(s)
    <3>1. x \in s /\ Cardinality(s) \in Nat \ {0} /\ Cardinality(t) = Cardinality(s) - 1
      BY <1>4, <1>7, Smaller
    <3> QED
      BY <3>1
  <2> HIDE DEF x
  <2>2. Total(s) = x.connections + Total(t)
    BY <1>4, <2>1, TotalSplit
  <2>3. Image(s) \ {p[x]} = Image(t)
    BY <1>4, <2>1
  <2>4. p[x] \in Image(s) /\ p[x].connections = x.connections
    BY <1>4, <2>1
  <2>5. Total(Image(s)) = x.connections + Total(Image(t))
    <3> HIDE DEF Image, t
    <3> QED
      BY <1>5, <2>3, <2>4, TotalSplit
  <2>6. t \notin W /\ t \in SUBSET S
    BY <1>3, <1>4, <2>1
  <2> QED
    BY <1>3, <2>2, <2>5, <2>6
<1> QED
  BY <1>6, <1>7

-----------------------------------------------------------------------------
(* The records.                                                            *)

\* What is known of an instance was made from a snapshot.
Made(x) == \E i \in Conns, s \in Snapshots, at \in Nat : x = BuildInstanceInfo(i, s, at)

\* A finite number of instances, one for an id.
Known(J) ==
    /\ IsFiniteSet(J)
    /\ \A x \in J : Made(x)
    /\ \A x, y \in J : x.id = y.id => x = y

\* FleetState.records.
Recorded(recs) ==
    /\ IsFiniteSet(DOMAIN recs) /\ DOMAIN recs \subseteq Conns
    /\ \A i \in DOMAIN recs : \E s \in Snapshots, at \in Nat, n \in Nat :
           recs[i] = [info |-> BuildInstanceInfo(i, s, at), joinSeq |-> n]

Semantic == {"id", "processUid", "labels", "roomTypes", "rooms", "connections", "maxRooms",
             "maxConnections", "autoCreate", "status"}

LEMMA MadeFields ==
    ASSUME NEW x, Made(x)
    PROVE  /\ DOMAIN x = Semantic \cup {"lastSyncAt"}
           /\ x.connections \in Nat /\ x.maxConnections \in Nat \cup {None}
<1>1. PICK i \in Conns, s \in Snapshots, at \in Nat : x = BuildInstanceInfo(i, s, at)
  BY DEF Made
<1>2. x.connections = Total(s.rooms)
  BY <1>1 DEF BuildInstanceInfo, Total
<1>3. Counted(s.rooms) /\ s.maxConnections \in Nat \cup {None}
  BY SnapshotAssumption DEF Counted
<1>4. x.maxConnections = s.maxConnections
  BY <1>1 DEF BuildInstanceInfo
<1>5. DOMAIN x = Semantic \cup {"lastSyncAt"}
  BY <1>1 DEF BuildInstanceInfo, Semantic
<1> QED
  BY <1>2, <1>3, <1>4, <1>5, TotalIsNat

\* A time is written into what was made.
LEMMA MadeAgain ==
    ASSUME NEW i, NEW s, NEW at, NEW t
    PROVE  [BuildInstanceInfo(i, s, at) EXCEPT !.lastSyncAt = t] = BuildInstanceInfo(i, s, t)
<1> DEFINE old == BuildInstanceInfo(i, s, at)
           new == BuildInstanceInfo(i, s, t)
<1>1. [old EXCEPT !.lastSyncAt = t] = [f \in DOMAIN old |-> IF f = "lastSyncAt" THEN t ELSE old[f]]
  <2> HIDE DEF old
  <2> QED
    OBVIOUS
<1>2. new = [f \in DOMAIN new |-> new[f]]
  BY DEF BuildInstanceInfo
<1>3. DOMAIN new = DOMAIN old
  BY DEF BuildInstanceInfo
<1>4. \A f \in DOMAIN old : new[f] = IF f = "lastSyncAt" THEN t ELSE old[f]
  <2>1. DOMAIN old = Semantic \cup {"lastSyncAt"}
    BY DEF BuildInstanceInfo, Semantic
  <2>2. /\ new.id = old.id /\ new.processUid = old.processUid /\ new.labels = old.labels
        /\ new.roomTypes = old.roomTypes /\ new.rooms = old.rooms
        /\ new.connections = old.connections /\ new.maxRooms = old.maxRooms
        /\ new.maxConnections = old.maxConnections /\ new.autoCreate = old.autoCreate
        /\ new.status = old.status /\ new.lastSyncAt = t
    BY DEF BuildInstanceInfo
  <2> HIDE DEF old, new
  <2> QED
    BY <2>1, <2>2 DEF Semantic
<1> HIDE DEF old, new
<1>5. [f \in DOMAIN new |-> new[f]] = [f \in DOMAIN old |-> IF f = "lastSyncAt" THEN t ELSE old[f]]
  BY <1>3, <1>4
<1>6. [old EXCEPT !.lastSyncAt = t] = new
  BY <1>1, <1>2, <1>5
<1> QED
  BY <1>6 DEF old, new

LEMMA RecordedMade ==
    ASSUME NEW recs, Recorded(recs), NEW i \in DOMAIN recs
    PROVE  /\ i \in Conns /\ recs[i].info.id = i /\ Made(recs[i].info)
<1>1. PICK s \in Snapshots, at \in Nat, n \in Nat :
          recs[i] = [info |-> BuildInstanceInfo(i, s, at), joinSeq |-> n]
  BY DEF Recorded
<1>2. recs[i].info = BuildInstanceInfo(i, s, at) /\ i \in Conns
  BY <1>1 DEF Recorded
<1>3. BuildInstanceInfo(i, s, at).id = i
  BY DEF BuildInstanceInfo
<1> QED
  BY <1>2, <1>3 DEF Made

LEMMA RecordedKnown ==
    ASSUME NEW recs, Recorded(recs)
    PROVE  Known(Instances(recs))
<1>1. \A i \in DOMAIN recs : recs[i].info.id = i /\ Made(recs[i].info)
  BY RecordedMade
<1>2. IsFiniteSet(Instances(recs))
  <2> DEFINE f == [i \in DOMAIN recs |-> recs[i].info]
  <2>1. f \in Surjection(DOMAIN recs, Instances(recs))
    BY DEF Surjection, Instances
  <2> HIDE DEF f
  <2> QED
    BY <2>1, FS_Surjection DEF Recorded
<1> QED
  BY <1>1, <1>2 DEF Known, Instances

-----------------------------------------------------------------------------
(* What is hashed.                                                         *)

LEMMA ProjectionFields ==
    ASSUME NEW x, Made(x)
    PROVE  /\ Projection(x) = [f \in Semantic |-> x[f]]
           /\ \A f \in Semantic : Projection(x)[f] = x[f]
<1>1. DOMAIN x = Semantic \cup {"lastSyncAt"}
  BY MadeFields
<1>2. DOMAIN x \ {"lastSyncAt"} = Semantic
  BY <1>1 DEF Semantic
<1> QED
  BY <1>2 DEF Projection

LEMMA SameProjection ==
    ASSUME NEW x, Made(x), NEW y, Made(y), Projection(x) = Projection(y)
    PROVE  \A f \in Semantic : x[f] = y[f]
  BY ProjectionFields

\* Equal hashes are of the same instances, but for their times.
LEMMA SameHash ==
    ASSUME NEW J, Known(J), NEW K, Known(K), StateHash(J) = StateHash(K)
    PROVE  \A x \in J : \E y \in K : \A f \in Semantic : x[f] = y[f]
<1> SUFFICES ASSUME NEW x \in J PROVE \E y \in K : \A f \in Semantic : x[f] = y[f]
  OBVIOUS
<1>1. PICK y \in K : Projection(x) = Projection(y)
  BY DEF StateHash
<1>2. Made(x) /\ Made(y)
  BY DEF Known
<1> QED
  BY <1>1, <1>2, SameProjection

LEMMA HashOneToOne ==
    ASSUME NEW J, Known(J)
    PROVE  /\ Cardinality(StateHash(J)) = Cardinality(J)
           /\ Total(StateHash(J)) = Total(J)
<1> DEFINE p == [x \in J |-> Projection(x)]
<1>1. StateHash(J) = {p[x] : x \in J}
  BY DEF StateHash
<1>2. \A x \in J : Made(x)
  BY DEF Known
<1>3. \A x, y \in J : p[x] = p[y] => x = y
  <2> SUFFICES ASSUME NEW x \in J, NEW y \in J, Projection(x) = Projection(y) PROVE x = y
    OBVIOUS
  <2>1. x["id"] = y["id"]
    BY <1>2, SameProjection DEF Semantic
  <2> QED
    BY <2>1 DEF Known
<1>4. \A x \in J : p[x].connections = x.connections /\ x.connections \in Nat
  <2> SUFFICES ASSUME NEW x \in J PROVE p[x].connections = x.connections /\ x.connections \in Nat
    OBVIOUS
  <2>1. Projection(x)["connections"] = x["connections"]
    BY <1>2, ProjectionFields DEF Semantic
  <2> QED
    BY <1>2, <2>1, MadeFields
<1>5. Counted(J)
  BY <1>4 DEF Counted, Known
<1>6. p \in Surjection(J, StateHash(J)) /\ p \in Injection(J, StateHash(J))
  <2>1. p \in [J -> StateHash(J)]
    BY <1>1
  <2>2. \A y \in StateHash(J) : \E x \in J : p[x] = y
    BY <1>1
  <2> HIDE DEF p
  <2> QED
    BY <1>3, <2>1, <2>2 DEF Surjection, Injection, IsInjective
<1> HIDE DEF p
<1>7. IsFiniteSet(StateHash(J)) /\ Cardinality(StateHash(J)) = Cardinality(J)
  BY <1>5, <1>6, FS_Surjection DEF Counted
<1>8. Total(StateHash(J)) = Total(J)
  BY <1>1, <1>3, <1>4, <1>5, TotalImage
<1> QED
  BY <1>7, <1>8

LEMMA StatsAre ==
    ASSUME NEW J
    PROVE  Stats(J) = [instances |-> Cardinality(J), rooms |-> Cardinality(UNION {x.rooms : x \in J}),
                       connections |-> Total(J), roomTypes |-> UNION {x.roomTypes : x \in J}]
  BY DEF Stats, Total

\* What a conditional route answers is determined by the hash, but for the times.
LEMMA SameAnswer ==
    ASSUME NEW J, Known(J), NEW K, Known(K), StateHash(J) = StateHash(K), NEW route
    PROVE  WithoutTimes(route, Data(route, J)) = WithoutTimes(route, Data(route, K))
<1>1. /\ \A x \in J : \E y \in K : \A f \in Semantic : x[f] = y[f]
      /\ \A y \in K : \E x \in J : \A f \in Semantic : x[f] = y[f]
  <2>1. \A x \in J : \E y \in K : \A f \in Semantic : x[f] = y[f]
    BY SameHash
  <2>2. \A y \in K : \E x \in J : \A f \in Semantic : y[f] = x[f]
    BY SameHash
  <2> QED
    BY <2>1, <2>2
<1>2. Stats(J) = Stats(K)
  <2>1. Cardinality(J) = Cardinality(K) /\ Total(J) = Total(K)
    BY HashOneToOne
  <2>2. UNION {x.rooms : x \in J} = UNION {x.rooms : x \in K}
    BY <1>1 DEF Semantic
  <2>3. UNION {x.roomTypes : x \in J} = UNION {x.roomTypes : x \in K}
    BY <1>1 DEF Semantic
  <2> QED
    BY <2>1, <2>2, <2>3, StatsAre
<1>3. \A filter : FindRooms(J, filter) = FindRooms(K, filter)
  <2> SUFFICES ASSUME NEW filter PROVE FindRooms(J, filter) = FindRooms(K, filter)
    OBVIOUS
  <2> DEFINE Fitting(L) == UNION {x.rooms : x \in {y \in L : MatchesLabels(y.labels, filter.labels)}}
  <2>1. Fitting(J) = Fitting(K)
    BY <1>1 DEF Semantic
  <2> HIDE DEF Fitting
  <2>2. \A L : FindRooms(L, filter) = {r \in Fitting(L) : filter.type \in {None, r.type}}
    BY DEF FindRooms, Fitting
  <2> QED
    BY <2>1, <2>2
<1> QED
  BY <1>2, <1>3 DEF Data, WithoutTimes

-----------------------------------------------------------------------------
(* The invariant.                                                          *)

\* Both memos, and the answer a client has kept.
MemosSo ==
    /\ memo # None => memo = Instances(reports)
    /\ hashMemo # None => hashMemo = StateHash(Instances(reports))

\* The answer a client has kept was made from instances that were known once.
AnswerOf(c) == \E J : Known(J) /\ c.etag = StateHash(J) /\ c.data = Data(c.route, J)

ApiInv ==
    /\ clock \in Nat
    /\ Recorded(reports)
    /\ reserving \in [Conns -> Nat]
    /\ MemosSo
    /\ cached # None => AnswerOf(cached)

LEMMA ApiStart == ApiInit => ApiInv
<1> SUFFICES ASSUME ApiInit PROVE ApiInv
  OBVIOUS
<1>1. DOMAIN reports = {}
  BY DEF ApiInit
<1>2. Recorded(reports)
  BY <1>1, FS_EmptySet DEF Recorded
<1> QED
  BY <1>2 DEF ApiInit, ApiInv, MemosSo

LEMMA SnapshotApplied ==
    ASSUME ApiInv, NEW i \in Conns, NEW s \in Snapshots, ApplySnapshotOf(i, s)
    PROVE  Recorded(reports') /\ MemosSo'
<1> DEFINE joinSeq == IF i \in Reporters THEN reports[i].joinSeq ELSE clock
           rec == [info |-> BuildInstanceInfo(i, s, clock), joinSeq |-> joinSeq]
<1>1. reports' = [j \in Reporters \cup {i} |-> IF j = i THEN rec ELSE reports[j]]
  BY DEF ApplySnapshotOf
<1>2. Recorded(reports) /\ clock \in Nat
  BY DEF ApiInv
<1>3. joinSeq \in Nat
  BY <1>2 DEF Recorded, Reporters
<1>4. IsFiniteSet(Reporters \cup {i})
  BY <1>2, FS_AddElement DEF Recorded, Reporters
<1>5. DOMAIN reports' = Reporters \cup {i}
  BY <1>1
<1> HIDE DEF joinSeq
<1>6. \A j \in DOMAIN reports' : \E t \in Snapshots, at \in Nat, n \in Nat :
          reports'[j] = [info |-> BuildInstanceInfo(j, t, at), joinSeq |-> n]
  <2> SUFFICES ASSUME NEW j \in Reporters \cup {i}
               PROVE  \E t \in Snapshots, at \in Nat, n \in Nat :
                          reports'[j] = [info |-> BuildInstanceInfo(j, t, at), joinSeq |-> n]
    BY <1>5
  <2>1. CASE j = i
    BY <1>1, <1>2, <1>3, <2>1
  <2>2. CASE j # i
    <3>1. reports'[j] = reports[j] /\ j \in Reporters
      BY <1>1, <2>2
    <3> QED
      BY <1>2, <3>1 DEF Recorded, Reporters
  <2> QED
    BY <2>1, <2>2
<1>7. Recorded(reports')
  BY <1>2, <1>4, <1>5, <1>6 DEF Recorded, Reporters
<1>8. MemosSo'
  BY DEF MemosSo, ApplySnapshotOf
<1> QED
  BY <1>7, <1>8

\* A reply that nothing has changed leaves what is hashed.
LEMMA Touched ==
    ASSUME ApiInv, NEW i \in Reporters, Touch(i)
    PROVE  Recorded(reports') /\ MemosSo'
<1>1. Recorded(reports) /\ clock \in Nat /\ MemosSo
  BY DEF ApiInv
<1>2. reports' = [reports EXCEPT ![i].info.lastSyncAt = clock]
  BY DEF Touch
<1>3. PICK s \in Snapshots, at \in Nat, n \in Nat :
          reports[i] = [info |-> BuildInstanceInfo(i, s, at), joinSeq |-> n]
  BY <1>1 DEF Recorded, Reporters
<1> DEFINE old == BuildInstanceInfo(i, s, at)
           new == BuildInstanceInfo(i, s, clock)
<1>4. new = [old EXCEPT !.lastSyncAt = clock]
  BY MadeAgain
<1>5. DOMAIN reports' = DOMAIN reports /\ \A j \in DOMAIN reports : j # i => reports'[j] = reports[j]
  BY <1>2
<1>6. reports'[i] = [info |-> new, joinSeq |-> n]
  <2> HIDE DEF old, new
  <2> QED
    BY <1>2, <1>3, <1>4 DEF Reporters, old
<1>7. Recorded(reports')
  BY <1>1, <1>3, <1>5, <1>6 DEF Recorded, Reporters
<1>8. i \in Conns /\ \A j \in DOMAIN reports : reports[j].info.id = j
  BY <1>1, RecordedMade DEF Reporters
<1>9. Instances(reports') = {IF x.id = i THEN [x EXCEPT !.lastSyncAt = clock] ELSE x : x \in Instances(reports)}
  <2> DEFINE f(x) == IF x.id = i THEN [x EXCEPT !.lastSyncAt = clock] ELSE x
  <2>1. \A j \in DOMAIN reports : reports'[j].info = f(reports[j].info)
    <3> SUFFICES ASSUME NEW j \in DOMAIN reports PROVE reports'[j].info = f(reports[j].info)
      OBVIOUS
    <3>1. CASE j = i
      <4>1. reports[i].info = old /\ reports'[i].info = new
        <5> HIDE DEF old, new
        <5> QED
          BY <1>3, <1>6 DEF old
      <4> HIDE DEF old, new
      <4> QED
        BY <1>4, <1>8, <3>1, <4>1
    <3>2. CASE j # i
      BY <1>5, <1>8, <3>2
    <3> QED
      BY <3>1, <3>2
  <2> HIDE DEF f
  <2>2. Instances(reports') = {f(x) : x \in Instances(reports)}
    BY <1>5, <2>1 DEF Instances
  <2> QED
    BY <2>2 DEF f
<1>10. StateHash(Instances(reports')) = StateHash(Instances(reports))
  <2>1. Projection(new) = Projection(old)
    <3>1. Made(new) /\ Made(old)
      BY <1>1, <1>8 DEF Made
    <3>2. \A f \in Semantic : new[f] = old[f]
      BY DEF Semantic, BuildInstanceInfo
    <3> HIDE DEF old, new
    <3>3. [f \in Semantic |-> new[f]] = [f \in Semantic |-> old[f]]
      BY <3>2
    <3> QED
      BY <3>1, <3>3, ProjectionFields
  <2>2. reports[i].info = old /\ reports'[i].info = new
    <3> HIDE DEF old, new
    <3> QED
      BY <1>3, <1>6 DEF old
  <2> HIDE DEF old, new
  <2>3. \A j \in DOMAIN reports : Projection(reports'[j].info) = Projection(reports[j].info)
    BY <1>5, <2>1, <2>2
  <2>4. StateHash(Instances(reports)) = {Projection(reports[j].info) : j \in DOMAIN reports}
    BY DEF StateHash, Instances
  <2>5. StateHash(Instances(reports')) = {Projection(reports'[j].info) : j \in DOMAIN reports}
    BY <1>5 DEF StateHash, Instances
  <2> QED
    BY <2>3, <2>4, <2>5
<1>11. MemosSo'
  BY <1>1, <1>9, <1>10 DEF MemosSo, Touch
<1> QED
  BY <1>7, <1>11

LEMMA Removed ==
    ASSUME ApiInv, NEW i \in Reporters, Goes(i)
    PROVE  Recorded(reports') /\ MemosSo'
<1>1. reports' = [j \in Reporters \ {i} |-> reports[j]]
  BY DEF Goes
<1>2. DOMAIN reports' = Reporters \ {i} /\ \A j \in Reporters \ {i} : reports'[j] = reports[j]
  BY <1>1
<1>3. IsFiniteSet(Reporters \ {i})
  BY FS_RemoveElement DEF ApiInv, Recorded, Reporters
<1>4. Recorded(reports')
  BY <1>2, <1>3 DEF ApiInv, Recorded, Reporters
<1>5. MemosSo'
  BY DEF MemosSo, Goes
<1> QED
  BY <1>4, <1>5

LEMMA GetStep ==
    ASSUME ApiInv, NEW route \in Routes, Get(route)
    PROVE  MemosSo' /\ (cached' # None => AnswerOf(cached)')
<1> DEFINE infos == ReadMemo(reports, memo)
<1>1. infos = Instances(reports) /\ Hash = StateHash(infos) /\ Known(infos)
  BY RecordedKnown DEF ApiInv, MemosSo, ReadMemo, Hash
<1>2. memo' = infos /\ hashMemo' = Hash /\ reports' = reports
  BY DEF Get
<1>3. MemosSo'
  BY <1>1, <1>2 DEF MemosSo
<1>4. CASE cached' = cached
  BY <1>3, <1>4 DEF ApiInv, AnswerOf
<1>5. CASE cached' = [route |-> route, etag |-> Hash, data |-> Data(route, infos)]
  <2> HIDE DEF infos
  <2>1. cached'.route = route /\ cached'.etag = Hash /\ cached'.data = Data(route, infos)
    BY <1>5
  <2> QED
    BY <1>1, <1>3, <2>1 DEF AnswerOf
<1>6. \/ cached' = cached
      \/ cached' = [route |-> route, etag |-> Hash, data |-> Data(route, infos)]
  BY DEF Get
<1> QED
  BY <1>3, <1>4, <1>5, <1>6

LEMMA ApiStep == ApiInv /\ [ApiNext]_apiVars => ApiInv'
<1> SUFFICES ASSUME ApiInv, [ApiNext]_apiVars PROVE ApiInv'
  OBVIOUS
<1> USE DEF ApiInv
<1>1. ASSUME NEW i \in Conns, Replies(i) PROVE ApiInv'
  <2>1. clock' \in Nat /\ reserving' = reserving /\ cached' = cached
    BY <1>1 DEF Replies, Passes
  <2>2. CASE \E s \in Snapshots : ApplySnapshotOf(i, s)
    BY <2>1, <2>2, SnapshotApplied DEF AnswerOf
  <2>3. CASE UNCHANGED <<reports, memo, hashMemo, acked, awaiting>>
    BY <2>1, <2>3 DEF AnswerOf, MemosSo
  <2>4. CASE i \in Reporters /\ Touch(i)
    BY <2>1, <2>4, Touched DEF AnswerOf
  <2> QED
    BY <1>1, <2>2, <2>3, <2>4 DEF Replies
<1>2. ASSUME NEW i \in Conns, GoesQuiet(i) PROVE ApiInv'
  BY <1>2 DEF GoesQuiet, Passes, placing, AnswerOf, MemosSo
<1>3. ASSUME NEW i \in Conns, Goes(i) PROVE ApiInv'
  <2>1. i \in Reporters /\ clock' \in Nat /\ reserving' \in [Conns -> Nat] /\ cached' = cached
    BY <1>3 DEF Goes, Passes
  <2> QED
    BY <1>3, <2>1, Removed DEF AnswerOf
<1>4. ASSUME NEW i \in Conns, CreateEnds(i) PROVE ApiInv'
  <2>1. reserving' \in [Conns -> Nat]
    BY <1>4 DEF CreateEnds
  <2> QED
    BY <1>4, <2>1 DEF CreateEnds, Passes, AnswerOf, MemosSo
<1>5. ASSUME NEW i \in Conns, NEW s, StatusAcked(i, s) PROVE ApiInv'
  BY <1>5 DEF StatusAcked, Passes, placing, AnswerOf, MemosSo
<1>6. ASSUME NEW req \in Requests, PostRooms(req) PROVE ApiInv'
  <2>1. PICK i \in Places(req) : reserving' = [reserving EXCEPT ![i] = @ + 1]
    BY <1>6 DEF PostRooms
  <2>2. \A k \in Conns : reserving'[k] = IF k = i THEN reserving[i] + 1 ELSE reserving[k]
    BY <2>1
  <2>3. reserving' \in [Conns -> Nat]
    <3>1. reserving' = [k \in Conns |-> reserving'[k]]
      BY <2>1
    <3>2. \A k \in Conns : reserving'[k] \in Nat
      BY <2>2
    <3> QED
      BY <3>1, <3>2
  <2> QED
    BY <1>6, <2>3 DEF PostRooms, Passes, AnswerOf, MemosSo
<1>7. ASSUME NEW route \in Routes, Get(route) PROVE ApiInv'
  <2>1. clock' = clock /\ reports' = reports /\ reserving' = reserving
    BY <1>7 DEF Get, placing
  <2> QED
    BY <1>7, <2>1, GetStep
<1>8. CASE UNCHANGED apiVars
  BY <1>8 DEF apiVars, placing, AnswerOf, MemosSo
<1> QED
  BY <1>1, <1>2, <1>3, <1>4, <1>5, <1>6, <1>7, <1>8 DEF ApiNext

LEMMA ApiInvSays == ApiInv => NotModifiedIsSo
<1> SUFFICES ASSUME ApiInv PROVE NotModifiedIsSo
  OBVIOUS
<1>1. Known(Instances(reports))
  BY RecordedKnown DEF ApiInv
<1>2. ASSUME cached # None, cached.etag = StateHash(Instances(reports))
      PROVE  WithoutTimes(cached.route, cached.data) =
                 WithoutTimes(cached.route, Data(cached.route, Instances(reports)))
  <2>1. PICK J : Known(J) /\ cached.etag = StateHash(J) /\ cached.data = Data(cached.route, J)
    BY <1>2 DEF ApiInv, AnswerOf
  <2> QED
    BY <1>1, <1>2, <2>1, SameAnswer
<1> QED
  BY <1>2 DEF ApiInv, MemosSo, NotModifiedIsSo

\* What a client may go on using and what readers are given is so, whatever the
\* instances report and the client has kept (sendConditional, FleetState.touch,
\* computeStateHash).
THEOREM NothingStaleIsServed == ApiSpec => []NotModifiedIsSo
<1>1. ApiSpec => []ApiInv
  BY ApiStart, ApiStep, PTL DEF ApiSpec
<1> QED
  BY <1>1, ApiInvSays, PTL

-----------------------------------------------------------------------------
(* Placement.                                                              *)

\* A greater part of a limit that is not lower is not a smaller load.
LEMMA Fractions ==
    ASSUME NEW a \in Nat, NEW b \in Nat, NEW c \in Nat, NEW d \in Nat, c < a, b <= d, a < b
    PROVE  c * b < a * d
<1>1. c * b <= a * b
  OBVIOUS
<1>2. a * b <= a * d
  OBVIOUS
<1>3. c * b < a * b
  OBVIOUS
<1> QED
  BY <1>2, <1>3

LEMMA LeastLoaded ==
    ASSUME ApiInv, NEW req, NEW i \in Best(Eligible(req), "least-loaded"),
           NEW j \in Eligible(req), Info(j).connections < Info(i).connections, NoLower(i, j)
    PROVE  FALSE
<1> DEFINE S == Eligible(req)
           normalized == \A k \in S : Info(k).maxConnections # None
<1>1. i \in S /\ ~Below(Load(j, normalized), Load(i, normalized))
  BY DEF Best
<1>2. i \in Reporters /\ j \in Reporters /\ HasRoom(i)
  BY <1>1 DEF Eligible
<1>3. \A k \in {i, j} : /\ Info(k).connections \in Nat
                        /\ Info(k).maxConnections \in Nat \cup {None}
  BY <1>2, RecordedMade, MadeFields DEF ApiInv, Info, Reporters
<1>4. CASE normalized
  <2>1. Info(i).maxConnections \in Nat /\ Info(j).maxConnections \in Nat
    BY <1>1, <1>3, <1>4
  <2>2. Info(i).connections < Info(i).maxConnections /\ Info(i).maxConnections <= Info(j).maxConnections
    BY <1>1, <1>2, <1>4 DEF HasRoom, NoLower
  <2>3. Info(j).connections * Info(i).maxConnections < Info(i).connections * Info(j).maxConnections
    BY <1>3, <2>1, <2>2, Fractions
  <2> QED
    BY <1>1, <1>4, <2>3 DEF Below, Load
<1>5. CASE ~normalized
  BY <1>1, <1>3, <1>5 DEF Below, Load
<1> QED
  BY <1>4, <1>5

LEMMA Placed ==
    ASSUME ApiInv, NEW req \in Requests, req.pin = None, req.strategy = "least-loaded",
           PostRooms(req), NEW i \in Conns, reserving'[i] > reserving[i]
    PROVE  ~\E j \in Eligible(req) : Info(j).connections < Info(i).connections /\ NoLower(i, j)
<1>1. PICK k \in Places(req) : reserving' = [reserving EXCEPT ![k] = @ + 1]
  BY DEF PostRooms
<1>2. k = i
  BY <1>1 DEF ApiInv
<1>3. i \in Best(Eligible(req), "least-loaded")
  BY <1>1, <1>2 DEF Places
<1> QED
  BY <1>3, LeastLoaded

\* Spreading load never chooses an instance when another that could take the room has
\* fewer connections and no lower a limit, for any instances, limits and requests
\* (FleetState.pick).
THEOREM LoadIsSpread == ApiSpec => NeverDominated
<1>1. ApiInv /\ [ApiNext]_apiVars =>
          [\A req \in {q \in Requests : q.pin = None /\ q.strategy = "least-loaded"} :
              PostRooms(req) =>
                  \A i \in Conns : reserving'[i] > reserving[i] =>
                      ~\E j \in Eligible(req) : Info(j).connections < Info(i).connections /\ NoLower(i, j)]_apiVars
  BY Placed
<1>2. ApiSpec => []ApiInv
  BY ApiStart, ApiStep, PTL DEF ApiSpec
<1> QED
  BY <1>1, <1>2, PTL DEF ApiSpec, NeverDominated

\* What is true of the configuration of a process that started in production.
SoundConfig ==
    /\ config.agentKeys \cap config.adminKeys = {}
    /\ (config.agentKeys \cup config.adminKeys) \cap (Weak \cup Generated) = {}

\* Once the process listens or tries to, nothing but its exit changes what it was.
ConfigInv == process \notin {"off", "exited"} /\ production => SoundConfig

\* The checks of resolveCliConfig and enforceSecurityPolicy, together.
LEMMA StartedSound ==
    ASSUME NEW f \in Flags, NEW e \in Environ, Starts(f, e)
    PROVE  ConfigInv'
<1> DEFINE o == ResolveCliConfig(f, e)
           c == ResolveConfig(o)
<1>1. CASE ~o.refused /\ WellFormed(o) /\ EnforceSecurityPolicy(c, e.production)
  <2>1. config' = c /\ production' = e.production
    BY <1>1 DEF Starts
  <2>2. c.agentKeys \subseteq o.agentKeys /\ c.adminKeys \subseteq o.adminKeys
    BY DEF ResolveConfig, NormalizeKeys
  <2>3. e.production => (o.agentKeys \cup o.adminKeys) \cap Generated = {}
    BY <1>1 DEF ResolveCliConfig
  <2>4. e.production => /\ c.agentKeys \cap c.adminKeys = {}
                        /\ (c.agentKeys \cup c.adminKeys) \cap Weak = {}
    BY <1>1 DEF EnforceSecurityPolicy
  <2>5. e.production => (c.agentKeys \cup c.adminKeys) \cap (Weak \cup Generated) = {}
    BY <2>2, <2>3, <2>4
  <2> HIDE DEF o, c
  <2> QED
    BY <2>1, <2>4, <2>5 DEF ConfigInv, SoundConfig
<1>2. CASE ~(~o.refused /\ WellFormed(o) /\ EnforceSecurityPolicy(c, e.production))
  <2>1. process' = "exited"
    BY <1>2 DEF Starts
  <2> QED
    BY <2>1 DEF ConfigInv
<1> QED
  BY <1>1, <1>2

LEMMA ConfigStep ==
    ASSUME ConfigInv, [ServerNext]_serverVars
    PROVE  ConfigInv'
<1>1. CASE process = "off" /\ \E f \in Flags, e \in Environ : Starts(f, e)
  BY <1>1, StartedSound
<1>2. CASE FailsToListen \/ Exits
  BY <1>2 DEF FailsToListen, Exits, ConfigInv
<1>3. CASE \/ Listens \/ SignalArrives \/ RivalisStops
  BY <1>3 DEF Listens, SignalArrives, RivalisStops, ConfigInv, SoundConfig
<1>4. CASE \/ \E a \in Addresses, bearer, query \in Presented, route \in {"events", "other"} :
                Request(a, bearer, query, route)
           \/ \E s \in Streams : StreamCloses(s)
           \/ Ticks
  BY <1>4 DEF Request, StreamCloses, Ticks, ConfigInv, SoundConfig
<1>5. CASE UNCHANGED serverVars
  BY <1>5 DEF serverVars, ConfigInv, SoundConfig
<1> QED
  BY <1>1, <1>2, <1>3, <1>4, <1>5 DEF ServerNext

\* A key that may join as an agent opens no route, and one that does either is neither
\* short nor made up: matchKey over a sound configuration.
LEMMA SoundServesOne ==
    ASSUME process = "up", production, ConfigInv
    PROVE  KeysServeOneAudience
<1>1. SoundConfig
  BY DEF ConfigInv
<1>2. ASSUME NEW k, NEW route, MatchedKey(k, Absent, route) # Absent \/ MatchedKey(Absent, k, route) # Absent
      PROVE  k \in config.adminKeys
  BY <1>2 DEF MatchedKey, MatchKey
<1> QED
  BY <1>1, <1>2 DEF KeysServeOneAudience, SoundConfig, AgentMayJoin, MatchKey

\* A process that is up in production admits nobody with a key that is short, made up,
\* or good for the other audience (cli.ts, Config.ts, AgentAuthenticator, authHook).
THEOREM KeysAlwaysServeOne == ServerSpec => []KeysServeOneAudience
<1>1. ServerInit => ConfigInv
  BY DEF ServerInit, ConfigInv
<1>2. ConfigInv => KeysServeOneAudience
  BY SoundServesOne DEF KeysServeOneAudience
<1> QED
  BY <1>1, <1>2, ConfigStep, PTL DEF ServerSpec

-----------------------------------------------------------------------------
(* AuthThrottle.                                                           *)

Account == [ip : Addresses, tokens : 0..Full, last : Nat]
Tally == [tokens : 0..Full, last : Nat]

\* The entries of a map say what the buckets that are never dropped say, at the time t.
Tells(s, id, c, t) ==
    /\ s \in Seq(Account)
    /\ \A e, f \in Range(s) : e.ip = f.ip => e = f
    /\ \A e \in Range(s) : /\ e.last = id[e.ip].last /\ e.tokens >= id[e.ip].tokens
                           /\ e.ip \notin c => e.tokens = id[e.ip].tokens
    /\ \A a \in Addresses \ c : (\A e \in Range(s) : e.ip # a) =>
           id[a].tokens + (t - id[a].last) * Limit >= Full

ThrottleInv ==
    /\ now \in Nat
    /\ ideal \in [Addresses -> Tally] /\ \A a \in Addresses : ideal[a].last <= now
    /\ Tells(buckets, ideal, cut, now)

LEMMA Rates == Limit \in Nat \ {0} /\ Window \in Nat \ {0} /\ MaxBuckets \in Nat \ {0} /\ Full \in Nat
  BY ThrottleAssumption DEF Full

\* What time brings.
LEMMA TimeFills ==
    ASSUME NEW t \in Nat, NEW l \in Nat, l <= t, NEW u, u = t + 1
    PROVE  (t - l) * Limit \in Nat /\ (u - l) * Limit \in Nat /\ (u - l) * Limit >= (t - l) * Limit
<1>1. t - l \in Nat /\ u - l = t - l + 1
  OBVIOUS
<1>2. (u - l) * Limit = (t - l) * Limit + Limit
  BY <1>1, Rates
<1> QED
  BY <1>1, <1>2, Rates

LEMMA RefilledIs ==
    ASSUME NEW b, b.tokens \in 0..Full, b.last \in Nat, NEW t \in Nat, b.last <= t
    PROVE  /\ Refilled(b, t) \in 0..Full
           /\ b.tokens + (t - b.last) * Limit >= Full => Refilled(b, t) = Full
           /\ Refilled(b, t) >= Full => b.tokens + (t - b.last) * Limit >= Full
           /\ \A d : d.last = b.last /\ d.tokens \in 0..Full /\ d.tokens >= b.tokens
                        => Refilled(d, t) >= Refilled(b, t)
<1> DEFINE gained == (t - b.last) * Limit
<1>1. gained \in Nat
  BY TimeFills
<1>2. Refilled(b, t) = IF b.tokens + gained > Full THEN Full ELSE b.tokens + gained
  BY DEF Refilled
<1>3. \A d : d.last = b.last => Refilled(d, t) = IF d.tokens + gained > Full THEN Full ELSE d.tokens + gained
  BY DEF Refilled
<1> HIDE DEF gained
<1>4. /\ Refilled(b, t) \in 0..Full
      /\ b.tokens + gained >= Full => Refilled(b, t) = Full
      /\ Refilled(b, t) >= Full => b.tokens + gained >= Full
  BY <1>1, <1>2, Rates
<1>5. \A d : d.last = b.last /\ d.tokens \in 0..Full /\ d.tokens >= b.tokens
                        => Refilled(d, t) >= Refilled(b, t)
  BY <1>1, <1>2, <1>3, Rates
<1> QED
  BY <1>4, <1>5 DEF gained

\* An address has an entry where IndexOf finds it.
LEMMA Found ==
    ASSUME NEW s, NEW a
    PROVE  IndexOf(s, a) = {} <=> \A e \in Range(s) : e.ip # a
  BY DEF IndexOf, Range

LEMMA PrunedTells ==
    ASSUME ThrottleInv
    PROVE  Tells(Pruned, ideal, cut, now) /\ Pruned \in Seq(Account)
<1>1. buckets \in Seq(Account)
  BY DEF ThrottleInv, Tells
<1>2. CASE SweepDue
  <2> DEFINE T == {b \in Range(buckets) : ~Spent(b)}
  <2>1. Pruned = Keeping(buckets, T)
    BY <1>2 DEF Pruned
  <2>2. Pruned \in Seq(Account) /\ Range(Pruned) = Range(buckets) \cap T
    BY <1>1, <2>1, KeepingMembers
  <2>3. Range(Pruned) = {b \in Range(buckets) : ~Spent(b)}
    BY <2>2
  <2> HIDE DEF T
  <2>4. \A a \in Addresses \ cut : (\A e \in Range(Pruned) : e.ip # a) =>
           ideal[a].tokens + (now - ideal[a].last) * Limit >= Full
    <3> SUFFICES ASSUME NEW a \in Addresses \ cut, \A e \in Range(Pruned) : e.ip # a
                 PROVE  ideal[a].tokens + (now - ideal[a].last) * Limit >= Full
      OBVIOUS
    <3>1. CASE \A e \in Range(buckets) : e.ip # a
      BY <3>1 DEF ThrottleInv, Tells
    <3>2. ASSUME NEW e \in Range(buckets), e.ip = a
          PROVE  ideal[a].tokens + (now - ideal[a].last) * Limit >= Full
      <4>1. Spent(e)
        BY <2>3, <3>2
      <4>2. e.tokens = ideal[a].tokens /\ e.last = ideal[a].last
        BY <3>2 DEF ThrottleInv, Tells
      <4>3. e.tokens \in 0..Full /\ e.last \in Nat /\ e.last <= now /\ now \in Nat
        BY <4>2 DEF ThrottleInv, Tally
      <4>4. Refilled(e, now) >= Full
        BY <4>1 DEF Spent
      <4> QED
        BY <4>2, <4>3, <4>4, RefilledIs
    <3> QED
      BY <3>1, <3>2
  <2> QED
    BY <2>2, <2>3, <2>4 DEF ThrottleInv, Tells
<1>3. CASE ~SweepDue
  BY <1>1, <1>3 DEF Pruned, ThrottleInv
<1> QED
  BY <1>2, <1>3

-----------------------------------------------------------------------------
(* The cap.                                                                *)

\* There is a bucket touched longest ago.
LEMMA OldestIs ==
    ASSUME NEW s \in Seq(Account), s # <<>>
    PROVE  /\ Oldest(s) \in DOMAIN s
           /\ \A j \in DOMAIN s : \/ s[Oldest(s)].last < s[j].last
                                  \/ s[Oldest(s)].last = s[j].last /\ Oldest(s) <= j
<1>1. DOMAIN s = 1..Len(s) /\ Len(s) \in Nat \ {0}
  OBVIOUS
<1>2. \A j \in DOMAIN s : s[j] \in Account
  BY <1>1
<1>3. \A j \in DOMAIN s : s[j].last \in Nat
  BY <1>2 DEF Account
<1> DEFINE F == {s[j].last : j \in DOMAIN s}
<1>4. PICK l \in F : \A k \in F : l <= k
  <2>1. F \subseteq Nat /\ F # {}
    BY <1>1, <1>3
  <2> HIDE DEF F
  <2> QED
    BY <2>1, LeastOne
<1> DEFINE G == {j \in DOMAIN s : s[j].last = l}
<1>5. PICK i \in G : \A k \in G : i <= k
  <2>1. G \subseteq Nat /\ G # {}
    BY <1>1, <1>4
  <2> HIDE DEF G
  <2> QED
    BY <2>1, LeastOne
<1>6. \A j \in DOMAIN s : s[i].last < s[j].last \/ (s[i].last = s[j].last /\ i <= j)
  <2> SUFFICES ASSUME NEW j \in DOMAIN s PROVE s[i].last < s[j].last \/ (s[i].last = s[j].last /\ i <= j)
    OBVIOUS
  <2>1. l <= s[j].last /\ s[i].last = l /\ l \in Nat /\ s[j].last \in Nat
    BY <1>3, <1>4, <1>5
  <2> QED
    BY <1>5, <2>1
<1> DEFINE First(k) == \A j \in DOMAIN s : s[k].last < s[j].last \/ (s[k].last = s[j].last /\ k <= j)
<1>7. i \in DOMAIN s /\ First(i)
  BY <1>5, <1>6
<1>8. Oldest(s) = CHOOSE k \in DOMAIN s : First(k)
  BY DEF Oldest
<1> HIDE DEF First
<1>9. Oldest(s) \in DOMAIN s /\ First(Oldest(s))
  BY <1>7, <1>8
<1> QED
  BY <1>9 DEF First

\* The cap drops one of the others, never the bucket that was just made.
LEMMA Evicted ==
    ASSUME NEW s \in Seq(Account), NEW e \in Account, e.last = now,
           \A f \in Range(s) : f.last <= now, now \in Nat
    PROVE  LET after == EvictIfOver(Append(s, e)) IN
           after \in Seq(Account) /\ Range(after) \subseteq Range(s) \cup {e} /\ e \in Range(after)
<1> DEFINE t == Append(s, e)
           n == Len(t)
<1>1. t \in Seq(Account) /\ Range(t) = Range(s) \cup {e}
  BY RangeOfAppend
<1>2. n = Len(s) + 1 /\ Len(s) \in Nat /\ t[n] = e /\ t # <<>> /\ DOMAIN t = 1..n
  OBVIOUS
<1>3. \A j \in 1..Len(s) : t[j] = s[j] /\ s[j] \in Range(s)
  BY DEF Range
<1> HIDE DEF t
<1>4. CASE n <= MaxBuckets
  BY <1>1, <1>4 DEF EvictIfOver, t
<1>5. CASE ~(n <= MaxBuckets)
  <2> DEFINE i == Oldest(t)
  <2>1. i \in 1..n /\ \A j \in 1..n : t[i].last < t[j].last \/ (t[i].last = t[j].last /\ i <= j)
    BY <1>1, <1>2, OldestIs
  <2> HIDE DEF i
  <2>2. i # n
    <3> SUFFICES ASSUME i = n PROVE FALSE
      OBVIOUS
    <3>1. 1 \in 1..Len(s) /\ 1 \in 1..n /\ ~(n <= 1)
      BY <1>2, <1>5, Rates
    <3>2. t[1] \in Range(s) /\ t[1] \in Account /\ t[n].last = now
      BY <1>1, <1>2, <1>3, <3>1
    <3>3. t[1].last <= now /\ t[1].last \in Nat
      BY <3>2 DEF Account
    <3> QED
      BY <2>1, <3>1, <3>2, <3>3
  <2> DEFINE r == RemoveAt(t, i)
  <2>3. r = SubSeq(t, 1, i - 1) \o SubSeq(t, i + 1, n)
    BY DEF RemoveAt
  <2> HIDE DEF r
  <2>4. /\ r \in Seq(Account) /\ Len(r) = n - 1
        /\ \A k \in 1..n - 1 : r[k] = IF k < i THEN t[k] ELSE t[k + 1]
    BY <1>1, <2>1, <2>3, TakenOut
  <2>5. DOMAIN r = 1..n - 1
    BY <2>4
  <2>6. Range(r) \subseteq Range(t)
    <3>1. \A k \in 1..n - 1 : k \in 1..n /\ k + 1 \in 1..n
      BY <1>2, <2>1
    <3>2. \A k \in 1..n - 1 : \E l \in 1..n : r[k] = t[l]
      BY <2>4, <3>1
    <3> QED
      BY <1>2, <2>5, <3>2 DEF Range
  <2>7. e \in Range(r)
    <3>1. n - 1 \in 1..n - 1 /\ ~(n - 1 < i) /\ n - 1 + 1 = n
      BY <1>2, <2>1, <2>2
    <3>2. r[n - 1] = t[n]
      BY <2>4, <3>1
    <3> QED
      BY <1>2, <2>5, <3>1, <3>2 DEF Range
  <2>8. EvictIfOver(t) = r
    BY <1>5 DEF EvictIfOver, r, i
  <2> QED
    BY <1>1, <2>4, <2>6, <2>7, <2>8 DEF t
<1> QED
  BY <1>4, <1>5

\* The entry of one address is replaced by g.
Replaced(s, a, g) == [i \in DOMAIN s |-> IF s[i].ip = a THEN g ELSE s[i]]

LEMMA ReplacedMembers ==
    ASSUME NEW s \in Seq(Account), NEW a, NEW g \in Account, NEW e \in Range(s), e.ip = a
    PROVE  /\ Replaced(s, a, g) \in Seq(Account)
           /\ Range(Replaced(s, a, g)) = {f \in Range(s) : f.ip # a} \cup {g}
<1> DEFINE r == Replaced(s, a, g)
<1>1. DOMAIN s = 1..Len(s) /\ Len(s) \in Nat /\ \A i \in 1..Len(s) : s[i] \in Account
  OBVIOUS
<1>2. r = [i \in 1..Len(s) |-> IF s[i].ip = a THEN g ELSE s[i]]
  BY <1>1 DEF Replaced
<1> HIDE DEF r
<1>3. r \in [1..Len(s) -> Account]
  BY <1>1, <1>2
<1>4. r \in Seq(Account) /\ DOMAIN r = 1..Len(s)
  BY <1>1, <1>3
<1>5. PICK k \in 1..Len(s) : s[k].ip = a
  BY <1>1 DEF Range
<1>6. r[k] = g
  BY <1>2, <1>5
<1>7. Range(r) = {f \in Range(s) : f.ip # a} \cup {g}
  BY <1>1, <1>2, <1>4, <1>5, <1>6 DEF Range
<1> QED
  BY <1>4, <1>7 DEF r

\* The buckets after a was looked up: a has one, made up to date, and everybody else
\* what the sweep and the cap have left.
LookedUp(s, a) ==
    /\ s \in Seq(Account)
    /\ \A e, f \in Range(s) : e.ip = f.ip => e = f
    /\ \A e \in Range(s) : e.ip # a => e \in Range(Pruned)
    /\ \E e \in Range(s) : /\ e.ip = a /\ e.last = now
                           /\ e.tokens >= Refilled(ideal[a], now)
                           /\ a \notin cut => e.tokens = Refilled(ideal[a], now)

LEMMA RefillLooksUp ==
    ASSUME ThrottleInv, NEW a \in Addresses
    PROVE  LookedUp(Refill(a), a)
<1> DEFINE kept == Pruned
           s == Refill(a)
<1>1. Tells(kept, ideal, cut, now) /\ kept \in Seq(Account) /\ now \in Nat
  BY PrunedTells DEF ThrottleInv
<1>2. /\ ideal[a].tokens \in 0..Full /\ ideal[a].last \in Nat /\ ideal[a].last <= now
      /\ \A b \in Addresses : ideal[b].last <= now
  BY DEF ThrottleInv, Tally
<1>3. Refilled(ideal[a], now) \in 0..Full
  BY <1>1, <1>2, RefilledIs
<1>4. \A e \in Range(kept) : e \in Account /\ e.ip \in Addresses /\ e.tokens \in 0..Full /\ e.last <= now
  <2> SUFFICES ASSUME NEW e \in Range(kept)
               PROVE  e \in Account /\ e.ip \in Addresses /\ e.tokens \in 0..Full /\ e.last <= now
    OBVIOUS
  <2>1. e \in Account
    BY <1>1 DEF Range
  <2>2. e.last = ideal[e.ip].last /\ e.ip \in Addresses /\ e.tokens \in 0..Full
    BY <1>1, <2>1 DEF Tells, Account
  <2> QED
    BY <1>2, <2>1, <2>2
<1> HIDE DEF kept
<1>5. CASE IndexOf(kept, a) = {}
  <2> DEFINE e == [ip |-> a, tokens |-> Full, last |-> now]
  <2>1. e \in Account /\ e.ip = a /\ e.last = now /\ e.tokens = Full
    BY <1>1, Rates DEF Account
  <2>2. s = EvictIfOver(Append(kept, e))
    BY <1>5 DEF Refill, kept
  <2> HIDE DEF e, s
  <2>3. s \in Seq(Account) /\ Range(s) \subseteq Range(kept) \cup {e} /\ e \in Range(s)
    BY <1>1, <1>4, <2>1, <2>2, Evicted
  <2>4. \A f \in Range(kept) : f.ip # a
    BY <1>5, Found
  <2>5. \A f, g \in Range(s) : f.ip = g.ip => f = g
    BY <1>1, <2>1, <2>3, <2>4 DEF Tells
  <2>6. a \notin cut => Refilled(ideal[a], now) = Full
    BY <1>1, <1>2, <2>4, RefilledIs DEF Tells
  <2>7. LookedUp(s, a)
    BY <1>3, <2>1, <2>3, <2>5, <2>6 DEF LookedUp, kept
  <2> QED
    BY <2>7 DEF s
<1>6. CASE IndexOf(kept, a) # {}
  <2>1. PICK e \in Range(kept) : e.ip = a
    BY <1>6, Found
  <2> DEFINE g == [ip |-> a, tokens |-> Refilled(e, now), last |-> now]
  <2>2. e.tokens \in 0..Full /\ e.last \in Nat /\ e.last <= now
    BY <1>4, <2>1 DEF Account
  <2>3. Refilled(e, now) \in 0..Full
    BY <1>1, <2>2, RefilledIs
  <2>4. g \in Account /\ g.ip = a /\ g.last = now /\ g.tokens = Refilled(e, now)
    BY <1>1, <2>3 DEF Account
  <2>5. s = Replaced(kept, a, g)
    <3>1. s = [i \in DOMAIN kept |-> IF kept[i].ip = a
                   THEN [ip |-> a, tokens |-> Refilled(kept[i], now), last |-> now] ELSE kept[i]]
      BY <1>6 DEF Refill, kept
    <3>2. \A i \in DOMAIN kept : kept[i].ip = a => kept[i] = e
      BY <1>1, <2>1 DEF Tells, Range
    <3>3. \A i \in DOMAIN kept :
              (IF kept[i].ip = a THEN [ip |-> a, tokens |-> Refilled(kept[i], now), last |-> now] ELSE kept[i])
              = IF kept[i].ip = a THEN g ELSE kept[i]
      BY <3>2
    <3> HIDE DEF s, g
    <3> QED
      BY <3>1, <3>3 DEF Replaced
  <2> HIDE DEF g, s
  <2>6. s \in Seq(Account) /\ Range(s) = {f \in Range(kept) : f.ip # a} \cup {g}
    BY <1>1, <2>1, <2>4, <2>5, ReplacedMembers
  <2>7. e.last = ideal[a].last /\ e.tokens >= ideal[a].tokens /\ (a \notin cut => e.tokens = ideal[a].tokens)
    BY <1>1, <2>1 DEF Tells
  <2>8. Refilled(e, now) >= Refilled(ideal[a], now)
    BY <1>1, <1>2, <2>2, <2>7, RefilledIs
  <2>9. a \notin cut => Refilled(e, now) = Refilled(ideal[a], now)
    BY <2>7 DEF Refilled
  <2>10. \A f, h \in Range(s) : f.ip = h.ip => f = h
    BY <1>1, <2>4, <2>6 DEF Tells
  <2>11. LookedUp(s, a)
    BY <2>4, <2>6, <2>8, <2>9, <2>10 DEF LookedUp, kept
  <2> QED
    BY <2>11 DEF s
<1> QED
  BY <1>5, <1>6

LEMMA Lessening ==
    ASSUME NEW m \in 0..Full
    PROVE  Less(m) \in 0..Full /\ \A k \in 0..Full : k >= m => Less(k) >= Less(m)
  BY Rates DEF Less

\* What a request leaves in the map, and in the buckets that are never dropped.
LEMMA Settled ==
    ASSUME ThrottleInv, NEW a \in Addresses, NEW s, LookedUp(s, a), NEW fails \in BOOLEAN,
           Throttle(a, s, fails), now' = now
    PROVE  ThrottleInv'
<1> DEFINE own == [tokens |-> Refilled(ideal[a], now), last |-> now]
           i == IF fails THEN [own EXCEPT !.tokens = Less(@)] ELSE own
<1>1. /\ ideal[a].tokens \in 0..Full /\ ideal[a].last \in Nat /\ ideal[a].last <= now /\ now \in Nat
      /\ ideal \in [Addresses -> Tally] /\ \A b \in Addresses : ideal[b].last <= now
  BY DEF ThrottleInv, Tally
<1>2. Refilled(ideal[a], now) \in 0..Full
  BY <1>1, RefilledIs
<1>3. Tells(Pruned, ideal, cut, now)
  BY PrunedTells
<1>4. ideal' = [ideal EXCEPT ![a] = i]
  BY DEF Throttle
<1>5. /\ i \in Tally /\ i.last = now
      /\ i.tokens = IF fails THEN Less(Refilled(ideal[a], now)) ELSE Refilled(ideal[a], now)
  BY <1>1, <1>2, Lessening DEF Tally
<1> HIDE DEF own, i
<1>6. PICK e \in Range(s) : /\ e.ip = a /\ e.last = now
                            /\ e.tokens >= Refilled(ideal[a], now)
                            /\ a \notin cut => e.tokens = Refilled(ideal[a], now)
  BY DEF LookedUp
<1>7. s \in Seq(Account) /\ e \in Account /\ e.tokens \in 0..Full
  <2>1. s \in Seq(Account)
    BY DEF LookedUp
  <2>2. e \in Account
    BY <1>6, <2>1 DEF Range
  <2> QED
    BY <2>1, <2>2 DEF Account
<1> DEFINE g == IF fails THEN [e EXCEPT !.tokens = Less(@)] ELSE e
<1>8. /\ g \in Account /\ g.ip = a /\ g.last = now
      /\ g.tokens = IF fails THEN Less(e.tokens) ELSE e.tokens
  BY <1>6, <1>7, Lessening DEF Account
<1>9. g.tokens >= i.tokens /\ (a \notin cut => g.tokens = i.tokens)
  <2>1. Less(e.tokens) >= Less(Refilled(ideal[a], now))
    BY <1>2, <1>6, <1>7, Lessening
  <2> HIDE DEF g
  <2> QED
    BY <1>2, <1>5, <1>6, <1>7, <1>8, <2>1
<1>10. buckets' \in Seq(Account) /\ Range(buckets') = {f \in Range(s) : f.ip # a} \cup {g}
  <2>1. CASE fails
    <3>1. buckets' = [k \in DOMAIN s |-> IF s[k].ip = a THEN [s[k] EXCEPT !.tokens = Less(@)] ELSE s[k]]
      BY <2>1 DEF Throttle, RecordFailure
    <3>2. \A k \in DOMAIN s : s[k].ip = a => s[k] = e
      BY <1>6 DEF LookedUp, Range
    <3>3. g = [e EXCEPT !.tokens = Less(@)]
      BY <2>1
    <3> HIDE DEF g
    <3>4. buckets' = Replaced(s, a, g)
      BY <3>1, <3>2, <3>3 DEF Replaced
    <3> QED
      BY <1>6, <1>7, <1>8, <3>4, ReplacedMembers
  <2>2. CASE ~fails
    <3>1. buckets' = s /\ g = e
      BY <2>2 DEF Throttle
    <3>2. Range(s) = {f \in Range(s) : f.ip # a} \cup {e}
      BY <1>6 DEF LookedUp
    <3> QED
      BY <1>7, <3>1, <3>2
  <2> QED
    BY <2>1, <2>2
<1> HIDE DEF g
<1>11. cut \subseteq cut' /\ \A b \in Addresses \ cut' :
           (\E f \in Range(Pruned) : f.ip = b) => \E f \in Range(s) : f.ip = b
  BY Found DEF Throttle
<1>12. ideal'[a] = i /\ \A b \in Addresses \ {a} : ideal'[b] = ideal[b]
  BY <1>1, <1>4
<1>13. \A f \in Range(buckets') : f = g \/ (f.ip # a /\ f \in Range(Pruned))
  BY <1>10 DEF LookedUp
<1>14. \A f \in Range(Pruned) : f.ip \in Addresses
  <2>1. \A f \in Range(Pruned) : f \in Account
    BY PrunedTells DEF Range
  <2> QED
    BY <2>1 DEF Account
<1>15. \A f, h \in Range(buckets') : f.ip = h.ip => f = h
  BY <1>3, <1>8, <1>13 DEF Tells
<1>16. \A f \in Range(buckets') :
          /\ f.last = ideal'[f.ip].last /\ f.tokens >= ideal'[f.ip].tokens
          /\ f.ip \notin cut' => f.tokens = ideal'[f.ip].tokens
  BY <1>3, <1>5, <1>8, <1>9, <1>11, <1>12, <1>13, <1>14 DEF Tells
<1>17. \A b \in Addresses \ cut' : (\A f \in Range(buckets') : f.ip # b) =>
          ideal'[b].tokens + (now - ideal'[b].last) * Limit >= Full
  <2> SUFFICES ASSUME NEW b \in Addresses \ cut', \A f \in Range(buckets') : f.ip # b
               PROVE  ideal'[b].tokens + (now - ideal'[b].last) * Limit >= Full
    OBVIOUS
  <2>1. b # a
    BY <1>8, <1>10
  <2>2. \A f \in Range(Pruned) : f.ip # b
    BY <1>10, <1>11, <2>1
  <2> QED
    BY <1>3, <1>11, <1>12, <2>1, <2>2 DEF Tells
<1>18. ideal' \in [Addresses -> Tally] /\ \A b \in Addresses : ideal'[b].last <= now'
  BY <1>1, <1>4, <1>5, <1>12
<1>19. Tells(buckets', ideal', cut', now')
  BY <1>10, <1>15, <1>16, <1>17 DEF Tells
<1> QED
  BY <1>1, <1>18, <1>19 DEF ThrottleInv

LEMMA ThrottleStep == ThrottleInv /\ [ServerNext]_serverVars => ThrottleInv'
<1> SUFFICES ASSUME ThrottleInv, [ServerNext]_serverVars PROVE ThrottleInv'
  OBVIOUS
<1>1. ASSUME NEW a \in Addresses, NEW bearer, NEW query, NEW route, Request(a, bearer, query, route)
      PROVE  ThrottleInv'
  <2> DEFINE key == MatchedKey(bearer, query, route)
             fails == ~(TokensOf(Refill(a), a) < Window) /\ key = Absent
  <2>1. Throttle(a, Refill(a), fails) /\ now' = now
    BY <1>1 DEF Request
  <2>2. fails \in BOOLEAN
    OBVIOUS
  <2> HIDE DEF fails
  <2> QED
    BY <2>1, <2>2, RefillLooksUp, Settled
<1>2. ASSUME Ticks PROVE ThrottleInv'
  <2>1. now \in Nat /\ now' = now + 1 /\ UNCHANGED throttleVars
    BY <1>2 DEF Ticks, ThrottleInv
  <2>2. buckets' = buckets /\ ideal' = ideal /\ cut' = cut
    BY <2>1 DEF throttleVars
  <2>3. \A a \in Addresses : /\ ideal[a].tokens \in 0..Full /\ ideal[a].last \in Nat
                             /\ ideal[a].last <= now /\ ideal[a].last <= now'
    BY <2>1 DEF ThrottleInv, Tally
  <2>4. ASSUME NEW a \in Addresses, ideal[a].tokens + (now - ideal[a].last) * Limit >= Full
        PROVE  ideal[a].tokens + (now' - ideal[a].last) * Limit >= Full
    <3> DEFINE x == (now - ideal[a].last) * Limit
               y == (now' - ideal[a].last) * Limit
    <3>1. x \in Nat /\ y >= x
      BY <2>1, <2>3, TimeFills
    <3>2. y \in Nat
      BY <2>1, <2>3, TimeFills
    <3>3. ideal[a].tokens + x >= Full
      BY <2>4
    <3> HIDE DEF x, y
    <3>4. ideal[a].tokens + y >= Full
      BY <2>3, <3>1, <3>2, <3>3, Rates
    <3> QED
      BY <3>4 DEF y
  <2> QED
    BY <2>1, <2>2, <2>3, <2>4 DEF ThrottleInv, Tells
<1>3. CASE UNCHANGED <<now, throttleVars>>
  BY <1>3 DEF throttleVars, ThrottleInv, Tells
<1>4. \/ UNCHANGED <<now, throttleVars>> \/ Ticks
      \/ \E a \in Addresses, bearer, query \in Presented, route \in {"events", "other"} :
           Request(a, bearer, query, route)
  BY DEF ServerNext, Starts, Listens, FailsToListen, StreamCloses, SignalArrives, RivalisStops, Exits, serverVars
<1> QED
  BY <1>1, <1>2, <1>3, <1>4

LEMMA ThrottleStart == ServerInit => ThrottleInv
<1> SUFFICES ASSUME ServerInit PROVE ThrottleInv
  OBVIOUS
<1>1. /\ now = 0 /\ buckets = <<>> /\ cut = {}
      /\ ideal = [a \in Addresses |-> [tokens |-> Full, last |-> 0]]
  BY DEF ServerInit, Full
<1>2. buckets \in Seq(Account) /\ Range(buckets) = {}
  BY <1>1 DEF Range
<1>3. [tokens |-> Full, last |-> 0] \in Tally
  BY Rates DEF Tally
<1>4. \A a \in Addresses : ideal[a].tokens + (now - ideal[a].last) * Limit >= Full
  BY <1>1, Rates
<1> QED
  BY <1>1, <1>2, <1>3, <1>4 DEF ThrottleInv, Tells

LEMMA ThrottleAnswers == ThrottleInv => ThrottleAsIdeal
<1> SUFFICES ASSUME ThrottleInv, NEW a \in Addresses
             PROVE  LET own == IndexOf(buckets, a)
                        tokens == IF own = {} THEN Full ELSE Refilled(buckets[CHOOSE i \in own : TRUE], now)
                    IN  /\ tokens >= Refilled(ideal[a], now)
                        /\ a \notin cut => tokens = Refilled(ideal[a], now)
  BY DEF ThrottleAsIdeal
<1> DEFINE own == IndexOf(buckets, a)
           i == CHOOSE k \in own : TRUE
<1>1. /\ ideal[a].tokens \in 0..Full /\ ideal[a].last \in Nat /\ ideal[a].last <= now /\ now \in Nat
      /\ Tells(buckets, ideal, cut, now)
  BY DEF ThrottleInv, Tally
<1>2. CASE own = {}
  <2>1. \A e \in Range(buckets) : e.ip # a
    BY <1>2, Found
  <2>2. Refilled(ideal[a], now) \in 0..Full /\ (a \notin cut => Refilled(ideal[a], now) = Full)
    BY <1>1, <2>1, RefilledIs DEF Tells
  <2> QED
    BY <1>2, <2>2, Rates
<1>3. CASE own # {}
  <2>1. i \in DOMAIN buckets /\ buckets[i].ip = a
    BY <1>3 DEF IndexOf
  <2> HIDE DEF i
  <2>2. buckets[i] \in Range(buckets) /\ buckets[i] \in Account
    BY <1>1, <2>1 DEF Range, Tells
  <2>3. /\ buckets[i].last = ideal[a].last /\ buckets[i].tokens >= ideal[a].tokens
        /\ a \notin cut => buckets[i].tokens = ideal[a].tokens
        /\ buckets[i].tokens \in 0..Full
    BY <1>1, <2>1, <2>2 DEF Tells, Account
  <2>4. Refilled(buckets[i], now) >= Refilled(ideal[a], now)
    BY <1>1, <2>3, RefilledIs
  <2>5. a \notin cut => Refilled(buckets[i], now) = Refilled(ideal[a], now)
    BY <2>3 DEF Refilled
  <2> QED
    BY <1>3, <2>4, <2>5 DEF i
<1> QED
  BY <1>2, <1>3

\* Pruning and the cap never show: an address is as near to being blocked as if its
\* bucket had been kept for ever, for any addresses, limits and requests; one that the
\* cap has dropped is never nearer (AuthThrottle.prune, evictIfOver).
THEOREM PruningNeverShows == ServerSpec => []ThrottleAsIdeal
<1>1. ServerSpec => []ThrottleInv
  BY ThrottleStart, ThrottleStep, PTL DEF ServerSpec
<1> QED
  BY <1>1, ThrottleAnswers, PTL
=============================================================================
