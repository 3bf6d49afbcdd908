----------------------- MODULE FleetControlPlaneProofs -----------------------
(***************************************************************************)
(* The orchestrator and its agents, for any processes, rooms, commands,    *)
(* capacities and faults.  First the counters of FleetState, which count   *)
(* what they say (ReservationsBalance).  Then what is under way between    *)
(* the two sides: one poll or reply per connection, each command once, and *)
(* frames that arrive in the order they were sent.  From this follow the   *)
(* promises that relate both ends: drain confirmations, the place of each  *)
(* room, the capacity of each agent, and the status placement goes by.     *)
(***************************************************************************)
EXTENDS FleetControlPlane, FiniteSetTheorems, TLAPS

\* What is said of a command wherever it is.
Issued(c) == c.inst \in Instance /\ (c.op = "create" => c.room \in RoomId)

\* Pending commands, and what is reserved for them.
PendBooks ==
    /\ IsFiniteSet(pending)
    /\ \A c \in pending : Issued(c)
    /\ \A c, d \in Creates(pending) : c.room = d.room => c = d
    /\ reserved \in [Instance -> Nat]
    /\ \A i \in Instance : reserved[i] = Cardinality(Creates(PendingOf(i)))
    /\ reservedIds = IdsOf(pending)

\* Holds, and their number.
HoldBooks ==
    /\ held \in [RoomId -> Instance \cup {Unknown}]
    /\ heldCount \in [Instance -> Nat]
    /\ \A i \in Instance : IsFiniteSet(HeldBy(i)) /\ heldCount[i] = Cardinality(HeldBy(i))

-----------------------------------------------------------------------------
(* Reservations.                                                           *)

LEMMA Unreserved ==
    ASSUME PendBooks
    PROVE  /\ \A i \in Instance : IsFiniteSet(PendingOf(i)) /\ IsFiniteSet(Creates(PendingOf(i)))
           /\ IsFiniteSet(Creates(pending))
<1>1. ASSUME NEW S \in SUBSET pending PROVE IsFiniteSet(S)
  BY <1>1, FS_Subset DEF PendBooks
<1> QED
  BY <1>1 DEF PendingOf, Creates

\* A command is sent, and a create reserves its slot and its id.
LEMMA SentCreate ==
    ASSUME PendBooks, NEW c, Issued(c), c.op = "create", c.room \notin reservedIds,
           Sent(c), Reserve(c)
    PROVE  PendBooks'
<1>1. pending' = pending \cup {c} /\ reservedIds' = reservedIds \cup {c.room}
  BY DEF Sent, Reserve
<1>2. c \notin pending
  BY DEF PendBooks, IdsOf, Creates
<1>3. IsFiniteSet(pending')
  BY <1>1, FS_AddElement DEF PendBooks
<1>4. \A d \in pending' : Issued(d)
  BY <1>1 DEF PendBooks
<1>5. \A d, e \in Creates(pending') : d.room = e.room => d = e
  BY <1>1 DEF PendBooks, IdsOf, Creates
<1>6. reserved' \in [Instance -> Nat]
  BY DEF PendBooks, Reserve, Issued
<1>7. ASSUME NEW i \in Instance
      PROVE  reserved'[i] = Cardinality(Creates(PendingOf(i))')
  <2>1. CASE i = c.inst
    <3>1. Creates(PendingOf(i))' = Creates(PendingOf(i)) \cup {c}
      BY <1>1, <2>1 DEF Creates, PendingOf
    <3>2. c \notin Creates(PendingOf(i)) /\ IsFiniteSet(Creates(PendingOf(i)))
      BY <1>2, <1>7, Unreserved DEF Creates, PendingOf
    <3>3. Cardinality(Creates(PendingOf(i))') = Cardinality(Creates(PendingOf(i))) + 1
      BY <3>1, <3>2, FS_AddElement
    <3> QED
      BY <1>7, <2>1, <3>3 DEF Reserve, PendBooks
  <2>2. CASE i # c.inst
    <3>1. Creates(PendingOf(i))' = Creates(PendingOf(i))
      BY <1>1, <2>2 DEF Creates, PendingOf
    <3> QED
      BY <1>7, <2>2, <3>1 DEF Reserve, PendBooks
  <2> QED
    BY <2>1, <2>2
<1>8. reservedIds' = IdsOf(pending')
  BY <1>1 DEF PendBooks, IdsOf, Creates
<1> QED
  BY <1>3, <1>4, <1>5, <1>6, <1>7, <1>8 DEF PendBooks, PendingOf

\* Another command is sent, or one is settled: it has reserved nothing.
LEMMA NotCreate ==
    ASSUME PendBooks, Creates(pending') = Creates(pending),
           IsFiniteSet(pending'), \A c \in pending' : Issued(c),
           UNCHANGED <<reserved, reservedIds>>
    PROVE  PendBooks'
<1>1. \A i \in Instance : Creates(PendingOf(i))' = Creates(PendingOf(i))
  BY DEF Creates, PendingOf
<1> QED
  BY <1>1 DEF PendBooks, IdsOf

\* What the commands in C had reserved of instance i.
Share(C, i) == {c \in Creates(C) : c.inst = i}

\* Settling some of the pending commands and releasing what they took.
LEMMA Released ==
    ASSUME PendBooks, NEW C \in SUBSET pending, pending' = pending \ C, Release(C)
    PROVE  PendBooks'
<1>1. IsFiniteSet(pending')
  BY FS_Subset DEF PendBooks
<1>2. \A d \in pending' : Issued(d)
  BY DEF PendBooks
<1>3. \A d, e \in Creates(pending') : d.room = e.room => d = e
  BY DEF PendBooks, Creates
<1>4. ASSUME NEW i \in Instance
      PROVE  /\ reserved'[i] = Cardinality(Creates(PendingOf(i))')
             /\ reserved'[i] \in Nat
  <2> DEFINE S == Creates(PendingOf(i))
             T == Share(C, i)
  <2>1. IsFiniteSet(S) /\ T \in SUBSET S
    BY Unreserved DEF Share, Creates, PendingOf
  <2>2. Creates(PendingOf(i))' = S \ T
    BY DEF Share, Creates, PendingOf
  <2>3. /\ Cardinality(S \ T) = Cardinality(S) - Cardinality(T)
        /\ Cardinality(S \ T) \in Nat
    <3> HIDE DEF S, T
    <3>1. IsFiniteSet(S \ T) /\ IsFiniteSet(T)
      BY <2>1, FS_Subset
    <3>2. (S \ T) \cap T = {} /\ (S \ T) \cup T = S
      BY <2>1
    <3>3. Cardinality((S \ T) \cup T) = Cardinality(S \ T) + Cardinality(T)
      <4>1. Cardinality((S \ T) \cup T) = Cardinality(S \ T) + Cardinality(T) - Cardinality((S \ T) \cap T)
        BY <3>1, FS_Union
      <4>2. Cardinality((S \ T) \cap T) = 0
        BY <3>2, FS_EmptySet
      <4> QED
        BY <3>1, <4>1, <4>2, FS_CardinalityType
    <3>4. Cardinality(S \ T) \in Nat /\ Cardinality(T) \in Nat
      BY <3>1, FS_CardinalityType
    <3>5. Cardinality(S) = Cardinality(S \ T) + Cardinality(T)
      BY <3>2, <3>3, Zenon
    <3>6. \A s, d, t : d \in Nat /\ t \in Nat /\ s = d + t => d = s - t
      OBVIOUS
    <3> QED
      BY <3>4, <3>5, <3>6, Zenon
  <2>4. reserved'[i] = reserved[i] - Cardinality(T)
    BY DEF Release, Share
  <2>5. reserved[i] = Cardinality(S)
    BY DEF PendBooks
  <2> QED
    BY <2>2, <2>3, <2>4, <2>5
<1>5. reserved' \in [Instance -> Nat]
  BY <1>4 DEF Release
<1>6. reservedIds' = IdsOf(pending')
  BY DEF PendBooks, Release, IdsOf, Creates
<1> QED
  BY <1>1, <1>2, <1>3, <1>4, <1>5, <1>6 DEF PendBooks

-----------------------------------------------------------------------------
(* Holds.                                                                  *)

\* A settled create keeps its id and its slot, if the id is not held already.
LEMMA Held ==
    ASSUME HoldBooks, NEW c, Issued(c), c.op = "create", Hold(c)
    PROVE  /\ HoldBooks'
           /\ \A i \in Instance : i # c.inst => HeldBy(i)' = HeldBy(i)
<1>1. CASE held[c.room] # Unknown
  BY <1>1 DEF Hold, HoldBooks, HeldBy
<1>2. CASE held[c.room] = Unknown
  <2>1. /\ c.inst \in Instance /\ c.room \in RoomId
        /\ held' = [held EXCEPT ![c.room] = c.inst]
        /\ heldCount' = [heldCount EXCEPT ![c.inst] = @ + 1]
    BY <1>2 DEF Issued, Hold
  <2>2. held' \in [RoomId -> Instance \cup {Unknown}] /\ heldCount' \in [Instance -> Nat]
    BY <2>1 DEF HoldBooks
  <2>3. \A i \in Instance : i # c.inst => HeldBy(i)' = HeldBy(i)
    BY <1>2, <2>1, UnknownAssumption DEF HeldBy, HoldBooks
  <2>4. HeldBy(c.inst)' = HeldBy(c.inst) \cup {c.room} /\ c.room \notin HeldBy(c.inst)
    BY <1>2, <2>1, UnknownAssumption DEF HeldBy, HoldBooks
  <2>5. /\ IsFiniteSet(HeldBy(c.inst) \cup {c.room})
        /\ Cardinality(HeldBy(c.inst) \cup {c.room}) = Cardinality(HeldBy(c.inst)) + 1
    BY <2>1, <2>4, FS_AddElement DEF HoldBooks
  <2>6. \A i \in Instance : IsFiniteSet(HeldBy(i)') /\ heldCount'[i] = Cardinality(HeldBy(i)')
    BY <2>1, <2>3, <2>4, <2>5 DEF HoldBooks
  <2> QED
    BY <2>2, <2>3, <2>6 DEF HoldBooks, HeldBy
<1> QED
  BY <1>1, <1>2

\* A reply, or the removal of its instance, ends every hold of it.
LEMMA Cleared ==
    ASSUME HoldBooks, NEW i \in Instance, ClearHolds(i)
    PROVE  /\ HoldBooks' /\ HeldBy(i)' = {}
           /\ \A j \in Instance : j # i => HeldBy(j)' = HeldBy(j)
<1>1. held' \in [RoomId -> Instance \cup {Unknown}] /\ heldCount' \in [Instance -> Nat]
  BY DEF HoldBooks, ClearHolds
<1>2. HeldBy(i)' = {} /\ \A j \in Instance : j # i => HeldBy(j)' = HeldBy(j)
  BY UnknownAssumption DEF HoldBooks, ClearHolds, HeldBy
<1>3. heldCount'[i] = 0 /\ \A j \in Instance : j # i => heldCount'[j] = heldCount[j]
  BY DEF HoldBooks, ClearHolds
<1>4. \A j \in Instance : IsFiniteSet(HeldBy(j)') /\ heldCount'[j] = Cardinality(HeldBy(j)')
  BY <1>2, <1>3, FS_EmptySet DEF HoldBooks
<1> QED
  BY <1>1, <1>2, <1>4 DEF HoldBooks, HeldBy

-----------------------------------------------------------------------------
(* What is there of an instance that is gone or that never reported.       *)

GoneBooks ==
    /\ DOMAIN records = Instance /\ DOMAIN override = Instance
    /\ \A c \in pending : Known(c.inst)
    /\ \A i \in Instance : ~Known(i) => HeldBy(i) = {} /\ override[i] = Unknown
    /\ \A i \in Instance : i \notin links => ~Known(i) /\ toOrch[i] = <<>>

Books == PendBooks /\ HoldBooks /\ GoneBooks

\* Frames: what commands and replies carry, whatever else there is in them.
ToAgentOK ==
    \E F : /\ toAgent \in [Instance -> Seq(F)]
          /\ \A m \in F : m.type = "cmd" => Issued(m.cmd)
ToOrchOK ==
    \E F : /\ toOrch \in [Instance -> Seq(F)]
          /\ \A m \in F : m.type = "state" /\ m.full => m.snap # Unknown

AgentsOK ==
    /\ current \in [Process -> 0..MaxConnects] /\ connects \in [Process -> 0..MaxConnects]
    /\ rooms \in [Process -> SUBSET RoomId] /\ origins \in [Process -> SUBSET RoomId]
    /\ status \in [Process -> Status]

Wires == ToAgentOK /\ ToOrchOK /\ AgentsOK

\* teardownInstance, whatever calls it.
LEMMA TornDown ==
    ASSUME Books, ToOrchOK, NEW i \in Instance, Teardown(i)
    PROVE  Books' /\ ToOrchOK'
<1>1. PendBooks'
  <2>1. PendingOf(i) \in SUBSET pending
    BY DEF PendingOf
  <2> QED
    BY <2>1, Released DEF Teardown, RejectAll, Books
<1>2. HoldBooks' /\ HeldBy(i)' = {} /\ \A j \in Instance : j # i => HeldBy(j)' = HeldBy(j)
  <2>1. CASE Known(i)
    BY <2>1, Cleared DEF Teardown, Books
  <2>2. CASE ~Known(i)
    BY <2>2 DEF Teardown, Books, GoneBooks, HoldBooks, HeldBy
  <2> QED
    BY <2>1, <2>2
<1>3. ToOrchOK'
  BY DEF ToOrchOK, Teardown
<1>4. /\ DOMAIN records' = Instance /\ DOMAIN override' = Instance
      /\ records'[i] = Unknown /\ override'[i] = Unknown
      /\ \A j \in Instance : j # i => records'[j] = records[j] /\ override'[j] = override[j]
  BY DEF Teardown, Books, GoneBooks, Known, readVars
<1>5. \A c \in pending' : c.inst # i /\ Known(c.inst)'
  BY <1>4 DEF Teardown, RejectAll, PendingOf, Books, GoneBooks, Known, PendBooks, Issued
<1>6. toOrch'[i] = <<>> /\ \A j \in Instance : j # i => toOrch'[j] = toOrch[j]
  BY DEF Teardown, ToOrchOK
<1>7. links' = links \ {i}
  BY DEF Teardown
<1>8. GoneBooks'
  BY <1>2, <1>4, <1>5, <1>6, <1>7 DEF GoneBooks, Books, Known
<1> QED
  BY <1>1, <1>2, <1>3, <1>8 DEF Books

\* A command is settled that left its reservations to its settler.
LEMMA Settled ==
    ASSUME Books, NEW c \in pending, Settle(c),
           \/ HoldOrRelease(c)
           \/ Release({c}) /\ UNCHANGED <<held, heldCount>>
    PROVE  /\ PendBooks' /\ HoldBooks'
           /\ \A i \in Instance : ~Known(i) => HeldBy(i)' = HeldBy(i)
<1>1. Issued(c) /\ Known(c.inst) /\ {c} \in SUBSET pending /\ pending' = pending \ {c}
  BY DEF Books, PendBooks, GoneBooks, Settle
<1>2. CASE c.op = "create" /\ HoldOrRelease(c)
  <2>1. Hold(c)
    BY <1>2 DEF HoldOrRelease
  <2>2. PendBooks'
    BY <1>1, <2>1, Released DEF Hold, Books
  <2> QED
    BY <1>1, <1>2, <2>1, <2>2, Held DEF Books
<1>3. CASE c.op # "create" /\ HoldOrRelease(c)
  <2>1. UNCHANGED resVars
    BY <1>3 DEF HoldOrRelease
  <2>2. Creates(pending') = Creates(pending) /\ IsFiniteSet(pending') /\ \A d \in pending' : Issued(d)
    BY <1>1, <1>3, FS_Subset DEF Creates, Books, PendBooks
  <2>3. PendBooks'
    BY <2>1, <2>2, NotCreate DEF Books, resVars
  <2> QED
    BY <2>1, <2>3 DEF Books, HoldBooks, HeldBy, resVars
<1>4. CASE Release({c}) /\ UNCHANGED <<held, heldCount>>
  <2>1. PendBooks'
    BY <1>1, <1>4, Released DEF Books
  <2> QED
    BY <1>4, <2>1 DEF Books, HoldBooks, HeldBy
<1> QED
  BY <1>2, <1>3, <1>4

-----------------------------------------------------------------------------
(* The frames.                                                             *)

\* One more frame, or one less, on the connection of i.
LEMMA ToAgentGrows ==
    ASSUME ToAgentOK, NEW i, NEW m, m.type = "cmd" => Issued(m.cmd),
           toAgent' = [toAgent EXCEPT ![i] = Append(@, m)]
    PROVE  ToAgentOK'
<1>1. PICK F : /\ toAgent \in [Instance -> Seq(F)]
               /\ \A n \in F : n.type = "cmd" => Issued(n.cmd)
  BY DEF ToAgentOK
<1>2. \A j \in Instance : /\ toAgent[j] \in Seq(F \cup {m})
                          /\ Append(toAgent[j], m) \in Seq(F \cup {m})
  BY <1>1
<1>3. toAgent' \in [Instance -> Seq(F \cup {m})]
  <2> DEFINE G == Seq(F \cup {m})
  <2>1. \A j \in Instance : toAgent[j] \in G /\ Append(toAgent[j], m) \in G
    BY <1>2
  <2>2. DOMAIN toAgent = Instance
    BY <1>1
  <2> HIDE DEF G
  <2>3. toAgent' \in [Instance -> G]
    BY <2>1, <2>2
  <2> QED
    BY <2>3 DEF G
<1>4. \A n \in F \cup {m} : n.type = "cmd" => Issued(n.cmd)
  BY <1>1
<1> QED
  BY <1>3, <1>4 DEF ToAgentOK, Issued

LEMMA ToAgentShrinks ==
    ASSUME ToAgentOK, NEW i,
           \/ toAgent' = [toAgent EXCEPT ![i] = <<>>]
           \/ toAgent[i] # <<>> /\ toAgent' = [toAgent EXCEPT ![i] = Tail(@)]
    PROVE  ToAgentOK'
<1>1. PICK F : /\ toAgent \in [Instance -> Seq(F)]
               /\ \A n \in F : n.type = "cmd" => Issued(n.cmd)
  BY DEF ToAgentOK
<1>2. \A j \in Instance : toAgent[j] # <<>> => Tail(toAgent[j]) \in Seq(F)
  BY <1>1
<1>3. <<>> \in Seq(F)
  OBVIOUS
<1>4. toAgent' \in [Instance -> Seq(F)]
  <2> DEFINE G == Seq(F)
  <2>1. <<>> \in G /\ toAgent \in [Instance -> G] /\ \A j \in Instance : toAgent[j] # <<>> => Tail(toAgent[j]) \in G
    BY <1>1, <1>2, <1>3
  <2> HIDE DEF G
  <2>2. toAgent' \in [Instance -> G]
    BY <2>1
  <2> QED
    BY <2>2 DEF G
<1> QED
  BY <1>1, <1>4 DEF ToAgentOK, Issued

LEMMA Replied ==
    ASSUME ToOrchOK, NEW i, NEW m, m.type = "state" /\ m.full => m.snap # Unknown,
           Reply(i, m)
    PROVE  ToOrchOK' /\ \A j \in Instance : j \notin links => toOrch'[j] = toOrch[j]
<1>1. PICK F : /\ toOrch \in [Instance -> Seq(F)]
               /\ \A n \in F : n.type = "state" /\ n.full => n.snap # Unknown
  BY DEF ToOrchOK
<1>2. \A j \in Instance : /\ toOrch[j] \in Seq(F \cup {m})
                          /\ Append(toOrch[j], m) \in Seq(F \cup {m})
  BY <1>1
<1>3. toOrch' \in [Instance -> Seq(F \cup {m})]
  <2> DEFINE G == Seq(F \cup {m})
  <2>1. \A j \in Instance : toOrch[j] \in G /\ Append(toOrch[j], m) \in G
    BY <1>2
  <2>2. DOMAIN toOrch = Instance /\ toOrch \in [Instance -> G]
    BY <1>1, <2>1
  <2> HIDE DEF G
  <2>3. toOrch' \in [Instance -> G]
    BY <2>1, <2>2 DEF Reply
  <2> QED
    BY <2>3 DEF G
<1>4. \A n \in F \cup {m} : n.type = "state" /\ n.full => n.snap # Unknown
  BY <1>1
<1>5. ToOrchOK'
  BY <1>3, <1>4 DEF ToOrchOK
<1>6. \A j \in Instance : j \notin links => toOrch'[j] = toOrch[j]
  BY <1>1 DEF Reply
<1> QED
  BY <1>5, <1>6

LEMMA Handled ==
    ASSUME ToOrchOK, NEW i \in Instance, toOrch[i] # <<>>
    PROVE  /\ toOrch' = [toOrch EXCEPT ![i] = Tail(@)] =>
                ToOrchOK' /\ \A j \in Instance : j # i => toOrch'[j] = toOrch[j]
           /\ Head(toOrch[i]).type = "state" /\ Head(toOrch[i]).full => Head(toOrch[i]).snap # Unknown
<1>1. PICK F : /\ toOrch \in [Instance -> Seq(F)]
               /\ \A n \in F : n.type = "state" /\ n.full => n.snap # Unknown
  BY DEF ToOrchOK
<1>2. Head(toOrch[i]) \in F /\ Tail(toOrch[i]) \in Seq(F)
  BY <1>1
<1>3. ASSUME toOrch' = [toOrch EXCEPT ![i] = Tail(@)]
      PROVE  toOrch' \in [Instance -> Seq(F)] /\ \A j \in Instance : j # i => toOrch'[j] = toOrch[j]
  BY <1>1, <1>2, <1>3
<1> QED
  BY <1>1, <1>2, <1>3 DEF ToOrchOK

-----------------------------------------------------------------------------
(* The steps.                                                              *)

Inv == Books /\ Wires

LEMMA BooksKept ==
    ASSUME Books, UNCHANGED <<pending, reserved, reservedIds, held, heldCount, records, override>>,
           links \subseteq links', \A i \in Instance : i \notin links => toOrch'[i] = toOrch[i]
    PROVE  Books'
  BY DEF Books, PendBooks, HoldBooks, GoneBooks, Creates, PendingOf, IdsOf, HeldBy, Known

LEMMA AgentsKept ==
    ASSUME AgentsOK, UNCHANGED <<current, connects, rooms, origins, status>>
    PROVE  AgentsOK'
  BY DEF AgentsOK

LEMMA InitInv == Init => Inv
<1> SUFFICES ASSUME Init PROVE Inv
  OBVIOUS
<1>1. PendBooks
  <2>1. \A i \in Instance : Creates(PendingOf(i)) = {}
    BY DEF Init, Creates, PendingOf
  <2> QED
    BY <2>1, FS_EmptySet DEF Init, PendBooks, IdsOf, Creates
<1>2. HoldBooks /\ \A i \in Instance : HeldBy(i) = {}
  <2>1. \A i \in Instance : HeldBy(i) = {}
    BY UnknownAssumption DEF Init, HeldBy
  <2> QED
    BY <2>1, FS_EmptySet DEF Init, HoldBooks
<1>3. GoneBooks
  BY <1>2 DEF Init, GoneBooks, Known
<1>4. ToAgentOK /\ ToOrchOK
  <2> DEFINE E == {}
  <2>1. toAgent \in [Instance -> Seq(E)] /\ toOrch \in [Instance -> Seq(E)]
    BY DEF Init
  <2>2. \A m : m \notin E
    OBVIOUS
  <2> HIDE DEF E
  <2>3. ToAgentOK
    <3> SUFFICES \E F : /\ toAgent \in [Instance -> Seq(F)]
                       /\ \A m \in F : m.type = "cmd" => Issued(m.cmd)
      BY DEF ToAgentOK
    <3> WITNESS E
    <3> QED
      BY <2>1, <2>2
  <2>4. ToOrchOK
    <3> SUFFICES \E F : /\ toOrch \in [Instance -> Seq(F)]
                       /\ \A m \in F : m.type = "state" /\ m.full => m.snap # Unknown
      BY DEF ToOrchOK
    <3> WITNESS E
    <3> QED
      BY <2>1, <2>2
  <2> QED
    BY <2>3, <2>4
<1>5. AgentsOK
  BY FleetAssumption DEF Init, AgentsOK, Status
<1> QED
  BY <1>1, <1>2, <1>3, <1>4, <1>5 DEF Inv, Books, Wires

LEMMA CreateRoomStep ==
    ASSUME Inv, NEW r \in RoomId, CreateRoom(r)
    PROVE  Inv'
<1>1. PICK i \in Candidates \cup Pinnable :
        LET c == [id |-> cmdSeq + 1, inst |-> i, op |-> "create", room |-> r]
        IN  \/ Sent(c) /\ Reserve(c)
            \/ NotSent /\ UNCHANGED <<reserved, reservedIds>>
  BY DEF CreateRoom
<1> DEFINE c == [id |-> cmdSeq + 1, inst |-> i, op |-> "create", room |-> r]
<1>2. i \in Instance /\ Known(i)
  BY DEF Candidates, Pinnable
<1>3. Issued(c) /\ c.op = "create" /\ c.room = r /\ c.inst = i
  BY <1>2 DEF Issued
<1>4. r \notin reservedIds
  BY DEF CreateRoom, FreeRoomIds, IsRoomIdTaken
<1>5. UNCHANGED <<links, records, override, held, heldCount, toOrch, current, connects, rooms, origins, status>>
  BY DEF CreateRoom, readVars, agentVars
<1>6. AgentsOK' /\ ToOrchOK'
  BY <1>5, AgentsKept DEF Inv, Wires, ToOrchOK
<1>7. CASE Sent(c) /\ Reserve(c)
  <2>1. PendBooks' /\ pending' = pending \cup {c}
    <3> HIDE DEF c
    <3> QED
      BY <1>3, <1>4, <1>7, SentCreate DEF Inv, Books, Sent
  <2>2. HoldBooks' /\ GoneBooks'
    <3> HIDE DEF c
    <3> QED
      BY <1>2, <1>3, <1>5, <2>1 DEF Inv, Books, HoldBooks, GoneBooks, HeldBy, Known
  <2>3. ToAgentOK'
    <3> DEFINE m == [type |-> "cmd", cmd |-> c]
    <3>1. toAgent' = [toAgent EXCEPT ![i] = Append(@, m)] /\ m.cmd = c
      BY <1>7 DEF Sent
    <3> HIDE DEF m, c
    <3> QED
      BY <1>3, <3>1, ToAgentGrows DEF Inv, Wires
  <2> QED
    BY <1>6, <2>1, <2>2, <2>3 DEF Inv, Books, Wires
<1>8. CASE NotSent /\ UNCHANGED <<reserved, reservedIds>>
  <2>1. Books'
    BY <1>5, <1>8, BooksKept DEF NotSent, Inv
  <2>2. ToAgentOK'
    BY <1>8 DEF NotSent, Inv, Wires, ToAgentOK, Issued
  <2> QED
    BY <1>6, <2>1, <2>2 DEF Inv, Wires
<1> QED
  BY <1>1, <1>7, <1>8

LEMMA SendCommandStep ==
    ASSUME Inv, NEW i \in Instance, NEW op \in Ops, NEW r, SendCommand(i, op, r)
    PROVE  Inv'
<1> DEFINE c == [id |-> cmdSeq + 1, inst |-> i, op |-> op, room |-> r]
<1>1. Sent(c) /\ Known(i) /\ op # "create"
  BY DEF SendCommand
<1>2. Issued(c) /\ c.inst = i /\ c.op # "create"
  BY <1>1 DEF Issued
<1>3. UNCHANGED <<links, records, override, reserved, reservedIds, held, heldCount, toOrch, current, connects, rooms, origins, status>>
  BY DEF SendCommand, readVars, agentVars, resVars
<1> HIDE DEF c
<1>4. pending' = pending \cup {c} /\ toAgent' = [toAgent EXCEPT ![i] = Append(@, [type |-> "cmd", cmd |-> c])]
  BY <1>1, <1>2 DEF Sent
<1>5. PendBooks'
  <2>1. Creates(pending') = Creates(pending) /\ IsFiniteSet(pending')
    BY <1>2, <1>4, FS_AddElement DEF Creates, Inv, Books, PendBooks
  <2>2. \A d \in pending' : Issued(d)
    BY <1>2, <1>4 DEF Inv, Books, PendBooks
  <2> QED
    BY <1>3, <2>1, <2>2, NotCreate DEF Inv, Books
<1>6. HoldBooks' /\ GoneBooks'
  BY <1>1, <1>2, <1>3, <1>4 DEF Inv, Books, HoldBooks, GoneBooks, HeldBy, Known
<1>7. ToAgentOK'
  <2> DEFINE m == [type |-> "cmd", cmd |-> c]
  <2>1. toAgent' = [toAgent EXCEPT ![i] = Append(@, m)] /\ m.cmd = c
    BY <1>4
  <2> HIDE DEF m
  <2> QED
    BY <1>2, <2>1, ToAgentGrows DEF Inv, Wires
<1>8. AgentsOK' /\ ToOrchOK'
  BY <1>3, AgentsKept DEF Inv, Wires, ToOrchOK
<1> QED
  BY <1>5, <1>6, <1>7, <1>8 DEF Inv, Books, Wires

LEMMA CommandTimeoutStep ==
    ASSUME Inv, NEW c \in pending, CommandTimeout(c)
    PROVE  Inv'
<1>1. /\ Settle(c) /\ HoldOrRelease(c)
      /\ UNCHANGED <<links, records, override, toAgent, toOrch, current, connects, rooms, origins, status>>
  BY DEF CommandTimeout, readVars, netVars, agentVars
<1>2. PendBooks' /\ HoldBooks' /\ \A i \in Instance : ~Known(i) => HeldBy(i)' = HeldBy(i)
  BY <1>1, Settled DEF Inv
<1>3. GoneBooks'
  BY <1>1, <1>2 DEF Settle, Inv, Books, GoneBooks, Known
<1>4. Wires'
  BY <1>1, AgentsKept DEF Inv, Wires, ToAgentOK, ToOrchOK, Issued
<1> QED
  BY <1>2, <1>3, <1>4 DEF Inv, Books

\* What a teardown by the orchestrator leaves alone.
LEMMA TeardownStep ==
    ASSUME Inv, NEW i \in Instance, Teardown(i), UNCHANGED <<toAgent, current, connects, agentVars>>
    PROVE  Inv'
<1>1. Books' /\ ToOrchOK'
  BY TornDown DEF Inv, Wires
<1>2. ToAgentOK' /\ AgentsOK'
  BY AgentsKept DEF Inv, Wires, ToAgentOK, Issued, agentVars
<1> QED
  BY <1>1, <1>2 DEF Inv, Wires

LEMMA TickStep ==
    ASSUME Inv, NEW i \in Instance, Tick(i)
    PROVE  Inv'
<1>1. CASE TickPolls(i)
  <2>1. /\ toAgent' = [toAgent EXCEPT ![i] = Append(@, PollFor(i, NextReq(i)))]
        /\ PollFor(i, NextReq(i)).type # "cmd"
    BY <1>1 DEF TickPolls, Poll, PollFor
  <2>2. UNCHANGED <<links, pending, readVars, resVars, toOrch, current, connects, agentVars>>
    BY <1>1 DEF TickPolls, cmdVars
  <2>3. Books'
    BY <2>2, BooksKept DEF Inv, readVars, resVars
  <2>4. ToAgentOK'
    <3> DEFINE m == PollFor(i, NextReq(i))
    <3>1. toAgent' = [toAgent EXCEPT ![i] = Append(@, m)] /\ m.type # "cmd"
      BY <2>1
    <3> HIDE DEF m
    <3> QED
      BY <3>1, ToAgentGrows DEF Inv, Wires
  <2>5. ToOrchOK' /\ AgentsOK'
    BY <2>2, AgentsKept DEF Inv, Wires, ToOrchOK, agentVars
  <2> QED
    BY <2>3, <2>4, <2>5 DEF Inv, Wires
<1>2. CASE TickMisses(i) /\ missed[i] = 2
  BY <1>2, TeardownStep DEF TickMisses
<1>3. CASE TickMisses(i) /\ missed[i] # 2
  <2>1. UNCHANGED <<links, pending, records, override, resVars, toAgent, toOrch, current, connects, agentVars>>
    BY <1>3 DEF TickMisses, cmdVars
  <2>2. Books'
    BY <2>1, BooksKept DEF Inv, resVars
  <2>3. Wires'
    BY <2>1, AgentsKept DEF Inv, Wires, ToAgentOK, ToOrchOK, Issued, agentVars
  <2> QED
    BY <2>2, <2>3 DEF Inv
<1> QED
  BY <1>1, <1>2, <1>3 DEF Tick

LEMMA HandleStateStep ==
    ASSUME Inv, NEW i \in Instance, HandleState(i)
    PROVE  Inv'
<1> DEFINE m == Head(toOrch[i])
           s == IF m.full THEN m.snap ELSE records[i]
<1>1. toOrch[i] # <<>> /\ m.type = "state" /\ UNCHANGED <<toAgent, current, connects, agentVars>>
  BY DEF HandleState
<1>2. CASE m.req # outstanding[i]
  BY <1>1, <1>2, TeardownStep DEF HandleState, Kick
<1>3. CASE m.req = outstanding[i]
  <2>1. /\ records' = [records EXCEPT ![i] = s]
        /\ ClearHolds(i) /\ override' = ReconciledOverride(i, s.status)
        /\ toOrch' = [toOrch EXCEPT ![i] = Tail(@)]
        /\ UNCHANGED <<links, reserved, reservedIds, pending>>
    BY <1>3 DEF HandleState, cmdVars
  <2>2. ToOrchOK' /\ (\A j \in Instance : j # i => toOrch'[j] = toOrch[j]) /\ (m.full => m.snap # Unknown)
    BY <1>1, <2>1, Handled DEF Inv, Wires
  <2>3. HoldBooks' /\ HeldBy(i)' = {} /\ \A j \in Instance : j # i => HeldBy(j)' = HeldBy(j)
    BY <2>1, Cleared DEF Inv, Books
  <2>4. PendBooks'
    BY <2>1 DEF Inv, Books, PendBooks, Creates, PendingOf, IdsOf
  <2>5. s = Unknown => records[i] = Unknown
    BY <2>2
  <2>6. i \in links
    BY <1>1 DEF Inv, Books, GoneBooks
  <2>7. GoneBooks'
    <3> HIDE DEF s, m
    <3>1. DOMAIN records' = Instance /\ DOMAIN override' = Instance
      BY <2>1 DEF ReconciledOverride, Inv, Books, GoneBooks
    <3>2. records'[i] = s /\ \A j \in Instance : j # i => records'[j] = records[j] /\ override'[j] = override[j]
      BY <2>1 DEF ReconciledOverride, Inv, Books, GoneBooks
    <3>3. override[i] = Unknown => override'[i] = Unknown
      BY <2>1 DEF ReconciledOverride, Inv, Books, GoneBooks
    <3>4. \A j \in Instance : ~Known(j)' => ~Known(j)
      BY <2>5, <3>2 DEF Known
    <3>5. \A j \in Instance : j # i => (Known(j)' <=> Known(j))
      BY <3>2 DEF Known
    <3>6. \A c \in pending' : Known(c.inst)'
      BY <2>1, <3>4 DEF Inv, Books, GoneBooks, PendBooks, Issued
    <3>7. \A j \in Instance : ~Known(j)' => HeldBy(j)' = {} /\ override'[j] = Unknown
      BY <2>3, <3>2, <3>3, <3>4 DEF Inv, Books, GoneBooks
    <3>8. \A j \in Instance : j \notin links' => ~Known(j)' /\ toOrch'[j] = <<>>
      BY <2>1, <2>2, <2>6, <3>5 DEF Inv, Books, GoneBooks
    <3> QED
      BY <3>1, <3>6, <3>7, <3>8 DEF GoneBooks
  <2>8. ToAgentOK' /\ AgentsOK'
    BY <1>1, AgentsKept DEF Inv, Wires, ToAgentOK, Issued, agentVars
  <2> QED
    BY <2>2, <2>3, <2>4, <2>7, <2>8 DEF Inv, Books, Wires
<1> QED
  BY <1>2, <1>3

LEMMA HandleAckStep ==
    ASSUME Inv, NEW i \in Instance, HandleAck(i)
    PROVE  Inv'
<1> DEFINE m == Head(toOrch[i])
           C == {c \in PendingOf(i) : c.id = m.id}
<1>1. toOrch[i] # <<>> /\ UNCHANGED <<toAgent, current, connects, agentVars>>
  BY DEF HandleAck
<1>2. CASE C = {}
  BY <1>1, <1>2, TeardownStep DEF HandleAck, Kick
<1>3. CASE C # {}
  <2>1. PICK c \in C : /\ Acked(c, m.ok)
                      /\ toOrch' = [toOrch EXCEPT ![i] = Tail(@)]
                      /\ UNCHANGED <<links, readVars>>
    BY <1>3 DEF HandleAck
  <2>2. c \in pending
    BY DEF PendingOf
  <2>3. /\ Settle(c)
        /\ \/ HoldOrRelease(c)
           \/ Release({c}) /\ UNCHANGED <<held, heldCount>>
    BY <2>1 DEF Acked
  <2>4. PendBooks' /\ HoldBooks' /\ \A j \in Instance : ~Known(j) => HeldBy(j)' = HeldBy(j)
    BY <2>2, <2>3, Settled DEF Inv
  <2>5. ToOrchOK' /\ \A j \in Instance : j # i => toOrch'[j] = toOrch[j]
    BY <1>1, <2>1, Handled DEF Inv, Wires
  <2>6. GoneBooks'
    BY <1>1, <2>1, <2>3, <2>4, <2>5 DEF Settle, Inv, Books, GoneBooks, Known, readVars
  <2>7. ToAgentOK' /\ AgentsOK'
    BY <1>1, AgentsKept DEF Inv, Wires, ToAgentOK, Issued, agentVars
  <2> QED
    BY <2>4, <2>5, <2>6, <2>7 DEF Inv, Books, Wires
<1> QED
  BY <1>2, <1>3

LEMMA ResumeStatusStep ==
    ASSUME Inv, ResumeStatus
    PROVE  Inv'
<1>1. UNCHANGED <<links, records, resVars, pending, toAgent, toOrch, current, connects, agentVars>>
  BY DEF ResumeStatus, cmdVars, netVars
<1>2. DOMAIN override' = DOMAIN override /\ \A i \in Instance : ~Known(i) => override'[i] = override[i]
  BY DEF ResumeStatus, Inv, Books, GoneBooks
<1>3. PendBooks' /\ HoldBooks' /\ GoneBooks'
  BY <1>1, <1>2 DEF Inv, Books, PendBooks, HoldBooks, GoneBooks, Creates, PendingOf, IdsOf, HeldBy, Known, resVars
<1>4. Wires'
  BY <1>1, AgentsKept DEF Inv, Wires, ToAgentOK, ToOrchOK, Issued, agentVars
<1> QED
  BY <1>3, <1>4 DEF Inv, Books

LEMMA ConnectStep ==
    ASSUME Inv, NEW p \in Process, Connect(p)
    PROVE  Inv'
<1> DEFINE i == <<p, connects[p] + 1>>
           m == PollFor(i, NextReq(i))
<1>1. /\ links' = links \cup {i}
      /\ UNCHANGED <<readVars, resVars, pending, toOrch, rooms, origins, status>>
      /\ connects' = [connects EXCEPT ![p] = @ + 1]
      /\ current' = [current EXCEPT ![p] = connects[p] + 1]
      /\ connects[p] < MaxConnects
  BY DEF Connect, cmdVars, agentVars
<1>2. toAgent' = [toAgent EXCEPT ![i] = Append(@, m)] /\ m.type # "cmd"
  BY DEF Connect, PollerStart, Poll, PollFor
<1>3. Books'
  BY <1>1, BooksKept DEF Inv, readVars, resVars
<1>4. ToAgentOK'
  <2> HIDE DEF i, m
  <2> QED
    BY <1>2, ToAgentGrows DEF Inv, Wires
<1>5. ToOrchOK'
  BY <1>1 DEF Inv, Wires, ToOrchOK
<1>6. AgentsOK'
  <2>1. MaxConnects \in Nat
    BY FleetAssumption
  <2>2. connects[p] + 1 \in 0..MaxConnects
    BY <1>1, <2>1 DEF Inv, Wires, AgentsOK
  <2> QED
    BY <1>1, <2>2 DEF Inv, Wires, AgentsOK
<1> QED
  BY <1>3, <1>4, <1>5, <1>6 DEF Inv, Wires

LEMMA AgentLosesStep ==
    ASSUME Inv, NEW p \in Process, AgentLoses(p)
    PROVE  Inv'
<1>1. /\ toAgent' = [toAgent EXCEPT ![Conn(p)] = <<>>]
      /\ current' = [current EXCEPT ![p] = 0]
      /\ UNCHANGED <<links, readVars, resVars, pending, toOrch, connects, rooms, origins, status>>
  BY DEF AgentLoses, cmdVars
<1>2. Books'
  BY <1>1, BooksKept DEF Inv, readVars, resVars
<1>3. ToAgentOK'
  BY <1>1, ToAgentShrinks DEF Inv, Wires
<1>4. ToOrchOK'
  BY <1>1 DEF Inv, Wires, ToOrchOK
<1>5. AgentsOK'
  <2>1. 0 \in 0..MaxConnects
    BY FleetAssumption
  <2> QED
    BY <1>1, <2>1 DEF Inv, Wires, AgentsOK
<1> QED
  BY <1>2, <1>3, <1>4, <1>5 DEF Inv, Wires

LEMMA AgentPollStep ==
    ASSUME Inv, NEW p \in Process, AgentPoll(p)
    PROVE  Inv'
<1> DEFINE i == Conn(p)
           s == [rooms |-> rooms[p], fleet |-> origins[p], status |-> status[p]]
           m == [type |-> "state", req |-> Head(toAgent[i]).req,
                 full |-> Head(toAgent[i]).known # s, snap |-> s]
<1>1. /\ Arrives(i, "poll") /\ Reply(i, m)
      /\ toAgent' = [toAgent EXCEPT ![i] = Tail(@)]
      /\ UNCHANGED <<links, readVars, resVars, pending, current, connects, rooms, origins, status>>
  BY DEF AgentPoll, cmdVars
<1>2. m.snap # Unknown
  <2>1. s \in Snapshot
    BY DEF Inv, Wires, AgentsOK, Snapshot
  <2> QED
    BY <2>1, UnknownAssumption
<1>3. ToOrchOK' /\ \A j \in Instance : j \notin links => toOrch'[j] = toOrch[j]
  <2> HIDE DEF m, i
  <2> QED
    BY <1>1, <1>2, Replied DEF Inv, Wires
<1>4. Books'
  BY <1>1, <1>3, BooksKept DEF Inv, readVars, resVars
<1>5. ToAgentOK' /\ AgentsOK'
  BY <1>1, ToAgentShrinks, AgentsKept DEF Inv, Wires, Arrives
<1> QED
  BY <1>3, <1>4, <1>5 DEF Inv, Wires

LEMMA AgentCmdStep ==
    ASSUME Inv, NEW p \in Process, AgentCmd(p)
    PROVE  Inv'
<1> DEFINE i == Conn(p)
           c == Head(toAgent[i]).cmd
           m == [type |-> "ack", id |-> c.id, ok |-> c.op = "create" => rooms' # rooms]
<1>1. /\ Arrives(i, "cmd") /\ current[p] # 0 /\ Reply(i, m)
      /\ toAgent' = [toAgent EXCEPT ![i] = Tail(@)]
      /\ UNCHANGED <<links, readVars, resVars, pending, current, connects>>
  BY DEF AgentCmd, cmdVars
<1>2. Issued(c)
  <2>1. i \in Instance
    BY <1>1, FleetAssumption DEF Conn, Instance, Inv, Wires, AgentsOK
  <2>2. PICK F : /\ toAgent \in [Instance -> Seq(F)]
                 /\ \A n \in F : n.type = "cmd" => Issued(n.cmd)
    BY DEF Inv, Wires, ToAgentOK
  <2>3. Head(toAgent[i]) \in F /\ Head(toAgent[i]).type = "cmd"
    BY <1>1, <2>1, <2>2 DEF Arrives
  <2> QED
    BY <2>2, <2>3
<1>3. ToOrchOK' /\ \A j \in Instance : j \notin links => toOrch'[j] = toOrch[j]
  <2>1. m.type # "state"
    OBVIOUS
  <2> HIDE DEF m, i
  <2> QED
    BY <1>1, <2>1, Replied DEF Inv, Wires
<1>4. Books'
  BY <1>1, <1>3, BooksKept DEF Inv, readVars, resVars
<1>5. ToAgentOK'
  BY <1>1, ToAgentShrinks DEF Inv, Wires, Arrives
<1>6. AgentsOK'
  <2>1. CASE c.op = "create" /\ ExecCreate(p, c.room) /\ UNCHANGED status
    <3>1. c.room \in RoomId
      BY <1>2, <2>1 DEF Issued
    <3> HIDE DEF c, m, i
    <3>2. CASE UNCHANGED <<rooms, origins>>
      BY <1>1, <2>1, <3>2 DEF Inv, Wires, AgentsOK
    <3>3. CASE /\ rooms' = [rooms EXCEPT ![p] = @ \cup {c.room}]
               /\ origins' = [origins EXCEPT ![p] = @ \cup {c.room}]
      BY <1>1, <2>1, <3>1, <3>3 DEF Inv, Wires, AgentsOK
    <3> QED
      BY <2>1, <3>2, <3>3 DEF ExecCreate
  <2>2. CASE c.op = "destroy" /\ ExecDestroy(p, c.room) /\ UNCHANGED status
    BY <1>1, <2>2 DEF ExecDestroy, Inv, Wires, AgentsOK
  <2>3. CASE /\ c.op \in DOMAIN StatusOf
             /\ status' = [status EXCEPT ![p] = StatusOf[c.op]]
             /\ UNCHANGED <<rooms, origins>>
    <3>1. StatusOf[c.op] \in Status
      BY <2>3 DEF StatusOf, Status
    <3> QED
      BY <1>1, <2>3, <3>1 DEF Inv, Wires, AgentsOK
  <2> QED
    BY <2>1, <2>2, <2>3 DEF AgentCmd
<1> QED
  BY <1>3, <1>4, <1>5, <1>6 DEF Inv, Wires

LEMMA LocalStep ==
    ASSUME Inv, NEW p \in Process,
           \/ \E r \in RoomId : LocalCreate(p, r) \/ LocalDestroy(p, r)
           \/ \E s \in Status : LocalStatus(p, s)
    PROVE  Inv'
<1>1. UNCHANGED <<links, readVars, resVars, pending, netVars>>
  BY DEF LocalCreate, LocalDestroy, LocalStatus, cmdVars
<1>2. Books'
  BY <1>1, BooksKept DEF Inv, readVars, resVars, netVars
<1>3. ToAgentOK' /\ ToOrchOK'
  BY <1>1 DEF Inv, Wires, ToAgentOK, ToOrchOK, Issued, netVars
<1>4. AgentsOK'
  BY <1>1 DEF LocalCreate, LocalDestroy, LocalStatus, ExecDestroy, Inv, Wires, AgentsOK, netVars
<1> QED
  BY <1>2, <1>3, <1>4 DEF Inv, Wires

LEMMA InvStep ==
    ASSUME Inv, [Next]_vars
    PROVE  Inv'
<1>1. CASE \E r \in RoomId : CreateRoom(r)
  BY <1>1, CreateRoomStep
<1>2. CASE \E i \in Instance, op \in Ops, r \in RoomId \cup {NoRoom} : SendCommand(i, op, r)
  BY <1>2, SendCommandStep
<1>3. CASE \E c \in pending : CommandTimeout(c)
  BY <1>3, CommandTimeoutStep
<1>4. CASE \E i \in Instance : Frame(i)
  BY <1>4, HandleStateStep, HandleAckStep DEF Frame
<1>5. CASE \E i \in Instance : Tick(i)
  BY <1>5, TickStep
<1>6. CASE \E i \in Instance : OrchestratorLoses(i)
  BY <1>6, TeardownStep DEF OrchestratorLoses
<1>7. CASE ResumeStatus
  BY <1>7, ResumeStatusStep
<1>8. CASE \E p \in Process : Connect(p) \/ AgentLoses(p) \/ AgentFrame(p)
  BY <1>8, ConnectStep, AgentLosesStep, AgentPollStep, AgentCmdStep DEF AgentFrame
<1>9. CASE \/ \E p \in Process, r \in RoomId : LocalCreate(p, r) \/ LocalDestroy(p, r)
           \/ \E p \in Process, s \in Status : LocalStatus(p, s)
  BY <1>9, LocalStep
<1>10. CASE UNCHANGED vars
  <2>1. Books'
    BY <1>10, BooksKept DEF Inv, vars, cmdVars, resVars, readVars, netVars
  <2>2. Wires'
    BY <1>10, AgentsKept DEF Inv, Wires, ToAgentOK, ToOrchOK, Issued, vars, netVars, agentVars
  <2> QED
    BY <2>1, <2>2 DEF Inv
<1> QED
  BY <1>1, <1>2, <1>3, <1>4, <1>5, <1>6, <1>7, <1>8, <1>9, <1>10 DEF Next

\* Distinct creates have distinct ids, so there are as many of the ones as of the others.
LEMMA IdsCounted ==
    ASSUME PendBooks
    PROVE  Cardinality(reservedIds) = Cardinality(Creates(pending))
<1> DEFINE S == Creates(pending)
           T == IdsOf(pending)
           f == [c \in S |-> c.room]
<1>1. IsFiniteSet(S)
  BY Unreserved
<1>2. f \in [S -> T] /\ \A t \in T : \E c \in S : f[c] = t
  BY DEF IdsOf
<1>3. \A c, d \in S : f[c] = f[d] => c = d
  BY DEF PendBooks
<1>4. ExistsBijection(S, T)
  <2> HIDE DEF S, T, f
  <2>1. f \in Bijection(S, T)
    BY <1>2, <1>3 DEF Bijection, Injection, Surjection, IsInjective
  <2> QED
    BY <2>1 DEF ExistsBijection
<1>5. Cardinality(T) = Cardinality(S)
  <2> HIDE DEF S, T
  <2> QED
    BY <1>1, <1>4, FS_Bijection
<1> QED
  BY <1>5 DEF PendBooks

\* Whatever settles a command (its ack, a refusal, its timer, a failed send, the end of its
\* connection) releases or converts exactly what the command took, and nothing is left of
\* an instance that is gone (FleetState: reserve, holdUntilVisible, removeInstance).
THEOREM ReservationsAlwaysBalance == Spec => []ReservationsBalance
<1>1. ASSUME Inv PROVE ReservationsBalance
  <2>1. Cardinality(reservedIds) = Cardinality(Creates(pending))
    BY <1>1, IdsCounted DEF Inv, Books
  <2>2. \A i \in Instance : i \notin links => PendingOf(i) = {}
    BY <1>1 DEF Inv, Books, GoneBooks, PendingOf
  <2>3. \A i \in Instance : i \notin links => HeldBy(i) = {} /\ records[i] = Unknown /\ override[i] = Unknown
    BY <1>1 DEF Inv, Books, GoneBooks, Known
  <2>4. \A i \in Instance : /\ reserved[i] = Cardinality(Creates(PendingOf(i)))
                          /\ heldCount[i] = Cardinality(HeldBy(i))
    BY <1>1 DEF Inv, Books, PendBooks, HoldBooks
  <2>5. reservedIds = IdsOf(pending)
    BY <1>1 DEF Inv, Books, PendBooks
  <2> QED
    BY <2>1, <2>2, <2>3, <2>4, <2>5 DEF ReservationsBalance
<1> QED
  BY <1>1, InitInv, InvStep, PTL DEF Spec

-----------------------------------------------------------------------------
(* Queues of frames.                                                       *)

\* Where the frames of a type are.
At(q, t) == {n \in 1..Len(q) : q[n].type = t}

LEMMA AtNone == ASSUME NEW t PROVE At(<<>>, t) = {}
  BY DEF At

\* A frame is appended, or the first one is taken off.
LEMMA InAppend ==
    ASSUME NEW F, NEW q \in Seq(F), NEW m, NEW t, NEW n \in At(Append(q, m), t)
    PROVE  \/ n \in At(q, t) /\ Append(q, m)[n] = q[n]
           \/ n = Len(q) + 1 /\ Append(q, m)[n] = m /\ m.type = t
  BY DEF At

LEMMA OtherAppended ==
    ASSUME NEW F, NEW q \in Seq(F), NEW m, NEW t, m.type # t
    PROVE  At(Append(q, m), t) = At(q, t)
  BY DEF At

LEMMA StaysInAppend ==
    ASSUME NEW F, NEW q \in Seq(F), NEW m, NEW t, NEW n \in At(q, t)
    PROVE  n \in At(Append(q, m), t) /\ Append(q, m)[n] = q[n] /\ n <= Len(q)
  BY DEF At

LEMMA AllStay ==
    ASSUME NEW F, NEW q \in Seq(F), NEW m, NEW t
    PROVE  \A n \in At(q, t) : Append(q, m)[n] = q[n]
  BY DEF At

LEMMA LastOfAppend ==
    ASSUME NEW F, NEW q \in Seq(F), NEW m
    PROVE  Append(q, m)[Len(q) + 1] = m /\ Len(q) + 1 \in At(Append(q, m), m.type)
  BY DEF At

LEMMA InTail ==
    ASSUME NEW F, NEW q \in Seq(F), q # <<>>, NEW t, NEW n \in At(Tail(q), t)
    PROVE  n + 1 \in At(q, t) /\ Tail(q)[n] = q[n + 1] /\ n \in Nat /\ n # 0
  BY DEF At

LEMMA StaysInTail ==
    ASSUME NEW F, NEW q \in Seq(F), q # <<>>, NEW t, NEW n \in At(q, t), n # 1
    PROVE  n - 1 \in At(Tail(q), t) /\ Tail(q)[n - 1] = q[n]
  BY DEF At

LEMMA FirstOfQueue ==
    ASSUME NEW F, NEW q \in Seq(F), q # <<>>
    PROVE  1 \in At(q, Head(q).type) /\ q[1] = Head(q)
  BY DEF At

AgentFrames == PollMsg \cup CmdMsg
OrchFrames == StateMsg \cup AckMsg

LEMMA AgentFrameTypes ==
    ASSUME NEW m \in AgentFrames
    PROVE  /\ m.type \in {"poll", "cmd"}
           /\ m.type = "cmd" => m.cmd \in Cmd
           /\ m.type = "poll" => m.req \in ReqId /\ m.echo \in Status
  BY DEF AgentFrames, PollMsg, CmdMsg

LEMMA OrchFrameTypes ==
    ASSUME NEW m \in OrchFrames
    PROVE  /\ m.type \in {"state", "ack"}
           /\ m.type = "state" => m.req \in ReqId /\ m.full \in BOOLEAN /\ m.snap \in Snapshot
           /\ m.type = "ack" => m.id \in 1..MaxCmds /\ m.ok \in BOOLEAN
  BY DEF OrchFrames, StateMsg, AckMsg

LEMMA QueueTypes ==
    ASSUME TypeOK
    PROVE  /\ toAgent \in [Instance -> Seq(AgentFrames)]
           /\ toOrch \in [Instance -> Seq(OrchFrames)]
  BY DEF TypeOK, AgentFrames, OrchFrames

\* A queue of a family of queues grows, shrinks or is emptied.
LEMMA Enqueued ==
    ASSUME NEW F, NEW f \in [Instance -> Seq(F)], NEW i \in Instance, NEW m \in F
    PROVE  [f EXCEPT ![i] = Append(@, m)] \in [Instance -> Seq(F)]
<1> DEFINE G == Seq(F)
<1>1. Append(f[i], m) \in G /\ f \in [Instance -> G]
  OBVIOUS
<1> HIDE DEF G
<1>2. [f EXCEPT ![i] = Append(@, m)] \in [Instance -> G]
  BY <1>1
<1> QED
  BY <1>2 DEF G

LEMMA Emptied ==
    ASSUME NEW F, NEW f \in [Instance -> Seq(F)], NEW i \in Instance
    PROVE  [f EXCEPT ![i] = <<>>] \in [Instance -> Seq(F)]
<1> DEFINE G == Seq(F)
<1>1. <<>> \in G /\ f \in [Instance -> G]
  OBVIOUS
<1> HIDE DEF G
<1>2. [f EXCEPT ![i] = <<>>] \in [Instance -> G]
  BY <1>1
<1> QED
  BY <1>2 DEF G

LEMMA Dequeued ==
    ASSUME NEW F, NEW f \in [Instance -> Seq(F)], NEW i \in Instance, f[i] # <<>>
    PROVE  /\ [f EXCEPT ![i] = Tail(@)] \in [Instance -> Seq(F)]
           /\ Head(f[i]) \in F
<1> DEFINE G == Seq(F)
<1>1. Tail(f[i]) \in G /\ Head(f[i]) \in F /\ f \in [Instance -> G]
  OBVIOUS
<1> HIDE DEF G
<1>2. [f EXCEPT ![i] = Tail(@)] \in [Instance -> G]
  BY <1>1
<1> QED
  BY <1>1, <1>2 DEF G

-----------------------------------------------------------------------------
(* Polls.                                                                  *)

\* One poll or one reply is under way on a connection, and none if none is awaited;
\* the poll says what is recorded, and so does a reply that carries no snapshot.
OnePollAt(i) ==
    /\ \A n, k \in At(toAgent[i], "poll") : n = k
    /\ \A n, k \in At(toOrch[i], "state") : n = k
    /\ i \in links =>
         /\ At(toAgent[i], "poll") = {} \/ At(toOrch[i], "state") = {}
         /\ outstanding[i] = 0 => At(toAgent[i], "poll") = {} /\ At(toOrch[i], "state") = {}
         /\ \A n \in At(toAgent[i], "poll") : toAgent[i][n] = PollFor(i, outstanding[i])
         /\ \A n \in At(toOrch[i], "state") :
               /\ toOrch[i][n].req = outstanding[i]
               /\ toOrch[i][n].full \/ toOrch[i][n].snap = records[i]

OnePoll == \A i \in Instance : OnePollAt(i)

\* Nothing is known of a connection to come.
Unused(i) == i \notin links /\ toAgent[i] = <<>> /\ toOrch[i] = <<>>
Fresh ==
    /\ \A i \in Instance : connects[i[1]] < i[2] => Unused(i)
    /\ \A p \in Process : current[p] <= connects[p]

Polling == TypeOK /\ OnePoll /\ Fresh

LEMMA RangeOfQueue ==
    ASSUME NEW F, NEW q \in Seq(F), NEW m \in Range(q)
    PROVE  \E n \in 1..Len(q) : m = q[n]
<1>1. DOMAIN q = 1..Len(q)
  OBVIOUS
<1>2. \E n \in DOMAIN q : m = q[n]
  BY DEF Range
<1> QED
  BY <1>1, <1>2

LEMMA NextReqType ==
    ASSUME NEW i, At(toAgent[i], "poll") = {}, At(toOrch[i], "state") = {},
           toAgent[i] \in Seq(AgentFrames), toOrch[i] \in Seq(OrchFrames)
    PROVE  NextReq(i) \in ReqId
<1>1. InFlight(i) = {}
  <2>1. ASSUME NEW m \in Range(toAgent[i]) \cup Range(toOrch[i])
        PROVE  m.type \notin {"poll", "state"}
    <3>1. CASE m \in Range(toAgent[i])
      <4>1. PICK n \in 1..Len(toAgent[i]) : m = toAgent[i][n]
        BY <3>1, RangeOfQueue
      <4>2. m \in AgentFrames /\ m.type # "poll"
        BY <4>1 DEF At
      <4> QED
        BY <4>2, AgentFrameTypes
    <3>2. CASE m \in Range(toOrch[i])
      <4>1. PICK n \in 1..Len(toOrch[i]) : m = toOrch[i][n]
        BY <3>2, RangeOfQueue
      <4>2. m \in OrchFrames /\ m.type # "state"
        BY <4>1 DEF At
      <4> QED
        BY <4>2, OrchFrameTypes
    <3> QED
      BY <3>1, <3>2
  <2> QED
    BY <2>1 DEF InFlight
<1>2. 1 \in ReqId /\ \A m \in ReqId : 1 <= m
  BY DEF ReqId
<1>3. \E n \in ReqId : n \notin InFlight(i) /\ \A m \in ReqId \ InFlight(i) : n <= m
  BY <1>1, <1>2
<1> QED
  BY <1>3 DEF NextReq

LEMMA PollType ==
    ASSUME TypeOK, NEW i \in Instance, NEW n \in ReqId
    PROVE  PollFor(i, n) \in PollMsg /\ PollFor(i, n).type = "poll"
<1>1. records[i] \in Snapshot \cup {Unknown}
  BY DEF TypeOK
<1>2. Known(i) => records[i].status \in Status
  BY <1>1 DEF Known, Snapshot
<1>3. "active" \in Status
  BY DEF Status
<1> QED
  BY <1>1, <1>2, <1>3 DEF PollFor, LastHashOf, PollMsg

-----------------------------------------------------------------------------
(* Types.                                                                  *)

\* The types that the invariant of the books does not give.
BookTypes ==
    /\ links \subseteq Instance
    /\ outstanding \in [Instance -> ReqId \cup {0}]
    /\ missed \in [Instance -> 0..2]
    /\ records \in [Instance -> Snapshot \cup {Unknown}]
    /\ stale \subseteq Instance
    /\ override \in [Instance -> Status \cup {Unknown}]
    /\ reservedIds \subseteq RoomId
    /\ pending \subseteq Cmd
    /\ cmdSeq \in 0..MaxCmds
    /\ orphaned \subseteq RoomId

WireTypes ==
    /\ resuming \in Seq(Instance \X Status)
    /\ toAgent \in [Instance -> Seq(AgentFrames)]
    /\ toOrch \in [Instance -> Seq(OrchFrames)]
    /\ waiting \in [Process -> SUBSET Status]

LEMMA TypesAre == Inv => (TypeOK <=> BookTypes /\ WireTypes)
  BY DEF TypeOK, BookTypes, WireTypes, AgentFrames, OrchFrames, Inv, Books, PendBooks, HoldBooks, Wires, AgentsOK

LEMMA IdsOfPending ==
    ASSUME NEW C \in SUBSET Cmd
    PROVE  \A c \in Creates(C) : c \in C
  BY DEF Creates

LEMMA TeardownTypes ==
    ASSUME Inv, BookTypes, NEW i \in Instance, Teardown(i)
    PROVE  BookTypes'
<1>1. IdsOf(PendingOf(i)) \subseteq RoomId /\ HeldBy(i) \subseteq RoomId
  BY DEF Inv, Books, PendBooks, IdsOf, Creates, PendingOf, Issued, HeldBy
<1>2. Known(i) => records[i].rooms \subseteq RoomId
  BY DEF BookTypes, Known, Snapshot
<1>3. orphaned' \subseteq RoomId
  BY <1>1, <1>2 DEF Teardown, BookTypes
<1>4. links' \subseteq Instance /\ pending' \subseteq Cmd /\ cmdSeq' \in 0..MaxCmds /\ reservedIds' \subseteq RoomId
  BY DEF Teardown, BookTypes, RejectAll, Release
<1>5. outstanding' \in [Instance -> ReqId \cup {0}] /\ missed' \in [Instance -> 0..2]
  BY DEF Teardown, NoPoll, BookTypes
<1>6. /\ records' \in [Instance -> Snapshot \cup {Unknown}]
      /\ stale' \subseteq Instance
      /\ override' \in [Instance -> Status \cup {Unknown}]
  BY DEF Teardown, BookTypes, readVars
<1> QED
  BY <1>3, <1>4, <1>5, <1>6 DEF BookTypes

LEMMA CreateRoomTypes ==
    ASSUME Inv, BookTypes, WireTypes, NEW r \in RoomId, CreateRoom(r)
    PROVE  BookTypes' /\ WireTypes'
<1>1. PICK i \in Candidates \cup Pinnable :
        LET c == [id |-> cmdSeq + 1, inst |-> i, op |-> "create", room |-> r]
        IN  \/ Sent(c) /\ Reserve(c)
            \/ NotSent /\ UNCHANGED <<reserved, reservedIds>>
  BY DEF CreateRoom
<1> DEFINE c == [id |-> cmdSeq + 1, inst |-> i, op |-> "create", room |-> r]
<1>2. i \in Instance
  BY DEF Candidates, Pinnable
<1>3. cmdSeq' = cmdSeq + 1 /\ cmdSeq + 1 \in 1..MaxCmds /\ "create" \in Ops
  BY FleetAssumption DEF CreateRoom, BookTypes
<1>4. c \in Cmd /\ c.inst = i /\ c.room = r
  BY <1>2, <1>3 DEF Cmd
<1>5. UNCHANGED <<links, outstanding, missed, records, stale, override, orphaned, resuming, toOrch, waiting>>
  BY DEF CreateRoom, readVars, pollVars, agentVars
<1>6. CASE Sent(c) /\ Reserve(c)
  <2>1. [type |-> "cmd", cmd |-> c] \in AgentFrames
    BY <1>4 DEF AgentFrames, CmdMsg
  <2> HIDE DEF c
  <2>2. pending' \subseteq Cmd /\ reservedIds' \subseteq RoomId
    BY <1>4, <1>6 DEF Sent, Reserve, BookTypes
  <2>3. toAgent' \in [Instance -> Seq(AgentFrames)]
    BY <1>2, <1>4, <1>6, <2>1, Enqueued DEF Sent, WireTypes
  <2> QED
    BY <1>3, <1>5, <2>2, <2>3 DEF BookTypes, WireTypes
<1>7. CASE NotSent /\ UNCHANGED <<reserved, reservedIds>>
  BY <1>3, <1>5, <1>7 DEF NotSent, BookTypes, WireTypes
<1> QED
  BY <1>1, <1>6, <1>7

LEMMA SendCommandTypes ==
    ASSUME Inv, BookTypes, WireTypes, NEW i \in Instance, NEW op \in Ops,
           NEW r \in RoomId \cup {NoRoom}, SendCommand(i, op, r)
    PROVE  BookTypes' /\ WireTypes'
<1> DEFINE c == [id |-> cmdSeq + 1, inst |-> i, op |-> op, room |-> r]
<1>1. cmdSeq' = cmdSeq + 1 /\ cmdSeq + 1 \in 1..MaxCmds /\ Sent(c)
  BY FleetAssumption DEF SendCommand, BookTypes
<1>2. c \in Cmd /\ c.inst = i
  BY <1>1 DEF Cmd
<1>3. UNCHANGED <<links, outstanding, missed, records, stale, override, reservedIds, orphaned, resuming, toOrch, waiting>>
  BY DEF SendCommand, readVars, pollVars, agentVars, resVars
<1>4. [type |-> "cmd", cmd |-> c] \in AgentFrames
  BY <1>2 DEF AgentFrames, CmdMsg
<1> HIDE DEF c
<1>5. pending' \subseteq Cmd
  BY <1>1, <1>2 DEF Sent, BookTypes
<1>6. toAgent' \in [Instance -> Seq(AgentFrames)]
  BY <1>1, <1>2, <1>4, Enqueued DEF Sent, WireTypes
<1> QED
  BY <1>1, <1>3, <1>5, <1>6 DEF BookTypes, WireTypes

LEMMA SettleTypes ==
    ASSUME Inv, BookTypes, NEW c \in pending, Settle(c),
           \/ HoldOrRelease(c)
           \/ Release({c}) /\ UNCHANGED <<held, heldCount>>
    PROVE  pending' \subseteq Cmd /\ reservedIds' \subseteq RoomId
  BY DEF Settle, HoldOrRelease, Hold, Release, resVars, BookTypes

LEMMA PollTypes ==
    ASSUME Inv, BookTypes, WireTypes, NEW i \in Instance, Poll(i),
           At(toAgent[i], "poll") = {}, At(toOrch[i], "state") = {}
    PROVE  /\ outstanding' \in [Instance -> ReqId \cup {0}]
           /\ toAgent' \in [Instance -> Seq(AgentFrames)]
           /\ NextReq(i) \in ReqId
<1>1. NextReq(i) \in ReqId
  BY NextReqType DEF WireTypes
<1>2. TypeOK
  BY TypesAre
<1>3. PollFor(i, NextReq(i)) \in AgentFrames
  BY <1>1, <1>2, PollType DEF AgentFrames
<1>4. toAgent' \in [Instance -> Seq(AgentFrames)]
  BY <1>3, Enqueued DEF Poll, WireTypes
<1> QED
  BY <1>1, <1>4 DEF Poll, BookTypes

\* The reply that an agent sends.
LEMMA ReplyTypes ==
    ASSUME WireTypes, NEW i \in Instance, NEW m \in OrchFrames, Reply(i, m)
    PROVE  toOrch' \in [Instance -> Seq(OrchFrames)]
  BY Enqueued DEF Reply, WireTypes

LEMMA ConnType ==
    ASSUME AgentsOK, NEW p \in Process, current[p] # 0
    PROVE  Conn(p) \in Instance
  BY FleetAssumption DEF AgentsOK, Conn, Instance

LEMMA TickTypes ==
    ASSUME Inv, Polling, NEW i \in Instance, Tick(i)
    PROVE  BookTypes' /\ WireTypes'
<1>1. BookTypes /\ WireTypes /\ OnePollAt(i)
  BY TypesAre DEF Polling, OnePoll
<1>2. CASE TickPolls(i)
  <2>1. Poll(i) /\ At(toAgent[i], "poll") = {} /\ At(toOrch[i], "state") = {}
    BY <1>1, <1>2 DEF TickPolls, OnePollAt
  <2>2. /\ outstanding' \in [Instance -> ReqId \cup {0}]
        /\ toAgent' \in [Instance -> Seq(AgentFrames)]
    BY <1>1, <2>1, PollTypes
  <2>3. UNCHANGED <<links, missed, records, stale, override, reservedIds, pending, cmdSeq, resuming, toOrch, waiting, orphaned>>
    BY <1>2 DEF TickPolls, readVars, resVars, cmdVars, agentVars
  <2> QED
    BY <1>1, <2>2, <2>3 DEF BookTypes, WireTypes
<1>3. CASE TickMisses(i)
  <2>1. UNCHANGED <<resuming, toAgent, waiting>>
    BY <1>3 DEF TickMisses, agentVars
  <2>2. CASE missed[i] = 2
    <3>1. Teardown(i)
      BY <1>3, <2>2 DEF TickMisses
    <3>2. toOrch' \in [Instance -> Seq(OrchFrames)]
      BY <1>1, <3>1 DEF Teardown, WireTypes
    <3> QED
      BY <1>1, <2>1, <3>1, <3>2, TeardownTypes DEF WireTypes
  <2>3. CASE missed[i] # 2
    <3>1. missed[i] + 1 \in 0..2
      BY <1>1, <2>3 DEF BookTypes
    <3>2. missed' = [missed EXCEPT ![i] = @ + 1] /\ stale' \in {stale \cup {i}, stale}
      BY <1>3, <2>3 DEF TickMisses
    <3>3. UNCHANGED <<links, outstanding, records, override, reservedIds, pending, cmdSeq, toOrch, orphaned>>
      BY <1>3, <2>3 DEF TickMisses, resVars, cmdVars
    <3> QED
      BY <1>1, <2>1, <3>1, <3>2, <3>3 DEF BookTypes, WireTypes
  <2> QED
    BY <2>2, <2>3
<1> QED
  BY <1>2, <1>3 DEF Tick

LEMMA HandleStateTypes ==
    ASSUME Inv, BookTypes, WireTypes, NEW i \in Instance, HandleState(i)
    PROVE  BookTypes' /\ WireTypes'
<1> DEFINE m == Head(toOrch[i])
           s == IF m.full THEN m.snap ELSE records[i]
<1>1. toOrch[i] # <<>> /\ m.type = "state" /\ UNCHANGED <<toAgent, waiting, resuming>>
  BY DEF HandleState, Kick, agentVars
<1>2. m \in OrchFrames
  BY <1>1, Dequeued DEF WireTypes
<1>3. CASE m.req # outstanding[i]
  <2>1. Teardown(i)
    BY <1>3 DEF HandleState, Kick
  <2>2. toOrch' \in [Instance -> Seq(OrchFrames)]
    BY <2>1 DEF Teardown, WireTypes
  <2> QED
    BY <1>1, <2>1, <2>2, TeardownTypes DEF WireTypes
<1>4. CASE m.req = outstanding[i]
  <2>1. /\ NoPoll(i) /\ stale' = stale \ {i}
        /\ records' = [records EXCEPT ![i] = s]
        /\ override' = ReconciledOverride(i, s.status)
        /\ toOrch' = [toOrch EXCEPT ![i] = Tail(@)]
        /\ UNCHANGED <<links, reservedIds, pending, cmdSeq, orphaned>>
    BY <1>4 DEF HandleState, cmdVars
  <2>2. s \in Snapshot \cup {Unknown}
    BY <1>1, <1>2, OrchFrameTypes DEF BookTypes
  <2>3. toOrch' \in [Instance -> Seq(OrchFrames)]
    BY <1>1, <2>1, Dequeued DEF WireTypes
  <2> HIDE DEF s, m
  <2>4. override' \in [Instance -> Status \cup {Unknown}]
    BY <2>1 DEF ReconciledOverride, BookTypes
  <2>5. outstanding' \in [Instance -> ReqId \cup {0}] /\ missed' \in [Instance -> 0..2]
    BY <2>1 DEF NoPoll, BookTypes
  <2> QED
    BY <1>1, <2>1, <2>2, <2>3, <2>4, <2>5 DEF BookTypes, WireTypes
<1> QED
  BY <1>3, <1>4

LEMMA HandleAckTypes ==
    ASSUME Inv, BookTypes, WireTypes, NEW i \in Instance, HandleAck(i)
    PROVE  BookTypes' /\ WireTypes'
<1> DEFINE m == Head(toOrch[i])
           C == {c \in PendingOf(i) : c.id = m.id}
<1>1. toOrch[i] # <<>> /\ UNCHANGED <<toAgent, waiting>>
  BY DEF HandleAck, agentVars
<1>2. CASE C = {}
  <2>1. Teardown(i) /\ UNCHANGED resuming
    BY <1>2 DEF HandleAck, Kick
  <2>2. toOrch' \in [Instance -> Seq(OrchFrames)]
    BY <2>1 DEF Teardown, WireTypes
  <2> QED
    BY <1>1, <2>1, <2>2, TeardownTypes DEF WireTypes
<1>3. CASE C # {}
  <2>1. PICK c \in C : /\ Acked(c, m.ok)
                      /\ toOrch' = [toOrch EXCEPT ![i] = Tail(@)]
                      /\ UNCHANGED <<links, pollVars, readVars, cmdSeq, orphaned>>
    BY <1>3 DEF HandleAck
  <2>2. c \in pending /\ c.inst \in Instance
    BY DEF PendingOf, Inv, Books, PendBooks, Issued
  <2>3. /\ Settle(c)
        /\ \/ HoldOrRelease(c)
           \/ Release({c}) /\ UNCHANGED <<held, heldCount>>
    BY <2>1 DEF Acked
  <2>4. pending' \subseteq Cmd /\ reservedIds' \subseteq RoomId
    BY <2>2, <2>3, SettleTypes
  <2>5. toOrch' \in [Instance -> Seq(OrchFrames)]
    BY <1>1, <2>1, Dequeued DEF WireTypes
  <2>6. resuming' \in Seq(Instance \X Status)
    <3>1. c.op \in DOMAIN StatusOf => StatusOf[c.op] \in Status
      BY DEF StatusOf, Status
    <3> DEFINE w == <<c.inst, StatusOf[c.op]>>
               W == Instance \X Status
    <3>2. resuming' = resuming \/ (c.op \in DOMAIN StatusOf /\ resuming' = Append(resuming, w))
      BY <2>1 DEF Acked
    <3>3. (c.op \in DOMAIN StatusOf => w \in W) /\ resuming \in Seq(W)
      BY <2>2, <3>1 DEF WireTypes
    <3> HIDE DEF w, W
    <3>4. resuming' \in Seq(W)
      BY <3>2, <3>3
    <3> QED
      BY <3>4 DEF W
  <2> QED
    BY <1>1, <2>1, <2>4, <2>5, <2>6 DEF BookTypes, WireTypes, pollVars, readVars
<1> QED
  BY <1>2, <1>3

LEMMA ResumeStatusTypes ==
    ASSUME Inv, BookTypes, WireTypes, ResumeStatus
    PROVE  BookTypes' /\ WireTypes'
<1> DEFINE W == Instance \X Status
<1>1. resuming \in Seq(W) /\ resuming # <<>> /\ resuming' = Tail(resuming)
  BY DEF ResumeStatus, Quiet, WireTypes
<1>2. UNCHANGED <<links, outstanding, missed, records, stale, reservedIds, pending, cmdSeq, toAgent, toOrch, waiting, orphaned>>
  BY DEF ResumeStatus, pollVars, resVars, cmdVars, netVars, agentVars
<1> HIDE DEF W
<1>3. resuming' \in Seq(W) /\ Head(resuming) \in W
  BY <1>1
<1>4. Head(resuming)[2] \in Status
  BY <1>3 DEF W
<1>5. override' \in [Instance -> Status \cup {Unknown}]
  BY <1>4 DEF ResumeStatus, BookTypes
<1>6. resuming' \in Seq(Instance \X Status)
  BY <1>3 DEF W
<1> QED
  BY <1>2, <1>5, <1>6 DEF BookTypes, WireTypes

\* The connection that Connect opens.
NextConn(p) == <<p, connects[p] + 1>>

LEMMA ConnectOpens ==
    ASSUME Inv, Fresh, NEW p \in Process, Connect(p)
    PROVE  /\ NextConn(p) \in Instance /\ connects[p] + 1 \in 1..MaxConnects
           /\ Unused(NextConn(p)) /\ NextConn(p) \notin links /\ ~Known(NextConn(p))
           /\ connects' = [connects EXCEPT ![p] = @ + 1]
           /\ current' = [current EXCEPT ![p] = connects[p] + 1]
           /\ links' = links \cup {NextConn(p)}
           /\ Poll(NextConn(p)) /\ missed' = [missed EXCEPT ![NextConn(p)] = 0]
           /\ UNCHANGED <<records, stale, override, resVars, cmdVars, resuming, toOrch, agentVars, orphaned>>
<1>1. connects[p] \in 0..MaxConnects /\ connects[p] < MaxConnects /\ MaxConnects \in Nat
  BY FleetAssumption DEF Connect, Inv, Wires, AgentsOK
<1>2. NextConn(p) \in Instance /\ connects[p] + 1 \in 1..MaxConnects
  BY <1>1 DEF NextConn, Instance
<1>3. Unused(NextConn(p))
  BY <1>1, <1>2 DEF Fresh, NextConn
<1>4. NextConn(p) \notin links /\ ~Known(NextConn(p))
  BY <1>2, <1>3 DEF Unused, Inv, Books, GoneBooks
<1> QED
  BY <1>2, <1>3, <1>4 DEF Connect, NextConn, PollerStart, readVars

LEMMA ConnectTypes ==
    ASSUME Inv, Polling, NEW p \in Process, Connect(p)
    PROVE  BookTypes' /\ WireTypes'
<1>1. BookTypes /\ WireTypes
  BY TypesAre DEF Polling
<1> DEFINE i == NextConn(p)
<1>2. /\ i \in Instance /\ Unused(i) /\ Poll(i)
      /\ links' = links \cup {i} /\ missed' = [missed EXCEPT ![i] = 0]
      /\ UNCHANGED <<records, stale, override, resVars, cmdVars, resuming, toOrch, agentVars, orphaned>>
  BY ConnectOpens DEF Polling
<1> HIDE DEF i
<1>3. At(toAgent[i], "poll") = {} /\ At(toOrch[i], "state") = {}
  BY <1>2, AtNone DEF Unused
<1>4. /\ outstanding' \in [Instance -> ReqId \cup {0}]
      /\ toAgent' \in [Instance -> Seq(AgentFrames)]
  BY <1>1, <1>2, <1>3, PollTypes
<1>5. links' \subseteq Instance /\ missed' \in [Instance -> 0..2]
  BY <1>1, <1>2 DEF BookTypes
<1>6. UNCHANGED <<records, stale, override, reservedIds, pending, cmdSeq, orphaned, resuming, toOrch, waiting>>
  BY <1>2 DEF resVars, cmdVars, agentVars
<1> QED
  BY <1>1, <1>4, <1>5, <1>6 DEF BookTypes, WireTypes

LEMMA AgentLosesTypes ==
    ASSUME Inv, BookTypes, WireTypes, NEW p \in Process, AgentLoses(p)
    PROVE  BookTypes' /\ WireTypes'
<1>1. Conn(p) \in Instance
  BY ConnType DEF AgentLoses, Inv, Wires
<1>2. /\ toAgent' = [toAgent EXCEPT ![Conn(p)] = <<>>]
      /\ waiting' = [waiting EXCEPT ![p] = {}]
      /\ UNCHANGED <<links, outstanding, missed, records, stale, override, reservedIds, pending, cmdSeq, resuming, toOrch, orphaned>>
  BY DEF AgentLoses, pollVars, readVars, resVars, cmdVars
<1>3. toAgent' \in [Instance -> Seq(AgentFrames)]
  BY <1>1, <1>2, Emptied DEF WireTypes
<1>4. waiting' \in [Process -> SUBSET Status]
  BY <1>2 DEF WireTypes
<1> QED
  BY <1>2, <1>3, <1>4 DEF BookTypes, WireTypes

\* The snapshot an agent would send.
Snap(p) == [rooms |-> rooms[p], fleet |-> origins[p], status |-> status[p]]

LEMMA SnapType == ASSUME AgentsOK, NEW p \in Process PROVE Snap(p) \in Snapshot
  BY DEF AgentsOK, Snap, Snapshot

StateFrom(p, m) == [type |-> "state", req |-> m.req, full |-> m.known # Snap(p), snap |-> Snap(p)]

LEMMA AgentPolled ==
    ASSUME Inv, WireTypes, NEW p \in Process, AgentPoll(p)
    PROVE  LET i == Conn(p)
               m == Head(toAgent[i])
           IN  /\ i \in Instance /\ current[p] # 0
               /\ toAgent[i] # <<>> /\ m \in AgentFrames /\ m.type = "poll"
               /\ StateFrom(p, m) \in OrchFrames
               /\ Reply(i, StateFrom(p, m))
               /\ toAgent' = [toAgent EXCEPT ![i] = Tail(@)]
               /\ waiting' = [waiting EXCEPT ![p] = @ \ {m.echo}]
               /\ UNCHANGED <<links, pollVars, readVars, resVars, cmdVars, resuming,
                              current, connects, rooms, origins, status, orphaned>>
<1> DEFINE i == Conn(p)
           m == Head(toAgent[i])
<1>1. i \in Instance
  BY ConnType DEF AgentPoll, Inv, Wires
<1>2. toAgent[i] # <<>> /\ m.type = "poll"
  BY DEF AgentPoll, Arrives
<1>3. m \in AgentFrames
  BY <1>1, <1>2, Dequeued DEF WireTypes
<1>4. StateFrom(p, m) \in OrchFrames
  <2>1. m.req \in ReqId /\ Snap(p) \in Snapshot
    BY <1>2, <1>3, AgentFrameTypes, SnapType DEF Inv, Wires
  <2> QED
    BY <2>1 DEF StateFrom, OrchFrames, StateMsg
<1> QED
  BY <1>1, <1>2, <1>3, <1>4 DEF AgentPoll, StateFrom, Snap

LEMMA AgentPollTypes ==
    ASSUME Inv, BookTypes, WireTypes, NEW p \in Process, AgentPoll(p)
    PROVE  BookTypes' /\ WireTypes'
<1> DEFINE i == Conn(p)
           m == Head(toAgent[i])
           s == StateFrom(p, m)
<1>1. /\ i \in Instance /\ toAgent[i] # <<>> /\ s \in OrchFrames /\ Reply(i, s)
      /\ toAgent' = [toAgent EXCEPT ![i] = Tail(@)]
      /\ waiting' = [waiting EXCEPT ![p] = @ \ {m.echo}]
      /\ UNCHANGED <<links, pollVars, readVars, resVars, cmdVars, resuming, orphaned>>
  BY AgentPolled
<1> HIDE DEF i, m, s
<1>2. toOrch' \in [Instance -> Seq(OrchFrames)]
  BY <1>1, ReplyTypes
<1>3. toAgent' \in [Instance -> Seq(AgentFrames)]
  BY <1>1, Dequeued DEF WireTypes
<1>4. waiting' \in [Process -> SUBSET Status]
  BY <1>1 DEF WireTypes
<1>5. UNCHANGED <<links, outstanding, missed, records, stale, override, reservedIds, pending, cmdSeq, resuming, orphaned>>
  BY <1>1 DEF pollVars, readVars, resVars, cmdVars
<1> QED
  BY <1>2, <1>3, <1>4, <1>5 DEF BookTypes, WireTypes

AckFrom(c) == [type |-> "ack", id |-> c.id, ok |-> c.op = "create" => rooms' # rooms]

LEMMA AgentActed ==
    ASSUME Inv, WireTypes, NEW p \in Process, AgentCmd(p)
    PROVE  LET i == Conn(p)
               c == Head(toAgent[i]).cmd
           IN  /\ i \in Instance /\ current[p] # 0
               /\ toAgent[i] # <<>> /\ Head(toAgent[i]).type = "cmd" /\ c \in Cmd
               /\ AckFrom(c) \in OrchFrames
               /\ Reply(i, AckFrom(c))
               /\ toAgent' = [toAgent EXCEPT ![i] = Tail(@)]
               /\ UNCHANGED <<links, pollVars, readVars, resVars, cmdVars, resuming,
                              current, connects, waiting, orphaned>>
<1> DEFINE i == Conn(p)
           c == Head(toAgent[i]).cmd
<1>1. i \in Instance
  BY ConnType DEF AgentCmd, Inv, Wires
<1>2. toAgent[i] # <<>> /\ Head(toAgent[i]).type = "cmd"
  BY DEF AgentCmd, Arrives
<1>3. c \in Cmd
  <2>1. Head(toAgent[i]) \in AgentFrames
    BY <1>1, <1>2, Dequeued DEF WireTypes
  <2> QED
    BY <1>2, <2>1, AgentFrameTypes
<1>4. AckFrom(c) \in OrchFrames
  BY <1>3 DEF AckFrom, OrchFrames, AckMsg, Cmd
<1> QED
  BY <1>1, <1>2, <1>3, <1>4 DEF AgentCmd, AckFrom

LEMMA AgentCmdTypes ==
    ASSUME Inv, BookTypes, WireTypes, NEW p \in Process, AgentCmd(p)
    PROVE  BookTypes' /\ WireTypes'
<1> DEFINE i == Conn(p)
           s == AckFrom(Head(toAgent[i]).cmd)
<1>1. /\ i \in Instance /\ toAgent[i] # <<>> /\ s \in OrchFrames /\ Reply(i, s)
      /\ toAgent' = [toAgent EXCEPT ![i] = Tail(@)]
      /\ UNCHANGED <<links, pollVars, readVars, resVars, cmdVars, resuming, waiting, orphaned>>
  BY AgentActed
<1> HIDE DEF i, s
<1>2. toOrch' \in [Instance -> Seq(OrchFrames)]
  BY <1>1, ReplyTypes
<1>3. toAgent' \in [Instance -> Seq(AgentFrames)]
  BY <1>1, Dequeued DEF WireTypes
<1>4. UNCHANGED <<links, outstanding, missed, records, stale, override, reservedIds, pending, cmdSeq, resuming, waiting, orphaned>>
  BY <1>1 DEF pollVars, readVars, resVars, cmdVars
<1> QED
  BY <1>2, <1>3, <1>4 DEF BookTypes, WireTypes

LEMMA TypeStep ==
    ASSUME Inv, Polling, [Next]_vars
    PROVE  TypeOK'
<1>1. BookTypes /\ WireTypes
  BY TypesAre DEF Polling
<1>2. Inv'
  BY InvStep
<1> SUFFICES BookTypes' /\ WireTypes'
  BY <1>2, TypesAre DEF TypeOK, BookTypes, WireTypes, AgentFrames, OrchFrames, Inv, Books, PendBooks, HoldBooks, Wires, AgentsOK
<1>3. CASE \E r \in RoomId : CreateRoom(r)
  BY <1>1, <1>3, CreateRoomTypes
<1>4. CASE \E i \in Instance, op \in Ops, r \in RoomId \cup {NoRoom} : SendCommand(i, op, r)
  BY <1>1, <1>4, SendCommandTypes
<1>5. ASSUME NEW c \in pending, CommandTimeout(c)
      PROVE  BookTypes' /\ WireTypes'
  <2>1. pending' \subseteq Cmd /\ reservedIds' \subseteq RoomId
    BY <1>1, <1>5, SettleTypes DEF CommandTimeout
  <2>2. IdsOf({c}) \subseteq RoomId
    BY DEF IdsOf, Creates, Inv, Books, PendBooks, Issued
  <2>3. orphaned' = orphaned \cup IdsOf({c})
    BY <1>5 DEF CommandTimeout
  <2>4. UNCHANGED <<links, outstanding, missed, records, stale, override, cmdSeq, resuming, toAgent, toOrch, waiting>>
    BY <1>5 DEF CommandTimeout, pollVars, readVars, netVars, agentVars
  <2> QED
    BY <1>1, <2>1, <2>2, <2>3, <2>4 DEF BookTypes, WireTypes
<1>6. CASE \E i \in Instance : Frame(i)
  BY <1>1, <1>6, HandleStateTypes, HandleAckTypes DEF Frame
<1>7. CASE \E i \in Instance : Tick(i)
  BY <1>7, TickTypes
<1>8. ASSUME NEW i \in Instance, OrchestratorLoses(i)
      PROVE  BookTypes' /\ WireTypes'
  <2>1. Teardown(i) /\ UNCHANGED <<resuming, toAgent, waiting>>
    BY <1>8 DEF OrchestratorLoses, agentVars
  <2>2. toOrch' \in [Instance -> Seq(OrchFrames)]
    BY <1>1, <2>1, Emptied DEF Teardown, WireTypes
  <2> QED
    BY <1>1, <2>1, <2>2, TeardownTypes DEF WireTypes
<1>9. CASE ResumeStatus
  BY <1>1, <1>9, ResumeStatusTypes
<1>10. CASE \E p \in Process : Connect(p) \/ AgentLoses(p) \/ AgentFrame(p)
  BY <1>1, <1>10, ConnectTypes, AgentLosesTypes, AgentPollTypes, AgentCmdTypes DEF AgentFrame
<1>11. CASE \E p \in Process, r \in RoomId : LocalCreate(p, r) \/ LocalDestroy(p, r)
  BY <1>1, <1>11 DEF LocalCreate, LocalDestroy, BookTypes, WireTypes, pollVars, readVars, resVars, cmdVars, netVars
<1>12. ASSUME NEW p \in Process, NEW s \in Status, LocalStatus(p, s)
       PROVE  BookTypes' /\ WireTypes'
  BY <1>1, <1>12 DEF LocalStatus, BookTypes, WireTypes, pollVars, readVars, resVars, cmdVars, netVars
<1>13. CASE UNCHANGED vars
  BY <1>1, <1>13 DEF vars, BookTypes, WireTypes, pollVars, readVars, resVars, cmdVars, netVars, agentVars
<1> QED
  BY <1>3, <1>4, <1>5, <1>6, <1>7, <1>8, <1>9, <1>10, <1>11, <1>12, <1>13 DEF Next

-----------------------------------------------------------------------------
(* What a step does to one connection.                                     *)

LinkKept(i) == i \in links' <=> i \in links
Calm(i) == toAgent'[i] = toAgent[i] /\ toOrch'[i] = toOrch[i]
SamePoll(i) == outstanding'[i] = outstanding[i] /\ records'[i] = records[i] /\ LinkKept(i)

CmdFrame(c) == [type |-> "cmd", cmd |-> c]

Commanded(i, c) ==
    /\ c \in Cmd /\ c.inst = i /\ Known(i)
    /\ toAgent'[i] = Append(toAgent[i], CmdFrame(c)) /\ toOrch'[i] = toOrch[i]
    /\ SamePoll(i)
Polled(i) ==
    /\ At(toAgent[i], "poll") = {} /\ At(toOrch[i], "state") = {}
    /\ toAgent'[i] = Append(toAgent[i], PollFor(i, outstanding'[i])) /\ toOrch'[i] = toOrch[i]
    /\ outstanding'[i] \in ReqId /\ records'[i] = records[i]
    /\ i \in links \/ i[2] = connects'[i[1]]
Reported(i, p) ==
    /\ i = Conn(p) /\ toAgent[i] # <<>> /\ Head(toAgent[i]).type = "poll"
    /\ toAgent'[i] = Tail(toAgent[i])
    /\ toOrch'[i] = IF i \in links THEN Append(toOrch[i], StateFrom(p, Head(toAgent[i]))) ELSE toOrch[i]
    /\ SamePoll(i)
Acted(i, p) ==
    /\ i = Conn(p) /\ toAgent[i] # <<>> /\ Head(toAgent[i]).type = "cmd"
    /\ toAgent'[i] = Tail(toAgent[i])
    /\ toOrch'[i] = IF i \in links THEN Append(toOrch[i], AckFrom(Head(toAgent[i]).cmd)) ELSE toOrch[i]
    /\ SamePoll(i)
Learnt(i) ==
    /\ toOrch[i] # <<>> /\ Head(toOrch[i]).type = "state"
    /\ toAgent'[i] = toAgent[i] /\ toOrch'[i] = Tail(toOrch[i])
    /\ i \in links /\ i \in links' /\ outstanding'[i] = 0
    /\ records'[i] = Head(toOrch[i]).snap
Heard(i) ==
    /\ toOrch[i] # <<>> /\ Head(toOrch[i]).type = "ack"
    /\ toAgent'[i] = toAgent[i] /\ toOrch'[i] = Tail(toOrch[i])
    /\ SamePoll(i)
Dropped(i) ==
    /\ i \notin links' /\ toAgent'[i] = toAgent[i] /\ toOrch'[i] = <<>>
    /\ records'[i] = Unknown
Unplugged(i) ==
    /\ toAgent'[i] = <<>> /\ toOrch'[i] = toOrch[i]
    /\ SamePoll(i)

WireMove(i) ==
    \/ Calm(i) /\ SamePoll(i)
    \/ \E c : Commanded(i, c)
    \/ Polled(i)
    \/ \E p \in Process : Reported(i, p) \/ Acted(i, p)
    \/ Learnt(i) \/ Heard(i) \/ Dropped(i) \/ Unplugged(i)

LEMMA CreateRoomMoves ==
    ASSUME WireTypes, BookTypes, NEW r \in RoomId, CreateRoom(r), NEW i \in Instance
    PROVE  (Calm(i) \/ \E c : Commanded(i, c)) /\ SamePoll(i)
<1>1. PICK j \in Candidates \cup Pinnable :
        LET c == [id |-> cmdSeq + 1, inst |-> j, op |-> "create", room |-> r]
        IN  \/ Sent(c) /\ Reserve(c)
            \/ NotSent /\ UNCHANGED <<reserved, reservedIds>>
  BY DEF CreateRoom
<1> DEFINE c == [id |-> cmdSeq + 1, inst |-> j, op |-> "create", room |-> r]
<1>2. j \in Instance /\ Known(j)
  BY DEF Candidates, Pinnable
<1>3. cmdSeq + 1 \in 1..MaxCmds /\ "create" \in Ops
  BY FleetAssumption DEF CreateRoom, BookTypes
<1>4. c \in Cmd /\ c.inst = j
  BY <1>2, <1>3 DEF Cmd
<1>5. UNCHANGED <<links, outstanding, records, toOrch>>
  BY DEF CreateRoom, readVars, pollVars
<1>6. SamePoll(i)
  BY <1>5 DEF SamePoll, LinkKept
<1>7. CASE Sent(c) /\ Reserve(c)
  <2> HIDE DEF c
  <2>1. toAgent' = [toAgent EXCEPT ![j] = Append(@, CmdFrame(c))]
    BY <1>4, <1>7 DEF Sent, CmdFrame
  <2>2. CASE i = j
    <3>1. Commanded(i, c)
      BY <1>2, <1>4, <1>5, <1>6, <2>1, <2>2 DEF Commanded, WireTypes
    <3> QED
      BY <1>6, <3>1
  <2>3. CASE i # j
    BY <1>5, <1>6, <2>1, <2>3 DEF Calm
  <2> QED
    BY <2>2, <2>3
<1>8. CASE NotSent
  BY <1>5, <1>6, <1>8 DEF NotSent, Calm
<1> QED
  BY <1>1, <1>7, <1>8

LEMMA SendCommandMoves ==
    ASSUME WireTypes, BookTypes, NEW j \in Instance, NEW op \in Ops,
           NEW r \in RoomId \cup {NoRoom}, SendCommand(j, op, r), NEW i \in Instance
    PROVE  (Calm(i) \/ \E c : Commanded(i, c)) /\ SamePoll(i)
<1> DEFINE c == [id |-> cmdSeq + 1, inst |-> j, op |-> op, room |-> r]
<1>1. cmdSeq + 1 \in 1..MaxCmds /\ Sent(c) /\ Known(j)
  BY FleetAssumption DEF SendCommand, BookTypes
<1>2. c \in Cmd /\ c.inst = j
  BY <1>1 DEF Cmd
<1>3. UNCHANGED <<links, outstanding, records, toOrch>>
  BY DEF SendCommand, readVars, pollVars
<1>4. SamePoll(i)
  BY <1>3 DEF SamePoll, LinkKept
<1> HIDE DEF c
<1>5. toAgent' = [toAgent EXCEPT ![j] = Append(@, CmdFrame(c))]
  BY <1>1, <1>2 DEF Sent, CmdFrame
<1>6. CASE i = j
  <2>1. Commanded(i, c)
    BY <1>1, <1>2, <1>3, <1>4, <1>5, <1>6 DEF Commanded, WireTypes
  <2> QED
    BY <1>4, <2>1
<1>7. CASE i # j
  BY <1>3, <1>4, <1>5, <1>7 DEF Calm
<1> QED
  BY <1>6, <1>7

LEMMA TeardownMoves ==
    ASSUME Inv, BookTypes, WireTypes, NEW j \in Instance, Teardown(j), UNCHANGED toAgent, NEW i \in Instance
    PROVE  IF i = j THEN Dropped(i) ELSE Calm(i) /\ SamePoll(i)
<1>1. /\ links' = links \ {j} /\ toOrch' = [toOrch EXCEPT ![j] = <<>>]
      /\ outstanding' = [outstanding EXCEPT ![j] = 0]
      /\ records' = [records EXCEPT ![j] = Unknown] \/ (~Known(j) /\ records' = records)
  BY DEF Teardown, NoPoll, readVars
<1>2. CASE i = j
  BY <1>1, <1>2 DEF Dropped, WireTypes, BookTypes, Known
<1>3. CASE i # j
  BY <1>1, <1>3 DEF Calm, SamePoll, LinkKept, WireTypes, BookTypes
<1> QED
  BY <1>2, <1>3

\* A reply answers the poll that awaits it: no agent is ever kicked for one.
LEMMA ReplyMatches ==
    ASSUME Inv, Polling, NEW j \in Instance, HandleState(j)
    PROVE  LET m == Head(toOrch[j])
           IN  /\ toOrch[j] # <<>> /\ m.type = "state" /\ m \in OrchFrames /\ j \in links
               /\ m.req = outstanding[j]
               /\ (IF m.full THEN m.snap ELSE records[j]) = m.snap
<1> DEFINE m == Head(toOrch[j])
<1>1. toOrch[j] # <<>> /\ m.type = "state"
  BY DEF HandleState
<1>2. toOrch \in [Instance -> Seq(OrchFrames)]
  BY QueueTypes DEF Polling
<1>3. m \in OrchFrames /\ toOrch[j] \in Seq(OrchFrames)
  BY <1>1, <1>2, Dequeued
<1>4. 1 \in At(toOrch[j], "state") /\ toOrch[j][1] = m
  BY <1>1, <1>3, FirstOfQueue
<1>5. j \in links
  BY <1>1 DEF Inv, Books, GoneBooks
<1> QED
  BY <1>1, <1>3, <1>4, <1>5 DEF Polling, OnePoll, OnePollAt

LEMMA HandleStateMoves ==
    ASSUME Inv, Polling, NEW j \in Instance, HandleState(j), NEW i \in Instance
    PROVE  IF i = j THEN Learnt(i) ELSE Calm(i) /\ SamePoll(i)
<1> DEFINE m == Head(toOrch[j])
<1>1. /\ toOrch[j] # <<>> /\ m.type = "state" /\ j \in links
      /\ m.req = outstanding[j]
      /\ (IF m.full THEN m.snap ELSE records[j]) = m.snap
  BY ReplyMatches
<1>2. /\ toOrch' = [toOrch EXCEPT ![j] = Tail(@)]
      /\ outstanding' = [outstanding EXCEPT ![j] = 0]
      /\ records' = [records EXCEPT ![j] = m.snap]
      /\ UNCHANGED <<toAgent, links>>
  BY <1>1 DEF HandleState, NoPoll
<1>3. BookTypes /\ WireTypes
  BY TypesAre DEF Polling
<1>4. CASE i = j
  BY <1>1, <1>2, <1>3, <1>4 DEF Learnt, WireTypes, BookTypes
<1>5. CASE i # j
  BY <1>2, <1>3, <1>5 DEF Calm, SamePoll, LinkKept, WireTypes, BookTypes
<1> QED
  BY <1>4, <1>5

LEMMA HandleAckMoves ==
    ASSUME Inv, BookTypes, WireTypes, NEW j \in Instance, HandleAck(j), NEW i \in Instance
    PROVE  IF i = j THEN Heard(i) \/ Dropped(i) ELSE Calm(i) /\ SamePoll(i)
<1> DEFINE m == Head(toOrch[j])
           C == {c \in PendingOf(j) : c.id = m.id}
<1>1. toOrch[j] # <<>> /\ m.type = "ack" /\ UNCHANGED toAgent
  BY DEF HandleAck
<1>2. CASE C = {}
  <2>1. Teardown(j)
    BY <1>2 DEF HandleAck, Kick
  <2> QED
    BY <1>1, <2>1, TeardownMoves
<1>3. CASE C # {}
  <2>1. toOrch' = [toOrch EXCEPT ![j] = Tail(@)] /\ UNCHANGED <<links, outstanding, records>>
    BY <1>3 DEF HandleAck, readVars, pollVars
  <2>2. SamePoll(i)
    BY <2>1 DEF SamePoll, LinkKept
  <2>3. CASE i = j
    BY <1>1, <2>1, <2>2, <2>3 DEF Heard, WireTypes
  <2>4. CASE i # j
    BY <1>1, <2>1, <2>2, <2>4 DEF Calm, WireTypes
  <2> QED
    BY <2>3, <2>4
<1> QED
  BY <1>2, <1>3

LEMMA PollMoves ==
    ASSUME Inv, BookTypes, WireTypes, NEW j \in Instance, Poll(j),
           At(toAgent[j], "poll") = {}, At(toOrch[j], "state") = {},
           links \subseteq links', links' \subseteq links \cup {j},
           j \in links \/ j[2] = connects'[j[1]], UNCHANGED <<records, toOrch>>, NEW i \in Instance
    PROVE  IF i = j THEN Polled(i) ELSE Calm(i) /\ SamePoll(i)
<1>1. /\ toAgent' = [toAgent EXCEPT ![j] = Append(@, PollFor(j, NextReq(j)))]
      /\ outstanding' = [outstanding EXCEPT ![j] = NextReq(j)]
  BY DEF Poll
<1>2. NextReq(j) \in ReqId
  BY PollTypes
<1>3. CASE i = j
  BY <1>1, <1>2, <1>3 DEF Polled, BookTypes, WireTypes
<1>4. CASE i # j
  BY <1>1, <1>4 DEF Calm, SamePoll, LinkKept, BookTypes, WireTypes
<1> QED
  BY <1>3, <1>4

LEMMA TickMoves ==
    ASSUME Inv, Polling, NEW j \in Instance, Tick(j), NEW i \in Instance
    PROVE  IF i = j THEN Polled(i) \/ Dropped(i) \/ (Calm(i) /\ SamePoll(i)) ELSE Calm(i) /\ SamePoll(i)
<1>1. BookTypes /\ WireTypes /\ OnePollAt(j)
  BY TypesAre DEF Polling, OnePoll
<1>2. CASE TickPolls(j)
  <2>1. /\ Poll(j) /\ At(toAgent[j], "poll") = {} /\ At(toOrch[j], "state") = {}
        /\ j \in links /\ UNCHANGED <<links, records, toOrch>>
    BY <1>1, <1>2 DEF TickPolls, OnePollAt, readVars
  <2> QED
    BY <1>1, <2>1, PollMoves
<1>3. CASE TickMisses(j) /\ missed[j] = 2
  BY <1>1, <1>3, TeardownMoves DEF TickMisses
<1>4. CASE TickMisses(j) /\ missed[j] # 2
  BY <1>4 DEF TickMisses, Calm, SamePoll, LinkKept
<1> QED
  BY <1>2, <1>3, <1>4 DEF Tick

LEMMA ConnectMoves ==
    ASSUME Inv, Polling, NEW p \in Process, Connect(p), NEW i \in Instance
    PROVE  IF i = NextConn(p) THEN Polled(i) ELSE Calm(i) /\ SamePoll(i)
<1>1. BookTypes /\ WireTypes
  BY TypesAre DEF Polling
<1>2. /\ NextConn(p) \in Instance /\ Unused(NextConn(p)) /\ Poll(NextConn(p))
      /\ links' = links \cup {NextConn(p)}
      /\ UNCHANGED <<records, toOrch>>
  BY ConnectOpens DEF Polling
<1>3. At(toAgent[NextConn(p)], "poll") = {} /\ At(toOrch[NextConn(p)], "state") = {}
  BY <1>2, AtNone DEF Unused
<1>4. NextConn(p)[2] = connects'[NextConn(p)[1]]
  BY ConnectOpens DEF NextConn, Polling, Inv, Wires, AgentsOK
<1> QED
  BY <1>1, <1>2, <1>3, <1>4, PollMoves

LEMMA ReplyMoves ==
    ASSUME WireTypes, NEW j \in Instance, NEW m, Reply(j, m), toAgent[j] # <<>>,
           toAgent' = [toAgent EXCEPT ![j] = Tail(@)], NEW i \in Instance
    PROVE  IF i = j THEN /\ toAgent'[i] = Tail(toAgent[i])
                         /\ toOrch'[i] = IF i \in links THEN Append(toOrch[i], m) ELSE toOrch[i]
                    ELSE Calm(i)
  BY DEF Reply, WireTypes, Calm

LEMMA AgentMoves ==
    ASSUME Inv, BookTypes, WireTypes, NEW p \in Process, AgentFrame(p), NEW i \in Instance
    PROVE  IF i = Conn(p) THEN Reported(i, p) \/ Acted(i, p) ELSE Calm(i) /\ SamePoll(i)
<1> DEFINE j == Conn(p)
<1>1. CASE AgentPoll(p)
  <2> DEFINE m == StateFrom(p, Head(toAgent[j]))
  <2>1. /\ j \in Instance /\ toAgent[j] # <<>> /\ Head(toAgent[j]).type = "poll"
        /\ Reply(j, m) /\ toAgent' = [toAgent EXCEPT ![j] = Tail(@)]
        /\ UNCHANGED <<links, outstanding, records>>
    BY <1>1, AgentPolled DEF pollVars, readVars
  <2>2. SamePoll(i)
    BY <2>1 DEF SamePoll, LinkKept
  <2>3. IF i = j THEN /\ toAgent'[i] = Tail(toAgent[i])
                      /\ toOrch'[i] = IF i \in links THEN Append(toOrch[i], m) ELSE toOrch[i]
                 ELSE Calm(i)
    <3> HIDE DEF m, j
    <3> QED
      BY <2>1, ReplyMoves
  <2> QED
    BY <2>1, <2>2, <2>3 DEF Reported
<1>2. CASE AgentCmd(p)
  <2> DEFINE m == AckFrom(Head(toAgent[j]).cmd)
  <2>1. /\ j \in Instance /\ toAgent[j] # <<>> /\ Head(toAgent[j]).type = "cmd"
        /\ Reply(j, m) /\ toAgent' = [toAgent EXCEPT ![j] = Tail(@)]
        /\ UNCHANGED <<links, outstanding, records>>
    BY <1>2, AgentActed DEF pollVars, readVars
  <2>2. SamePoll(i)
    BY <2>1 DEF SamePoll, LinkKept
  <2>3. IF i = j THEN /\ toAgent'[i] = Tail(toAgent[i])
                      /\ toOrch'[i] = IF i \in links THEN Append(toOrch[i], m) ELSE toOrch[i]
                 ELSE Calm(i)
    <3> HIDE DEF m, j
    <3> QED
      BY <2>1, ReplyMoves
  <2> QED
    BY <2>1, <2>2, <2>3 DEF Acted
<1> QED
  BY <1>1, <1>2 DEF AgentFrame

LEMMA WireStep ==
    ASSUME Inv, Polling, [Next]_vars, NEW i \in Instance
    PROVE  WireMove(i)
<1>1. BookTypes /\ WireTypes
  BY TypesAre DEF Polling
<1> USE DEF WireMove
<1>2. CASE \E r \in RoomId : CreateRoom(r)
  BY <1>1, <1>2, CreateRoomMoves
<1>3. CASE \E j \in Instance, op \in Ops, r \in RoomId \cup {NoRoom} : SendCommand(j, op, r)
  BY <1>1, <1>3, SendCommandMoves
<1>4. CASE \/ \E c \in pending : CommandTimeout(c)
           \/ ResumeStatus
           \/ \E p \in Process, r \in RoomId : LocalCreate(p, r) \/ LocalDestroy(p, r)
           \/ \E p \in Process, s \in Status : LocalStatus(p, s)
           \/ UNCHANGED vars
  <2>1. UNCHANGED <<links, toAgent, toOrch, outstanding, records>>
    BY <1>4 DEF CommandTimeout, ResumeStatus, LocalCreate, LocalDestroy, LocalStatus, vars,
                pollVars, readVars, netVars
  <2> QED
    BY <2>1 DEF Calm, SamePoll, LinkKept
<1>5. CASE \E j \in Instance : HandleState(j)
  BY <1>5, HandleStateMoves
<1>6. CASE \E j \in Instance : HandleAck(j)
  BY <1>1, <1>6, HandleAckMoves
<1>7. CASE \E j \in Instance : Tick(j)
  BY <1>7, TickMoves
<1>8. CASE \E j \in Instance : OrchestratorLoses(j)
  BY <1>1, <1>8, TeardownMoves DEF OrchestratorLoses
<1>9. CASE \E p \in Process : Connect(p)
  BY <1>9, ConnectMoves
<1>10. ASSUME NEW p \in Process, AgentLoses(p)
       PROVE  WireMove(i)
  <2>1. /\ Conn(p) \in Instance /\ toAgent' = [toAgent EXCEPT ![Conn(p)] = <<>>]
        /\ UNCHANGED <<links, outstanding, records, toOrch>>
    BY <1>10, ConnType DEF AgentLoses, Inv, Wires, pollVars, readVars
  <2>2. SamePoll(i)
    BY <2>1 DEF SamePoll, LinkKept
  <2> QED
    BY <1>1, <2>1, <2>2 DEF Unplugged, Calm, WireTypes
<1>11. CASE \E p \in Process : AgentFrame(p)
  BY <1>1, <1>11, AgentMoves
<1> QED
  BY <1>2, <1>3, <1>4, <1>5, <1>6, <1>7, <1>8, <1>9, <1>10, <1>11 DEF Next, Frame

-----------------------------------------------------------------------------
(* One poll or reply per connection.                                       *)

LEMMA CommandedPolls ==
    ASSUME WireTypes, NEW i \in Instance, OnePollAt(i), NEW c, Commanded(i, c)
    PROVE  OnePollAt(i)'
<1>1. toAgent[i] \in Seq(AgentFrames) /\ CmdFrame(c).type = "cmd"
  BY DEF WireTypes, CmdFrame
<1>2. /\ At(toAgent'[i], "poll") = At(toAgent[i], "poll")
      /\ \A n \in At(toAgent[i], "poll") : toAgent'[i][n] = toAgent[i][n]
  <2> DEFINE m == CmdFrame(c)
  <2>1. toAgent'[i] = Append(toAgent[i], m) /\ m.type # "poll"
    BY <1>1 DEF Commanded
  <2> HIDE DEF m
  <2>2. At(Append(toAgent[i], m), "poll") = At(toAgent[i], "poll")
    BY <1>1, <2>1, OtherAppended
  <2>3. \A n \in At(toAgent[i], "poll") : Append(toAgent[i], m)[n] = toAgent[i][n]
    <3>1. toAgent[i] \in Seq(AgentFrames)
      BY <1>1
    <3> QED
      BY ONLY <3>1, AllStay
  <2> QED
    BY <2>1, <2>2, <2>3
<1>3. toOrch'[i] = toOrch[i] /\ outstanding'[i] = outstanding[i] /\ records'[i] = records[i] /\ (i \in links' <=> i \in links)
  BY DEF Commanded, SamePoll, LinkKept
<1>4. PollFor(i, outstanding[i])' = PollFor(i, outstanding[i])
  BY <1>3 DEF PollFor, LastHashOf, Known
<1> QED
  BY <1>2, <1>3, <1>4 DEF OnePollAt

LEMMA PolledPolls ==
    ASSUME BookTypes, WireTypes, NEW i \in Instance, OnePollAt(i), Polled(i)
    PROVE  OnePollAt(i)'
<1> DEFINE m == PollFor(i, outstanding'[i])
<1>1. m.type = "poll" /\ m = PollFor(i, outstanding[i])'
  BY DEF Polled, PollFor, LastHashOf, Known
<1>2. toAgent[i] \in Seq(AgentFrames) /\ toAgent'[i] = Append(toAgent[i], m)
  BY DEF WireTypes, Polled
<1>3. At(toAgent[i], "poll") = {} /\ At(toOrch'[i], "state") = {} /\ outstanding'[i] # 0
  BY DEF Polled, ReqId
<1> HIDE DEF m
<1>4. ASSUME NEW n \in At(toAgent'[i], "poll")
      PROVE  n = Len(toAgent[i]) + 1 /\ toAgent'[i][n] = m
  BY <1>2, <1>3, InAppend
<1> QED
  BY <1>1, <1>3, <1>4 DEF OnePollAt

LEMMA ReportedPolls ==
    ASSUME BookTypes, WireTypes, NEW i \in Instance, OnePollAt(i), NEW p \in Process, Reported(i, p)
    PROVE  OnePollAt(i)'
<1> DEFINE m == StateFrom(p, Head(toAgent[i]))
<1>1. /\ toAgent[i] \in Seq(AgentFrames) /\ toOrch[i] \in Seq(OrchFrames)
      /\ toAgent[i] # <<>> /\ Head(toAgent[i]).type = "poll" /\ toAgent'[i] = Tail(toAgent[i])
  BY DEF WireTypes, Reported
<1>2. 1 \in At(toAgent[i], "poll") /\ toAgent[i][1] = Head(toAgent[i])
  BY <1>1, FirstOfQueue
<1>3. At(toAgent'[i], "poll") = {}
  <2>1. ASSUME NEW n \in At(toAgent'[i], "poll")
        PROVE  n + 1 \in At(toAgent[i], "poll") /\ n + 1 # 1
    BY <1>1, InTail
  <2> QED
    BY <1>2, <2>1 DEF OnePollAt
<1>4. outstanding'[i] = outstanding[i] /\ records'[i] = records[i] /\ (i \in links' <=> i \in links)
  BY DEF Reported, SamePoll, LinkKept
<1>5. CASE i \in links
  <2>1. At(toOrch[i], "state") = {} /\ Head(toAgent[i]) = PollFor(i, outstanding[i]) /\ outstanding[i] # 0
    BY <1>2, <1>5 DEF OnePollAt
  <2>2. Head(toAgent[i]).req = outstanding[i] /\ Head(toAgent[i]).known = records[i]
    BY <2>1 DEF PollFor, LastHashOf
  <2>5. m.req = outstanding[i] /\ (m.full \/ m.snap = records[i]) /\ m.type = "state"
    BY <2>2 DEF StateFrom
  <2>3. toOrch'[i] = Append(toOrch[i], m)
    BY <1>5 DEF Reported
  <2> HIDE DEF m
  <2>4. ASSUME NEW n \in At(toOrch'[i], "state")
        PROVE  n = Len(toOrch[i]) + 1 /\ toOrch'[i][n] = m
    BY <1>1, <2>1, <2>3, InAppend
  <2> QED
    BY <1>3, <1>4, <2>1, <2>4, <2>5 DEF OnePollAt
<1>6. CASE i \notin links
  <2>1. toOrch'[i] = toOrch[i]
    BY <1>6 DEF Reported
  <2> QED
    BY <1>3, <1>4, <1>6, <2>1 DEF OnePollAt
<1> QED
  BY <1>5, <1>6

LEMMA ActedPolls ==
    ASSUME BookTypes, WireTypes, NEW i \in Instance, OnePollAt(i), NEW p \in Process, Acted(i, p)
    PROVE  OnePollAt(i)'
<1> DEFINE m == AckFrom(Head(toAgent[i]).cmd)
<1>1. /\ toAgent[i] \in Seq(AgentFrames) /\ toOrch[i] \in Seq(OrchFrames)
      /\ toAgent[i] # <<>> /\ toAgent'[i] = Tail(toAgent[i])
  BY DEF WireTypes, Acted
<1>2. ASSUME NEW n \in At(toAgent'[i], "poll")
      PROVE  n + 1 \in At(toAgent[i], "poll") /\ toAgent'[i][n] = toAgent[i][n + 1]
  BY <1>1, InTail
<1>3. /\ At(toOrch'[i], "state") = At(toOrch[i], "state")
      /\ \A n \in At(toOrch[i], "state") : toOrch'[i][n] = toOrch[i][n]
  <2>1. m.type # "state"
    BY DEF AckFrom
  <2>2. toOrch'[i] = Append(toOrch[i], m) \/ toOrch'[i] = toOrch[i]
    BY DEF Acted
  <2> HIDE DEF m
  <2>3. At(Append(toOrch[i], m), "state") = At(toOrch[i], "state")
    BY <1>1, <2>1, OtherAppended
  <2>4. \A n \in At(toOrch[i], "state") : Append(toOrch[i], m)[n] = toOrch[i][n]
    <3>1. toOrch[i] \in Seq(OrchFrames)
      BY <1>1
    <3> QED
      BY ONLY <3>1, AllStay
  <2> QED
    BY <2>2, <2>3, <2>4
<1>4. outstanding'[i] = outstanding[i] /\ records'[i] = records[i] /\ (i \in links' <=> i \in links)
  BY DEF Acted, SamePoll, LinkKept
<1>5. PollFor(i, outstanding[i])' = PollFor(i, outstanding[i])
  BY <1>4 DEF PollFor, LastHashOf, Known
<1>6. \A n, k \in At(toAgent'[i], "poll") : n = k
  <2>1. \A n \in At(toAgent'[i], "poll") : n \in Nat
    BY DEF At
  <2>2. \A n, k \in At(toAgent'[i], "poll") : n + 1 = k + 1
    BY <1>2 DEF OnePollAt
  <2> QED
    BY <2>1, <2>2
<1> QED
  BY <1>2, <1>3, <1>4, <1>5, <1>6 DEF OnePollAt

LEMMA TailPolls ==
    ASSUME WireTypes, NEW i \in Instance, OnePollAt(i), toOrch[i] # <<>>,
           toAgent'[i] = toAgent[i], toOrch'[i] = Tail(toOrch[i])
    PROVE  /\ \A n \in At(toOrch'[i], "state") : n + 1 \in At(toOrch[i], "state") /\ toOrch'[i][n] = toOrch[i][n + 1]
           /\ \A n, k \in At(toOrch'[i], "state") : n = k
           /\ Head(toOrch[i]).type = "state" => At(toOrch'[i], "state") = {} /\ 1 \in At(toOrch[i], "state")
<1>1. toOrch[i] \in Seq(OrchFrames)
  BY DEF WireTypes
<1>2. ASSUME NEW n \in At(toOrch'[i], "state")
      PROVE  n + 1 \in At(toOrch[i], "state") /\ toOrch'[i][n] = toOrch[i][n + 1]
  BY <1>1, InTail
<1>3. \A n \in At(toOrch'[i], "state") : n \in Nat /\ n # 0
  BY DEF At
<1>4. \A n, k \in At(toOrch'[i], "state") : n = k
  <2>1. \A n, k \in At(toOrch'[i], "state") : n + 1 = k + 1
    BY <1>2 DEF OnePollAt
  <2> QED
    BY <1>3, <2>1
<1>5. ASSUME Head(toOrch[i]).type = "state"
      PROVE  At(toOrch'[i], "state") = {} /\ 1 \in At(toOrch[i], "state")
  <2>1. 1 \in At(toOrch[i], "state")
    BY <1>1, <1>5, FirstOfQueue
  <2>2. \A n \in At(toOrch'[i], "state") : n + 1 = 1
    BY <1>2, <2>1 DEF OnePollAt
  <2> QED
    BY <1>3, <2>1, <2>2
<1> QED
  BY <1>2, <1>4, <1>5

LEMMA OnePollMove ==
    ASSUME Inv, BookTypes, WireTypes, NEW i \in Instance, OnePollAt(i), WireMove(i)
    PROVE  OnePollAt(i)'
<1>1. ASSUME SamePoll(i), toAgent'[i] = toAgent[i] \/ toAgent'[i] = <<>>, toOrch'[i] = toOrch[i]
      PROVE  OnePollAt(i)'
  <2>1. outstanding'[i] = outstanding[i] /\ records'[i] = records[i] /\ (i \in links' <=> i \in links)
    BY <1>1 DEF SamePoll, LinkKept
  <2>2. PollFor(i, outstanding[i])' = PollFor(i, outstanding[i])
    BY <2>1 DEF PollFor, LastHashOf, Known
  <2> QED
    BY <1>1, <2>1, <2>2, AtNone DEF OnePollAt
<1>2. CASE Learnt(i)
  <2>1. At(toOrch'[i], "state") = {} /\ 1 \in At(toOrch[i], "state") /\ i \in links
    BY <1>2, TailPolls DEF Learnt
  <2>2. At(toAgent'[i], "poll") = {} /\ outstanding'[i] = 0
    BY <1>2, <2>1 DEF Learnt, OnePollAt
  <2> QED
    BY <2>1, <2>2 DEF OnePollAt
<1>3. CASE Heard(i)
  <2>1. outstanding'[i] = outstanding[i] /\ records'[i] = records[i] /\ (i \in links' <=> i \in links) /\ toAgent'[i] = toAgent[i]
    BY <1>3 DEF Heard, SamePoll, LinkKept
  <2>2. PollFor(i, outstanding[i])' = PollFor(i, outstanding[i])
    BY <2>1 DEF PollFor, LastHashOf, Known
  <2>3. /\ \A n \in At(toOrch'[i], "state") : n + 1 \in At(toOrch[i], "state") /\ toOrch'[i][n] = toOrch[i][n + 1]
        /\ \A n, k \in At(toOrch'[i], "state") : n = k
    BY <1>3, TailPolls DEF Heard
  <2> QED
    BY <2>1, <2>2, <2>3 DEF OnePollAt
<1>4. CASE Dropped(i)
  BY <1>4, AtNone DEF Dropped, OnePollAt
<1> QED
  BY <1>1, <1>2, <1>3, <1>4, CommandedPolls, PolledPolls, ReportedPolls, ActedPolls
     DEF WireMove, Calm, Unplugged

LEMMA FreshStep ==
    ASSUME Inv, Polling, [Next]_vars
    PROVE  Fresh'
<1> DEFINE Counted == \A p \in Process : /\ connects[p] <= connects'[p] /\ connects'[p] \in Nat /\ connects[p] \in Nat
                                         /\ current'[p] <= connects'[p]
<1>1. Counted
  <2>1. connects \in [Process -> 0..MaxConnects] /\ current \in [Process -> 0..MaxConnects] /\ MaxConnects \in Nat
    BY FleetAssumption DEF Inv, Wires, AgentsOK
  <2>2. \A p \in Process : current[p] <= connects[p]
    BY DEF Polling, Fresh
  <2>3. CASE UNCHANGED <<current, connects>>
    BY <2>1, <2>2, <2>3
  <2>4. ASSUME NEW p \in Process, Connect(p)
        PROVE  Counted
    BY <2>1, <2>2, <2>4 DEF Connect
  <2>5. ASSUME NEW p \in Process, AgentLoses(p)
        PROVE  Counted
    BY <2>1, <2>2, <2>5 DEF AgentLoses
  <2>6. UNCHANGED <<current, connects>> \/ \E p \in Process : Connect(p) \/ AgentLoses(p)
    BY DEF Next, CreateRoom, SendCommand, CommandTimeout, Frame, HandleState, HandleAck, Tick, TickPolls, TickMisses,
           OrchestratorLoses, ResumeStatus, AgentFrame, AgentPoll, AgentCmd, LocalCreate, LocalDestroy, LocalStatus,
           netVars, vars
  <2> QED
    BY <2>3, <2>4, <2>5, <2>6
<1>2. ASSUME NEW i \in Instance, connects'[i[1]] < i[2]
      PROVE  Unused(i)'
  <2>1. i[1] \in Process /\ i[2] \in Nat
    BY DEF Instance
  <2>2. Unused(i) /\ connects'[i[1]] # i[2]
    BY <1>1, <1>2, <2>1 DEF Polling, Fresh
  <2>3. WireMove(i) /\ ~Known(i)
    BY <2>2, WireStep DEF Unused, Inv, Books, GoneBooks
  <2>4. \A p : ~Reported(i, p) /\ ~Acted(i, p)
    BY <2>2 DEF Unused, Reported, Acted
  <2> QED
    BY <2>2, <2>3, <2>4 DEF WireMove, Unused, Calm, SamePoll, LinkKept, Commanded, Polled, Learnt, Heard, Dropped, Unplugged
<1> QED
  BY <1>1, <1>2 DEF Fresh

LEMMA PollingInit == Init => Polling
<1> SUFFICES ASSUME Init PROVE Polling
  OBVIOUS
<1>1. \A i \in Instance : toAgent[i] = <<>> /\ toOrch[i] = <<>> /\ i \notin links
  BY DEF Init
<1>2. OnePoll /\ Fresh
  BY <1>1, AtNone DEF Init, OnePoll, OnePollAt, Fresh, Unused
<1>3. BookTypes
  BY FleetAssumption DEF Init, BookTypes
<1>4. WireTypes
  <2> DEFINE G == Seq(AgentFrames)
             H == Seq(OrchFrames)
  <2>1. <<>> \in G /\ <<>> \in H /\ resuming \in Seq(Instance \X Status) /\ waiting \in [Process -> SUBSET Status]
    BY DEF Init
  <2> HIDE DEF G, H
  <2>2. toAgent \in [Instance -> G] /\ toOrch \in [Instance -> H]
    BY <2>1 DEF Init
  <2> QED
    BY <2>1, <2>2 DEF WireTypes, G, H
<1> QED
  BY <1>2, <1>3, <1>4, InitInv, TypesAre DEF Polling

LEMMA PollingStep == Inv /\ Polling /\ [Next]_vars => Inv' /\ Polling'
<1> SUFFICES ASSUME Inv, Polling, [Next]_vars PROVE Inv' /\ Polling'
  OBVIOUS
<1>1. OnePoll'
  <2>1. BookTypes /\ WireTypes
    BY TypesAre DEF Polling
  <2> QED
    BY <2>1, WireStep, OnePollMove DEF Polling, OnePoll
<1> QED
  BY <1>1, InvStep, TypeStep, FreshStep DEF Polling

\* Every variable of the control plane keeps its type, and a fresh reqId is always at hand:
\* three of them are enough, as the code counts them up.
THEOREM FleetTypeCorrect == Spec => []TypeOK
<1>1. Inv /\ Polling => TypeOK
  BY DEF Polling
<1> QED
  BY <1>1, InitInv, PollingInit, PollingStep, PTL DEF Spec

\* A step that ends a wait of drain() or undrain().
LEMMA WaitEnds ==
    ASSUME Inv, Polling, [Next]_vars, NEW p \in Process, NEW s \in waiting[p] \ waiting'[p],
           current'[p] = current[p], Conn(p) \in links
    PROVE  /\ Known(Conn(p)) => s = records[Conn(p)].status
           /\ ~Known(Conn(p)) => s = "active"
<1>1. BookTypes /\ WireTypes
  BY TypesAre DEF Polling
<1>2. AgentPoll(p)
  <2>1. \/ UNCHANGED waiting
        \/ \E q \in Process : AgentLoses(q) \/ AgentPoll(q) \/ \E t \in Status : LocalStatus(q, t)
    BY DEF Next, CreateRoom, SendCommand, CommandTimeout, Frame, HandleState, HandleAck, Tick, TickPolls, TickMisses,
           OrchestratorLoses, ResumeStatus, Connect, AgentFrame, AgentCmd, LocalCreate, LocalDestroy, agentVars, vars
  <2>2. ASSUME NEW q \in Process, AgentLoses(q)
        PROVE  waiting'[p] = waiting[p]
    <3>1. q # p
      BY <2>2 DEF AgentLoses, Inv, Wires, AgentsOK
    <3> QED
      BY <1>1, <2>2, <3>1 DEF AgentLoses, WireTypes
  <2>3. ASSUME NEW q \in Process, NEW t \in Status, LocalStatus(q, t)
        PROVE  waiting[p] \subseteq waiting'[p]
    BY <1>1, <2>3 DEF LocalStatus, WireTypes
  <2>4. ASSUME NEW q \in Process, AgentPoll(q)
        PROVE  q = p
    BY <1>1, <2>4 DEF AgentPoll, WireTypes
  <2> QED
    BY <2>1, <2>2, <2>3, <2>4
<1> DEFINE i == Conn(p)
           m == Head(toAgent[i])
<1>3. /\ i \in Instance /\ toAgent[i] # <<>> /\ m.type = "poll"
      /\ waiting' = [waiting EXCEPT ![p] = @ \ {m.echo}]
  BY <1>1, <1>2, AgentPolled
<1>4. s = m.echo
  BY <1>1, <1>3 DEF WireTypes
<1>5. 1 \in At(toAgent[i], "poll") /\ toAgent[i][1] = m
  <2>1. toAgent[i] \in Seq(AgentFrames)
    BY <1>1, <1>3 DEF WireTypes
  <2> QED
    BY <1>3, <2>1, FirstOfQueue
<1>6. m = PollFor(i, outstanding[i])
  BY <1>3, <1>5 DEF Polling, OnePoll, OnePollAt
<1> QED
  BY <1>4, <1>6 DEF PollFor

\* drain() of an agent resolves only once the orchestrator has recorded the drained status,
\* however commands, local calls, misses and disconnections interleave: the poll that confirms it
\* repeats the last snapshot, and none can be applied while the poll is unanswered
\* (Orchestrator.sendPoll, FleetAgent.onPoll).
THEOREM DrainAlwaysConfirmed == Spec => DrainConfirmed
<1>1. Inv /\ Polling /\ [Next]_vars =>
        [\A p \in Process :
            /\ "draining" \in waiting[p] \ waiting'[p]
            /\ Conn(p) \in links
            /\ current'[p] = current[p]
            => Known(Conn(p)) /\ records[Conn(p)].status = "draining"]_vars
  BY WaitEnds
<1> QED
  BY <1>1, InitInv, PollingInit, PollingStep, PTL DEF Spec, DrainConfirmed

-----------------------------------------------------------------------------
(* What a step does to commands, books and rooms.                          *)

\* The frames and books that a kind of step leaves alone.
ledger == <<links, records, held, pending, cmdSeq, orphaned>>
agents == <<current, rooms, origins>>

Issues(c) ==
    /\ c \in Cmd /\ c.id = cmdSeq + 1 /\ cmdSeq' = cmdSeq + 1 /\ Known(c.inst)
    /\ c.op = "create" => c.room \in FreeRoomIds /\ (c.inst \in Candidates \/ Pins)
    /\ pending' = pending \cup {c}
    /\ toAgent' = [toAgent EXCEPT ![c.inst] = Append(@, CmdFrame(c))]
    /\ UNCHANGED <<links, records, held, orphaned, toOrch, agents>>
TimesOut(c) ==
    /\ c \in pending /\ pending' = pending \ {c}
    /\ HoldOrRelease(c)
    /\ orphaned' = orphaned \cup IdsOf({c})
    /\ UNCHANGED <<links, records, cmdSeq, toAgent, toOrch, agents>>
Settles(c) ==
    LET m == Head(toOrch[c.inst]) IN
    /\ toOrch[c.inst] # <<>> /\ m.type = "ack" /\ m.id = c.id /\ m.ok \in BOOLEAN
    /\ c \in pending /\ pending' = pending \ {c}
    /\ IF m.ok THEN HoldOrRelease(c) ELSE UNCHANGED held
    /\ toOrch' = [toOrch EXCEPT ![c.inst] = Tail(@)]
    /\ UNCHANGED <<links, records, cmdSeq, orphaned, toAgent, agents>>
Applies(i) ==
    LET m == Head(toOrch[i]) IN
    /\ toOrch[i] # <<>> /\ m.type = "state" /\ m.snap \in Snapshot
    /\ records' = [records EXCEPT ![i] = m.snap]
    /\ ClearHolds(i)
    /\ toOrch' = [toOrch EXCEPT ![i] = Tail(@)]
    /\ UNCHANGED <<links, pending, cmdSeq, orphaned, toAgent, agents>>
Removes(i) == Teardown(i) /\ UNCHANGED <<toAgent, agents>>
Polls(i) ==
    /\ links \subseteq links' /\ links' \subseteq links \cup {i}
    /\ \E m : m.type = "poll" /\ toAgent' = [toAgent EXCEPT ![i] = Append(@, m)]
    /\ \/ UNCHANGED current
       \/ \E p \in Process : NextConn(p) = i /\ Unused(i) /\ current' = [current EXCEPT ![p] = connects[p] + 1]
    /\ UNCHANGED <<records, held, pending, cmdSeq, orphaned, toOrch, rooms, origins>>
Unplugs(p) ==
    /\ current[p] # 0 /\ current' = [current EXCEPT ![p] = 0]
    /\ toAgent' = [toAgent EXCEPT ![Conn(p)] = <<>>]
    /\ UNCHANGED <<ledger, toOrch, rooms, origins>>
Reports(p) ==
    LET i == Conn(p) IN
    /\ toAgent[i] # <<>> /\ Head(toAgent[i]).type = "poll" /\ current[p] # 0
    /\ toAgent' = [toAgent EXCEPT ![i] = Tail(@)]
    /\ Reply(i, StateFrom(p, Head(toAgent[i])))
    /\ UNCHANGED <<ledger, agents>>
Executes(p, c) ==
    LET i == Conn(p) IN
    /\ toAgent[i] # <<>> /\ Head(toAgent[i]).type = "cmd" /\ c = Head(toAgent[i]).cmd /\ c \in Cmd
    /\ current[p] # 0
    /\ toAgent' = [toAgent EXCEPT ![i] = Tail(@)]
    /\ Reply(i, AckFrom(c))
    /\ \/ c.op = "create" /\ ExecCreate(p, c.room)
       \/ c.op = "destroy" /\ ExecDestroy(p, c.room)
       \/ c.op \in DOMAIN StatusOf /\ UNCHANGED <<rooms, origins>>
    /\ UNCHANGED <<ledger, current>>
\* Everything else; at most a room of an application comes or a room goes.
Aside ==
    /\ cmdSeq' \in {cmdSeq, cmdSeq + 1}
    /\ \/ UNCHANGED <<rooms, origins>>
       \/ \E p \in Process, r \in RoomId :
             \/ rooms' = [rooms EXCEPT ![p] = @ \cup {r}] /\ UNCHANGED origins
             \/ ExecDestroy(p, r)
    /\ UNCHANGED <<links, records, held, pending, orphaned, toAgent, toOrch, current>>

Move ==
    \/ \E c : Issues(c)
    \/ \E c : TimesOut(c) \/ Settles(c)
    \/ \E i \in Instance : Applies(i) \/ Removes(i) \/ Polls(i)
    \/ \E p \in Process : Unplugs(p) \/ Reports(p) \/ \E c : Executes(p, c)
    \/ Aside

LEMMA PollFrame ==
    ASSUME NEW i, Poll(i)
    PROVE  \E m : m.type = "poll" /\ toAgent' = [toAgent EXCEPT ![i] = Append(@, m)]
<1> DEFINE m == PollFor(i, NextReq(i))
<1>1. m.type = "poll" /\ toAgent' = [toAgent EXCEPT ![i] = Append(@, m)]
  BY DEF Poll, PollFor
<1> HIDE DEF m
<1> QED
  BY <1>1

LEMMA MoveStep ==
    ASSUME Inv, Polling, [Next]_vars
    PROVE  Move
<1>1. BookTypes /\ WireTypes
  BY TypesAre DEF Polling
<1>2. ASSUME NEW r \in RoomId, CreateRoom(r)
      PROVE  Aside \/ \E c : Issues(c)
  <2>1. PICK i \in Candidates \cup Pinnable :
          LET c == [id |-> cmdSeq + 1, inst |-> i, op |-> "create", room |-> r]
          IN  \/ Sent(c) /\ Reserve(c)
              \/ NotSent /\ UNCHANGED <<reserved, reservedIds>>
    BY <1>2 DEF CreateRoom
  <2> DEFINE c == [id |-> cmdSeq + 1, inst |-> i, op |-> "create", room |-> r]
  <2>2. /\ cmdSeq' = cmdSeq + 1 /\ r \in FreeRoomIds
        /\ UNCHANGED <<links, records, held, orphaned, toOrch, agents>>
    BY <1>2 DEF CreateRoom, agents, readVars, agentVars
  <2>3. CASE Sent(c)
    <3>1. i \in Instance /\ Known(i) /\ (i \in Candidates \/ Pins)
      BY DEF Candidates, Pinnable
    <3>2. cmdSeq + 1 \in 1..MaxCmds /\ "create" \in Ops
      BY <1>1, <1>2, FleetAssumption DEF CreateRoom, BookTypes
    <3>3. c \in Cmd /\ c.inst = i /\ c.room = r /\ c.id = cmdSeq + 1
      BY <3>1, <3>2 DEF Cmd
    <3> HIDE DEF c
    <3>4. Issues(c)
      BY <2>2, <2>3, <3>1, <3>3 DEF Issues, Sent, CmdFrame
    <3> QED
      BY <3>4
  <2>4. CASE NotSent
    BY <1>2, <2>2, <2>4 DEF Aside, NotSent, agents
  <2> QED
    BY <2>1, <2>3, <2>4
<1>3. ASSUME NEW i \in Instance, NEW op \in Ops, NEW r \in RoomId \cup {NoRoom}, SendCommand(i, op, r)
      PROVE  \E c : Issues(c)
  <2> DEFINE c == [id |-> cmdSeq + 1, inst |-> i, op |-> op, room |-> r]
  <2>1. cmdSeq + 1 \in 1..MaxCmds /\ Known(i) /\ Sent(c) /\ op # "create"
    BY <1>1, <1>3, FleetAssumption DEF SendCommand, BookTypes
  <2>2. c \in Cmd /\ c.inst = i /\ c.id = cmdSeq + 1 /\ c.op # "create"
    BY <2>1 DEF Cmd
  <2>3. cmdSeq' = cmdSeq + 1 /\ UNCHANGED <<links, records, held, orphaned, toOrch, agents>>
    BY <1>3 DEF SendCommand, agents, readVars, resVars, agentVars
  <2> HIDE DEF c
  <2>4. Issues(c)
    BY <2>1, <2>2, <2>3 DEF Issues, Sent, CmdFrame
  <2> QED
    BY <2>4
<1>4. ASSUME NEW c \in pending, CommandTimeout(c)
      PROVE  TimesOut(c)
  BY <1>4 DEF CommandTimeout, TimesOut, Settle, readVars, netVars, agentVars, agents
<1>5. ASSUME NEW i \in Instance, HandleState(i)
      PROVE  Applies(i)
  BY <1>5, ReplyMatches, OrchFrameTypes DEF HandleState, Applies, agents, agentVars, cmdVars
<1>6. ASSUME NEW i \in Instance, HandleAck(i)
      PROVE  Removes(i) \/ \E c : Settles(c)
  <2> DEFINE m == Head(toOrch[i])
             C == {c \in PendingOf(i) : c.id = m.id}
  <2>1. toOrch[i] # <<>> /\ m.type = "ack" /\ UNCHANGED <<toAgent, agents>>
    BY <1>6 DEF HandleAck, agents, agentVars
  <2>2. m.ok \in BOOLEAN
    BY <1>1, <2>1, Dequeued, OrchFrameTypes DEF WireTypes
  <2>3. CASE C = {}
    BY <1>6, <2>1, <2>3 DEF HandleAck, Kick, Removes
  <2>4. CASE C # {}
    <3>1. PICK c \in C : /\ Acked(c, m.ok)
                        /\ toOrch' = [toOrch EXCEPT ![i] = Tail(@)]
                        /\ UNCHANGED <<links, records, cmdSeq, orphaned>>
      BY <1>6, <2>4 DEF HandleAck, readVars
    <3>2. c \in pending /\ c.inst = i /\ c.id = m.id
      BY DEF PendingOf
    <3>3. Settles(c)
      BY <2>1, <2>2, <3>1, <3>2 DEF Settles, Acked, Settle
    <3> QED
      BY <3>3
  <2> QED
    BY <2>3, <2>4
<1>7. ASSUME NEW i \in Instance, Tick(i)
      PROVE  Polls(i) \/ Removes(i) \/ Aside
  <2>1. CASE TickPolls(i)
    <3>1. \E m : m.type = "poll" /\ toAgent' = [toAgent EXCEPT ![i] = Append(@, m)]
      BY <2>1, PollFrame DEF TickPolls
    <3> QED
      BY <2>1, <3>1 DEF TickPolls, Polls, readVars, resVars, cmdVars, agentVars
  <2>2. CASE TickMisses(i) /\ missed[i] = 2
    BY <2>2 DEF TickMisses, Removes, agents, agentVars
  <2>3. CASE TickMisses(i) /\ missed[i] # 2
    BY <2>3 DEF TickMisses, Aside, resVars, cmdVars, agentVars
  <2> QED
    BY <1>7, <2>1, <2>2, <2>3 DEF Tick
<1>8. ASSUME NEW i \in Instance, OrchestratorLoses(i)
      PROVE  Removes(i)
  BY <1>8 DEF OrchestratorLoses, Removes, agents, agentVars
<1>9. ASSUME NEW p \in Process, Connect(p)
      PROVE  NextConn(p) \in Instance /\ Polls(NextConn(p))
  <2>1. \E m : m.type = "poll" /\ toAgent' = [toAgent EXCEPT ![NextConn(p)] = Append(@, m)]
    BY <1>9, ConnectOpens, PollFrame DEF Polling
  <2> QED
    BY <1>9, <2>1, ConnectOpens DEF Polling, Polls, resVars, cmdVars, agentVars
<1>10. ASSUME NEW p \in Process, AgentLoses(p)
       PROVE  Unplugs(p)
  BY <1>10 DEF AgentLoses, Unplugs, ledger, readVars, resVars, cmdVars
<1>11. ASSUME NEW p \in Process, AgentPoll(p)
       PROVE  Reports(p)
  BY <1>1, <1>11, AgentPolled DEF Reports, ledger, agents, readVars, resVars, cmdVars
<1>12. ASSUME NEW p \in Process, AgentCmd(p)
       PROVE  \E c : Executes(p, c)
  <2> DEFINE c == Head(toAgent[Conn(p)]).cmd
  <2>1. /\ \/ c.op = "create" /\ ExecCreate(p, c.room)
           \/ c.op = "destroy" /\ ExecDestroy(p, c.room)
           \/ c.op \in DOMAIN StatusOf /\ UNCHANGED <<rooms, origins>>
        /\ UNCHANGED <<ledger, current>>
    BY <1>12 DEF AgentCmd, ledger, readVars, resVars, cmdVars
  <2>2. Executes(p, c)
    BY <1>1, <1>12, <2>1, AgentActed DEF Executes
  <2> QED
    BY <2>2
<1>13. CASE \/ ResumeStatus \/ UNCHANGED vars
            \/ \E p \in Process, r \in RoomId : LocalCreate(p, r) \/ LocalDestroy(p, r)
            \/ \E p \in Process, s \in Status : LocalStatus(p, s)
  <2>1. UNCHANGED <<links, records, held, pending, cmdSeq, orphaned, toAgent, toOrch, current>>
    BY <1>13 DEF ResumeStatus, LocalCreate, LocalDestroy, LocalStatus, vars, readVars, resVars, cmdVars, netVars
  <2>2. \/ UNCHANGED <<rooms, origins>>
        \/ \E p \in Process, r \in RoomId :
              \/ rooms' = [rooms EXCEPT ![p] = @ \cup {r}] /\ UNCHANGED origins
              \/ ExecDestroy(p, r)
    BY <1>13 DEF ResumeStatus, LocalCreate, LocalDestroy, LocalStatus, vars, agentVars
  <2> QED
    BY <2>1, <2>2 DEF Aside, Move
<1> QED
  BY <1>2, <1>3, <1>4, <1>5, <1>6, <1>7, <1>8, <1>9, <1>10, <1>11, <1>12, <1>13 DEF Next, Frame, AgentFrame, Move

-----------------------------------------------------------------------------
(* Each command once.                                                      *)

\* The later queue has no frame of type t that the earlier one has not.
Fewer(q, later, t) ==
    \E s \in {0, 1} : \A n \in At(later, t) : n + s \in At(q, t) /\ later[n] = q[n + s]

LEMMA FewerSame == ASSUME NEW q, NEW t PROVE Fewer(q, q, t)
<1>1. \A n \in At(q, t) : n + 0 \in At(q, t) /\ q[n] = q[n + 0]
  BY DEF At
<1> QED
  BY <1>1 DEF Fewer

LEMMA FewerNone == ASSUME NEW q, NEW t PROVE Fewer(q, <<>>, t)
  BY AtNone DEF Fewer

LEMMA FewerTail ==
    ASSUME NEW F, NEW q \in Seq(F), q # <<>>, NEW t
    PROVE  Fewer(q, Tail(q), t)
<1>1. \A n \in At(Tail(q), t) : n + 1 \in At(q, t) /\ Tail(q)[n] = q[n + 1]
  BY InTail
<1> QED
  BY <1>1 DEF Fewer

LEMMA FewerOther ==
    ASSUME NEW F, NEW q \in Seq(F), NEW m, NEW t, m.type # t
    PROVE  Fewer(q, Append(q, m), t)
<1>1. At(Append(q, m), t) = At(q, t)
  BY OtherAppended
<1>2. \A n \in At(q, t) : n + 0 \in At(q, t) /\ Append(q, m)[n] = q[n + 0]
  <2>1. ASSUME NEW n \in At(q, t)
        PROVE  n + 0 \in At(q, t) /\ Append(q, m)[n] = q[n + 0]
    <3>1. Append(q, m)[n] = q[n]
      BY StaysInAppend
    <3>2. n + 0 = n
      BY DEF At
    <3> QED
      BY <3>1, <3>2
  <2> QED
    BY <2>1
<1> QED
  BY <1>1, <1>2 DEF Fewer

\* A command that is under way to an agent: it is unique, it is not answered yet, and
\* it is pending, or it was settled without an answer.
OnceAt(i) ==
    /\ \A n \in At(toAgent[i], "cmd") :
          /\ toAgent[i][n].cmd.inst = i /\ toAgent[i][n].cmd.id <= cmdSeq
          /\ \A d \in pending : d.id = toAgent[i][n].cmd.id => d = toAgent[i][n].cmd
          /\ toAgent[i][n].cmd.op = "create" =>
                toAgent[i][n].cmd \in pending \/ toAgent[i][n].cmd.room \in orphaned
          /\ \A k \in At(toAgent[i], "cmd") : toAgent[i][k].cmd.id = toAgent[i][n].cmd.id => k = n
          /\ \A k \in At(toOrch[i], "ack") : toOrch[i][k].id # toAgent[i][n].cmd.id
    /\ \A k \in At(toOrch[i], "ack") : toOrch[i][k].id <= cmdSeq

Once ==
    /\ \A c \in pending : c.id <= cmdSeq
    /\ \A c, d \in pending : c.id = d.id => c = d
    /\ \A i \in Instance : OnceAt(i)

\* An id is reserved or held, never both.
HeldFree == \A c \in Creates(pending) : held[c.room] = Unknown

\* No new command or ack on a connection.
LEMMA OnceKept ==
    ASSUME BookTypes, BookTypes', NEW i \in Instance, OnceAt(i),
           Fewer(toAgent[i], toAgent'[i], "cmd"), Fewer(toOrch[i], toOrch'[i], "ack"),
           pending' \subseteq pending, orphaned \subseteq orphaned', cmdSeq <= cmdSeq',
           \A c \in Creates(pending) :
               \/ c \in pending' \/ c.room \in orphaned'
               \/ \A n \in At(toAgent[i], "cmd") : toAgent[i][n].cmd # c,
           WireTypes
    PROVE  OnceAt(i)'
<1>1. PICK s \in {0, 1} : \A n \in At(toAgent'[i], "cmd") :
                             n + s \in At(toAgent[i], "cmd") /\ toAgent'[i][n] = toAgent[i][n + s]
  BY DEF Fewer
<1>2. PICK u \in {0, 1} : \A n \in At(toOrch'[i], "ack") :
                             n + u \in At(toOrch[i], "ack") /\ toOrch'[i][n] = toOrch[i][n + u]
  BY DEF Fewer
<1>3. cmdSeq \in Nat /\ cmdSeq' \in Nat
  BY FleetAssumption DEF BookTypes
<1>4. ASSUME NEW n \in At(toAgent[i], "cmd")
      PROVE  toAgent[i][n].cmd \in Cmd /\ toAgent[i][n].cmd.id \in Nat
  BY <1>4, AgentFrameTypes DEF WireTypes, At, Cmd
<1>5. ASSUME NEW k \in At(toOrch[i], "ack")
      PROVE  toOrch[i][k].id \in Nat
  BY <1>5, OrchFrameTypes DEF WireTypes, At
<1>6. ASSUME NEW n \in At(toAgent'[i], "cmd")
      PROVE  /\ toAgent'[i][n].cmd.inst = i /\ toAgent'[i][n].cmd.id <= cmdSeq'
             /\ \A d \in pending' : d.id = toAgent'[i][n].cmd.id => d = toAgent'[i][n].cmd
             /\ toAgent'[i][n].cmd.op = "create" =>
                  toAgent'[i][n].cmd \in pending' \/ toAgent'[i][n].cmd.room \in orphaned'
             /\ \A k \in At(toAgent'[i], "cmd") : toAgent'[i][k].cmd.id = toAgent'[i][n].cmd.id => k = n
             /\ \A k \in At(toOrch'[i], "ack") : toOrch'[i][k].id # toAgent'[i][n].cmd.id
  <2> DEFINE c == toAgent'[i][n].cmd
  <2>1. n + s \in At(toAgent[i], "cmd") /\ c = toAgent[i][n + s].cmd
    BY <1>1
  <2>2. c.inst = i /\ c.id <= cmdSeq'
    BY <1>3, <1>4, <2>1 DEF OnceAt
  <2>3. \A d \in pending' : d.id = c.id => d = c
    BY <2>1 DEF OnceAt
  <2>4. c.op = "create" => c \in pending' \/ c.room \in orphaned'
    BY <2>1 DEF OnceAt, Creates
  <2>5. ASSUME NEW k \in At(toAgent'[i], "cmd"), toAgent'[i][k].cmd.id = c.id
        PROVE  k = n
    <3>1. k + s = n + s
      BY <1>1, <2>1, <2>5 DEF OnceAt
    <3> QED
      BY <3>1 DEF At
  <2>6. \A k \in At(toOrch'[i], "ack") : toOrch'[i][k].id # c.id
    BY <1>2, <2>1 DEF OnceAt
  <2> QED
    BY <2>2, <2>3, <2>4, <2>5, <2>6
<1>7. \A k \in At(toOrch'[i], "ack") : toOrch'[i][k].id <= cmdSeq'
  BY <1>2, <1>3, <1>5 DEF OnceAt
<1> QED
  BY <1>6, <1>7 DEF OnceAt

\* What a step that issues no command and executes none does to the queues.
LEMMA FewerFrames ==
    ASSUME BookTypes, WireTypes, NEW i \in Instance,
           \/ \E c : TimesOut(c) \/ (c.inst \in Instance /\ Settles(c))
           \/ \E j \in Instance : Applies(j) \/ Removes(j) \/ Polls(j)
           \/ \E p \in Process : Unplugs(p) \/ (Conn(p) \in Instance /\ Reports(p))
           \/ Aside
    PROVE  Fewer(toAgent[i], toAgent'[i], "cmd") /\ Fewer(toOrch[i], toOrch'[i], "ack")
<1>1. toAgent[i] \in Seq(AgentFrames) /\ toOrch[i] \in Seq(OrchFrames)
  BY DEF WireTypes
<1>2. CASE toAgent' = toAgent /\ toOrch' = toOrch
  BY <1>2, FewerSame
<1>3. ASSUME NEW j \in Instance, toAgent' = toAgent, toOrch[j] # <<>>, toOrch' = [toOrch EXCEPT ![j] = Tail(@)]
      PROVE  Fewer(toAgent[i], toAgent'[i], "cmd") /\ Fewer(toOrch[i], toOrch'[i], "ack")
  <2>1. (i = j /\ toOrch'[i] = Tail(toOrch[i])) \/ toOrch'[i] = toOrch[i]
    BY <1>3 DEF WireTypes
  <2> QED
    BY <1>1, <1>3, <2>1, FewerSame, FewerTail
<1>4. ASSUME NEW j \in Instance, toAgent' = toAgent, toOrch' = [toOrch EXCEPT ![j] = <<>>]
      PROVE  Fewer(toAgent[i], toAgent'[i], "cmd") /\ Fewer(toOrch[i], toOrch'[i], "ack")
  <2>1. toOrch'[i] = <<>> \/ toOrch'[i] = toOrch[i]
    BY <1>4 DEF WireTypes
  <2> QED
    BY <1>4, <2>1, FewerSame, FewerNone
<1>5. ASSUME NEW j \in Instance, NEW m, m.type = "poll", toOrch' = toOrch,
             toAgent' = [toAgent EXCEPT ![j] = Append(@, m)]
      PROVE  Fewer(toAgent[i], toAgent'[i], "cmd") /\ Fewer(toOrch[i], toOrch'[i], "ack")
  <2>1. toAgent'[i] = Append(toAgent[i], m) \/ toAgent'[i] = toAgent[i]
    BY <1>5 DEF WireTypes
  <2> QED
    BY <1>1, <1>5, <2>1, FewerSame, FewerOther
<1>6. ASSUME NEW p \in Process, Unplugs(p)
      PROVE  Fewer(toAgent[i], toAgent'[i], "cmd") /\ Fewer(toOrch[i], toOrch'[i], "ack")
  <2>1. (toAgent'[i] = <<>> \/ toAgent'[i] = toAgent[i]) /\ toOrch' = toOrch
    BY <1>6 DEF Unplugs, WireTypes
  <2> QED
    BY <2>1, FewerSame, FewerNone
<1>7. ASSUME NEW p \in Process, Conn(p) \in Instance, Reports(p)
      PROVE  Fewer(toAgent[i], toAgent'[i], "cmd") /\ Fewer(toOrch[i], toOrch'[i], "ack")
  <2> DEFINE m == StateFrom(p, Head(toAgent[Conn(p)]))
             j == Conn(p)
  <2>1. /\ toAgent[j] # <<>> /\ toAgent' = [toAgent EXCEPT ![j] = Tail(@)]
        /\ Reply(j, m) /\ m.type = "state" /\ j \in Instance
    BY <1>7 DEF Reports, StateFrom
  <2> HIDE DEF m, j
  <2>2. (i = j /\ toAgent'[i] = Tail(toAgent[i])) \/ toAgent'[i] = toAgent[i]
    BY <2>1 DEF WireTypes
  <2>3. toOrch'[i] = Append(toOrch[i], m) \/ toOrch'[i] = toOrch[i]
    BY <2>1 DEF WireTypes, Reply
  <2>4. Fewer(toAgent[i], toAgent'[i], "cmd")
    BY <1>1, <2>1, <2>2, FewerSame, FewerTail
  <2>5. Fewer(toOrch[i], toOrch'[i], "ack")
    BY <1>1, <2>1, <2>3, FewerSame, FewerOther
  <2> QED
    BY <2>4, <2>5
<1>8. ASSUME NEW c, TimesOut(c) \/ (c.inst \in Instance /\ Settles(c))
      PROVE  Fewer(toAgent[i], toAgent'[i], "cmd") /\ Fewer(toOrch[i], toOrch'[i], "ack")
  BY <1>2, <1>3, <1>8 DEF TimesOut, Settles
<1>9. ASSUME NEW j \in Instance, Applies(j) \/ Removes(j) \/ Polls(j)
      PROVE  Fewer(toAgent[i], toAgent'[i], "cmd") /\ Fewer(toOrch[i], toOrch'[i], "ack")
  BY <1>3, <1>4, <1>5, <1>9 DEF Applies, Removes, Teardown, Polls
<1>10. CASE Aside
  BY <1>2, <1>10 DEF Aside
<1> QED
  BY <1>6, <1>7, <1>8, <1>9, <1>10

\* Which pending creates a step that issues no command and executes none settles.
LEMMA SettledRooms ==
    ASSUME Inv, Polling, Once, NEW i \in Instance,
           \/ \E c : TimesOut(c) \/ Settles(c)
           \/ \E j \in Instance : Applies(j) \/ Removes(j) \/ Polls(j)
           \/ \E p \in Process : Unplugs(p) \/ Reports(p)
           \/ Aside
    PROVE  /\ pending' \subseteq pending /\ orphaned \subseteq orphaned' /\ cmdSeq <= cmdSeq'
           /\ \A c \in Creates(pending) :
                \/ c \in pending' \/ c.room \in orphaned'
                \/ \A n \in At(toAgent[i], "cmd") : toAgent[i][n].cmd # c
<1>1. BookTypes /\ WireTypes /\ cmdSeq \in Nat
  BY TypesAre, FleetAssumption DEF Polling, BookTypes
<1>2. ASSUME NEW c, TimesOut(c)
      PROVE  /\ pending' = pending \ {c} /\ orphaned' = orphaned \cup IdsOf({c})
             /\ cmdSeq' = cmdSeq
  BY <1>2 DEF TimesOut
<1>3. ASSUME NEW c, Settles(c)
      PROVE  /\ pending' = pending \ {c} /\ orphaned' = orphaned /\ cmdSeq' = cmdSeq
             /\ \A n \in At(toAgent[i], "cmd") : toAgent[i][n].cmd # c
  <2>1. /\ pending' = pending \ {c} /\ orphaned' = orphaned /\ cmdSeq' = cmdSeq
        /\ toOrch[c.inst] # <<>> /\ Head(toOrch[c.inst]).type = "ack" /\ Head(toOrch[c.inst]).id = c.id
    BY <1>3 DEF Settles
  <2>2. ASSUME NEW n \in At(toAgent[i], "cmd"), toAgent[i][n].cmd = c
        PROVE  FALSE
    <3>1. c.inst = i
      BY <2>2 DEF Once, OnceAt
    <3>2. 1 \in At(toOrch[i], "ack") /\ toOrch[i][1].id = c.id
      BY <1>1, <2>1, <3>1, FirstOfQueue DEF WireTypes
    <3> QED
      BY <2>2, <3>2 DEF Once, OnceAt
  <2> QED
    BY <2>1, <2>2
<1>4. ASSUME NEW j \in Instance, Removes(j)
      PROVE  /\ pending' = pending \ PendingOf(j) /\ orphaned \cup IdsOf(PendingOf(j)) \subseteq orphaned'
             /\ cmdSeq' = cmdSeq
  BY <1>4 DEF Removes, Teardown, RejectAll
<1>5. ASSUME \/ \E j \in Instance : Applies(j) \/ Polls(j)
             \/ \E p \in Process : Unplugs(p) \/ Reports(p)
             \/ Aside
      PROVE  pending' = pending /\ orphaned' = orphaned /\ cmdSeq' \in {cmdSeq, cmdSeq + 1}
  BY <1>5 DEF Applies, Polls, Unplugs, Reports, Aside, ledger
<1> QED
  BY <1>1, <1>2, <1>3, <1>4, <1>5 DEF IdsOf, Creates, PendingOf

LEMMA IssuesOnce ==
    ASSUME BookTypes, WireTypes, Once, NEW c, Issues(c)
    PROVE  Once'
<1>1. cmdSeq \in Nat /\ cmdSeq' = cmdSeq + 1 /\ c.id = cmdSeq + 1 /\ c \in Cmd /\ c.inst \in Instance
  BY FleetAssumption DEF BookTypes, Issues, Cmd
<1>2. \A d \in pending : d.id \in Nat /\ d.id <= cmdSeq
  BY DEF BookTypes, Cmd, Once
<1>3. pending' = pending \cup {c} /\ toOrch' = toOrch /\ orphaned' = orphaned
  BY DEF Issues
<1>4. ASSUME NEW i \in Instance
      PROVE  OnceAt(i)'
  <2> DEFINE m == CmdFrame(c)
             q == toAgent[i]
  <2>1. q \in Seq(AgentFrames) /\ m.type = "cmd" /\ m.cmd = c
    BY DEF WireTypes, CmdFrame
  <2>2. ASSUME NEW k \in At(toOrch[i], "ack")
        PROVE  toOrch[i][k].id \in Nat /\ toOrch[i][k].id <= cmdSeq
    BY <2>2, OrchFrameTypes DEF WireTypes, At, Once, OnceAt
  <2>3. ASSUME NEW n \in At(q, "cmd")
        PROVE  q[n].cmd.id \in Nat /\ q[n].cmd.id <= cmdSeq
    BY <2>3, AgentFrameTypes DEF WireTypes, At, Cmd, Once, OnceAt
  <2>4. (i = c.inst /\ toAgent'[i] = Append(q, m)) \/ toAgent'[i] = q
    BY <1>1 DEF WireTypes, Issues
  <2> HIDE DEF m
  <2>5. ASSUME NEW n \in At(toAgent'[i], "cmd")
        PROVE  \/ n \in At(q, "cmd") /\ toAgent'[i][n] = q[n]
               \/ n = Len(q) + 1 /\ toAgent'[i][n] = m /\ i = c.inst
    <3>1. CASE i = c.inst /\ toAgent'[i] = Append(q, m)
      <4>1. q \in Seq(AgentFrames)
        BY <2>1
      <4>2. (n \in At(q, "cmd") /\ toAgent'[i][n] = q[n]) \/ (n = Len(q) + 1 /\ toAgent'[i][n] = m)
        BY <2>5, <3>1, <4>1 DEF At
      <4> QED
        BY <3>1, <4>2
    <3>2. CASE toAgent'[i] = q
      BY <2>5, <3>2
    <3> QED
      BY <2>4, <3>1, <3>2
  <2>6. ASSUME NEW n \in At(toAgent'[i], "cmd")
        PROVE  /\ toAgent'[i][n].cmd.inst = i /\ toAgent'[i][n].cmd.id <= cmdSeq'
               /\ \A d \in pending' : d.id = toAgent'[i][n].cmd.id => d = toAgent'[i][n].cmd
               /\ toAgent'[i][n].cmd.op = "create" =>
                    toAgent'[i][n].cmd \in pending' \/ toAgent'[i][n].cmd.room \in orphaned'
               /\ \A k \in At(toAgent'[i], "cmd") : toAgent'[i][k].cmd.id = toAgent'[i][n].cmd.id => k = n
               /\ \A k \in At(toOrch'[i], "ack") : toOrch'[i][k].id # toAgent'[i][n].cmd.id
    <3>1. CASE n \in At(q, "cmd") /\ toAgent'[i][n] = q[n]
      <4>1. \A k \in At(toAgent'[i], "cmd") : toAgent'[i][k].cmd.id = q[n].cmd.id => k = n
        BY <1>1, <2>1, <2>3, <2>5, <3>1 DEF Once, OnceAt
      <4> QED
        BY <1>1, <1>2, <1>3, <2>3, <3>1, <4>1 DEF Once, OnceAt
    <3>2. CASE n = Len(q) + 1 /\ toAgent'[i][n] = m /\ i = c.inst
      <4>1. \A k \in At(toAgent'[i], "cmd") : toAgent'[i][k].cmd.id = c.id => k = n
        BY <1>1, <2>1, <2>3, <2>5, <3>2
      <4>2. \A d \in pending' : d.id = c.id => d = c
        BY <1>1, <1>2, <1>3
      <4>3. \A k \in At(toOrch'[i], "ack") : toOrch'[i][k].id # c.id
        BY <1>1, <1>3, <2>2
      <4> QED
        BY <1>1, <1>3, <2>1, <3>2, <4>1, <4>2, <4>3
    <3> QED
      BY <2>5, <3>1, <3>2
  <2>7. \A k \in At(toOrch'[i], "ack") : toOrch'[i][k].id <= cmdSeq'
    BY <1>1, <1>3, <2>2
  <2> QED
    BY <2>6, <2>7 DEF OnceAt
<1> QED
  BY <1>1, <1>2, <1>3, <1>4 DEF Once

LEMMA ExecutesOnce ==
    ASSUME BookTypes, WireTypes, Once, NEW p \in Process, Conn(p) \in Instance, NEW c, Executes(p, c)
    PROVE  Once'
<1> DEFINE j == Conn(p)
           m == AckFrom(c)
<1>1. /\ toAgent[j] # <<>> /\ toAgent' = [toAgent EXCEPT ![j] = Tail(@)]
      /\ Head(toAgent[j]).type = "cmd" /\ Head(toAgent[j]).cmd = c
      /\ Reply(j, m) /\ UNCHANGED <<pending, orphaned, cmdSeq>>
      /\ m.type = "ack" /\ m.id = c.id
  BY DEF Executes, ledger, AckFrom
<1> HIDE DEF j, m
<1>2. j \in Instance
  BY DEF j
<1>3. 1 \in At(toAgent[j], "cmd") /\ toAgent[j][1].cmd = c
  <2>1. toAgent[j] \in Seq(AgentFrames)
    BY <1>2 DEF WireTypes
  <2> QED
    BY <1>1, <2>1, FirstOfQueue
<1>4. ASSUME NEW i \in Instance
      PROVE  OnceAt(i)'
  <2>1. CASE i # j
    <3>1. toAgent'[i] = toAgent[i] /\ toOrch'[i] = toOrch[i]
      BY <1>1, <1>2, <2>1 DEF WireTypes, Reply
    <3>2. OnceAt(i) /\ UNCHANGED <<pending, orphaned, cmdSeq>>
      BY <1>1 DEF Once
    <3> QED
      BY <3>1, <3>2 DEF OnceAt
  <2>2. CASE i = j
    <3>1. toAgent[i] \in Seq(AgentFrames) /\ toOrch[i] \in Seq(OrchFrames) /\ toAgent[i] # <<>>
      BY <1>1, <2>2 DEF WireTypes
    <3>2. toAgent'[i] = Tail(toAgent[i]) /\ (toOrch'[i] = Append(toOrch[i], m) \/ toOrch'[i] = toOrch[i])
      BY <1>1, <1>2, <2>2 DEF WireTypes, Reply
    <3>3. ASSUME NEW n \in At(toAgent'[i], "cmd")
          PROVE  n + 1 \in At(toAgent[i], "cmd") /\ toAgent'[i][n] = toAgent[i][n + 1] /\ n \in Nat /\ n # 0
      BY <3>1, <3>2, InTail
    <3>4. ASSUME NEW k \in At(toOrch'[i], "ack")
          PROVE  \/ k \in At(toOrch[i], "ack") /\ toOrch'[i][k] = toOrch[i][k]
                 \/ toOrch'[i][k].id = c.id
      <4>1. CASE toOrch'[i] = Append(toOrch[i], m)
        <5>1. toOrch[i] \in Seq(OrchFrames)
          BY <3>1
        <5>2. (k \in At(toOrch[i], "ack") /\ toOrch'[i][k] = toOrch[i][k]) \/ toOrch'[i][k] = m
          BY <3>4, <4>1, <5>1 DEF At
        <5> QED
          BY <1>1, <5>2
      <4>2. CASE toOrch'[i] = toOrch[i]
        BY <3>4, <4>2
      <4> QED
        BY <3>2, <4>1, <4>2
    <3>5. ASSUME NEW n \in At(toAgent'[i], "cmd")
          PROVE  toAgent'[i][n].cmd.id # c.id
      <4>1. n + 1 # 1
        BY <3>3
      <4> QED
        BY <1>3, <2>2, <3>3, <4>1 DEF Once, OnceAt
    <3>6. \A n, k \in At(toAgent'[i], "cmd") : toAgent'[i][k].cmd.id = toAgent'[i][n].cmd.id => k = n
      <4>1. ASSUME NEW n \in At(toAgent'[i], "cmd"), NEW k \in At(toAgent'[i], "cmd"),
                   toAgent'[i][k].cmd.id = toAgent'[i][n].cmd.id
            PROVE  k = n
        <5>1. k + 1 = n + 1
          BY <3>3, <4>1 DEF Once, OnceAt
        <5> QED
          BY <3>3, <5>1
      <4> QED
        BY <4>1
    <3>7. \A k \in At(toOrch'[i], "ack") : toOrch'[i][k].id <= cmdSeq'
      <4>1. c.id <= cmdSeq
        BY <1>3, <2>2 DEF Once, OnceAt
      <4> QED
        BY <1>1, <3>4, <4>1 DEF Once, OnceAt
    <3>8. ASSUME NEW n \in At(toAgent'[i], "cmd")
          PROVE  /\ toAgent'[i][n].cmd.inst = i /\ toAgent'[i][n].cmd.id <= cmdSeq'
                 /\ \A d \in pending' : d.id = toAgent'[i][n].cmd.id => d = toAgent'[i][n].cmd
                 /\ toAgent'[i][n].cmd.op = "create" =>
                      toAgent'[i][n].cmd \in pending' \/ toAgent'[i][n].cmd.room \in orphaned'
                 /\ \A k \in At(toOrch'[i], "ack") : toOrch'[i][k].id # toAgent'[i][n].cmd.id
      <4> DEFINE d == toAgent'[i][n].cmd
      <4>1. n + 1 \in At(toAgent[i], "cmd") /\ d = toAgent[i][n + 1].cmd /\ OnceAt(i)
        BY <3>3, <3>8 DEF Once
      <4>2. UNCHANGED <<pending, orphaned, cmdSeq>>
        BY <1>1
      <4>3. \A k \in At(toOrch[i], "ack") : toOrch[i][k].id # d.id
        BY <4>1 DEF OnceAt
      <4>4. \A k \in At(toOrch'[i], "ack") : toOrch'[i][k].id # d.id
        BY <3>4, <3>5, <3>8, <4>3
      <4>5. /\ d.inst = i /\ d.id <= cmdSeq
            /\ \A e \in pending : e.id = d.id => e = d
            /\ d.op = "create" => d \in pending \/ d.room \in orphaned
        BY <4>1 DEF OnceAt
      <4> QED
        BY <4>2, <4>4, <4>5
    <3> QED
      BY <3>6, <3>7, <3>8 DEF OnceAt
  <2> QED
    BY <2>1, <2>2
<1> QED
  BY <1>1, <1>4 DEF Once

LEMMA MovedConn == ASSUME Inv, NEW p \in Process, current[p] # 0 PROVE Conn(p) \in Instance
  BY ConnType DEF Inv, Wires

LEMMA OnceStep ==
    ASSUME Inv, Polling, Once, [Next]_vars
    PROVE  Once'
<1>1. BookTypes /\ WireTypes /\ BookTypes' /\ Move
  <2>1. Inv' /\ TypeOK'
    BY InvStep, TypeStep
  <2>2. BookTypes' 
    BY <2>1 DEF TypeOK, BookTypes
  <2> QED
    BY <2>2, TypesAre, MoveStep DEF Polling
<1>2. ASSUME NEW c, Issues(c) PROVE Once'
  BY <1>1, <1>2, IssuesOnce
<1>3. ASSUME NEW p \in Process, NEW c, Executes(p, c) PROVE Once'
  <2>1. Conn(p) \in Instance
    BY <1>3, MovedConn DEF Executes
  <2> QED
    BY <1>1, <1>3, <2>1, ExecutesOnce
<1>4. ASSUME \/ \E c : TimesOut(c) \/ Settles(c)
             \/ \E j \in Instance : Applies(j) \/ Removes(j) \/ Polls(j)
             \/ \E p \in Process : Unplugs(p) \/ Reports(p)
             \/ Aside
      PROVE  Once'
  <2>1. ASSUME NEW i \in Instance
        PROVE  Fewer(toAgent[i], toAgent'[i], "cmd") /\ Fewer(toOrch[i], toOrch'[i], "ack")
    <3>1. \A c : Settles(c) => c.inst \in Instance
      BY <1>1 DEF Settles, BookTypes, Cmd
    <3>2. \A p \in Process : Reports(p) => Conn(p) \in Instance
      BY MovedConn DEF Reports
    <3> QED
      BY <1>1, <1>4, <3>1, <3>2, FewerFrames
  <2>2. ASSUME NEW i \in Instance
        PROVE  /\ pending' \subseteq pending /\ orphaned \subseteq orphaned' /\ cmdSeq <= cmdSeq'
               /\ \A c \in Creates(pending) :
                    \/ c \in pending' \/ c.room \in orphaned'
                    \/ \A n \in At(toAgent[i], "cmd") : toAgent[i][n].cmd # c
    BY <1>4, SettledRooms
  <2>3. \A i \in Instance : OnceAt(i)'
    BY <1>1, <2>1, <2>2, OnceKept DEF Once
  <2>4. pending' \subseteq pending /\ cmdSeq <= cmdSeq'
    <3>1. CASE Instance = {}
      <4>1. pending = {}
        BY <1>1, <3>1 DEF BookTypes, Cmd
      <4> QED
        BY <1>1, <1>4, <4>1, <3>1 DEF TimesOut, Settles, Unplugs, Reports, Aside, ledger, BookTypes
    <3>2. CASE Instance # {}
      BY <2>2, <3>2
    <3> QED
      BY <3>1, <3>2
  <2>5. \A c \in pending : c.id \in Nat /\ c.id <= cmdSeq'
    <3>1. cmdSeq \in Nat /\ cmdSeq' \in Nat
      BY <1>1, FleetAssumption DEF BookTypes
    <3>2. \A c \in pending : c.id \in Nat
      BY <1>1 DEF BookTypes, Cmd
    <3> QED
      BY <2>4, <3>1, <3>2 DEF Once
  <2> QED
    BY <2>3, <2>4, <2>5 DEF Once
<1> QED
  BY <1>1, <1>2, <1>3, <1>4 DEF Move

-----------------------------------------------------------------------------
(* Where each fleet room is.                                               *)

\* FleetState has instance i for room r: in the last snapshot, reserved, or held.
BooksRoom(i, r) ==
    \/ Known(i) /\ r \in records[i].rooms
    \/ \E c \in Creates(pending) : c.inst = i /\ c.room = r
    \/ held[r] = i

\* It will not lose r with the snapshot under way: the snapshot shows r, or the answer to
\* its create comes after the snapshot.
Will(i, r) ==
    \A n \in At(toOrch[i], "state") :
        \/ r \in toOrch[i][n].snap.rooms
        \/ \E c \in Creates(pending) :
              /\ c.inst = i /\ c.room = r
              /\ \A k \in At(toOrch[i], "ack") : k < n => toOrch[i][k].id # c.id

Kept(i, r) == (Known(i) => BooksRoom(i, r)) /\ Will(i, r)

\* A room that exists is booked by a connection of its process, and by the one in use.
Home ==
    \A p \in Process : \A r \in origins[p] \ orphaned :
        \E i \in Instance : i[1] = p /\ Known(i) /\ Kept(i, r)
Follow ==
    \A p \in Process : \A r \in origins[p] \ orphaned :
        current[p] # 0 => Kept(Conn(p), r)

\* A room whose create is under way, or refused, does not exist anywhere.
Unmade ==
    \A c \in Creates(pending), q \in Process : c.room \in origins[q] \ orphaned =>
        /\ \A n \in At(toAgent[c.inst], "cmd") : toAgent[c.inst][n].cmd # c
        /\ \A k \in At(toOrch[c.inst], "ack") : toOrch[c.inst][k].id = c.id => toOrch[c.inst][k].ok

OriginsIn == \A p \in Process : origins[p] \subseteq rooms[p]

Placed == Once /\ HeldFree /\ OriginsIn /\ Unmade /\ Home /\ Follow /\ OneHome

LEMMA HeldFreeStep ==
    ASSUME Inv, Polling, HeldFree, [Next]_vars
    PROVE  HeldFree'
<1>1. BookTypes /\ WireTypes /\ Move
  BY TypesAre, MoveStep DEF Polling
<1>2. /\ \A c, d \in Creates(pending) : c.room = d.room => c = d
      /\ held \in [RoomId -> Instance \cup {Unknown}] /\ \A c \in pending : Issued(c)
  BY DEF Inv, Books, PendBooks, HoldBooks
<1>3. ASSUME NEW c, Issues(c)
      PROVE  HeldFree'
  BY <1>3 DEF Issues, HeldFree, FreeRoomIds, IsRoomIdTaken, Creates
<1>4. ASSUME NEW c \in pending, pending' = pending \ {c}, HoldOrRelease(c) \/ UNCHANGED held
      PROVE  HeldFree'
  <2>1. \A d \in Creates(pending') : d \in Creates(pending) /\ d # c
    BY <1>4 DEF Creates
  <2>2. held' # held => c \in Creates(pending) /\ held' = [held EXCEPT ![c.room] = c.inst]
    BY <1>4 DEF HoldOrRelease, Hold, resVars, Creates
  <2>3. ASSUME NEW d \in Creates(pending')
        PROVE  held'[d.room] = Unknown
    <3>1. d \in Creates(pending) /\ d # c /\ d.room \in RoomId /\ held[d.room] = Unknown
      BY <1>2, <2>1 DEF Issued, Creates, HeldFree
    <3>2. CASE held' = held
      BY <3>1, <3>2
    <3>3. CASE held' # held
      <4>1. d.room # c.room /\ held' = [held EXCEPT ![c.room] = c.inst]
        BY <1>2, <2>2, <3>1, <3>3
      <4> QED
        BY <1>2, <3>1, <4>1
    <3> QED
      BY <3>2, <3>3
  <2> QED
    BY <2>3 DEF HeldFree
<1>5. ASSUME NEW i \in Instance, ClearHolds(i) \/ UNCHANGED held, pending' \subseteq pending
      PROVE  HeldFree'
  BY <1>2, <1>5 DEF ClearHolds, HeldFree, Creates, Issued
<1>6. ASSUME UNCHANGED <<held, pending>>
      PROVE  HeldFree'
  BY <1>6 DEF HeldFree, Creates
<1>7. ASSUME NEW c, TimesOut(c) \/ Settles(c)
      PROVE  HeldFree'
  BY <1>4, <1>7 DEF TimesOut, Settles
<1>8. ASSUME NEW i \in Instance, Applies(i) \/ Removes(i)
      PROVE  HeldFree'
  BY <1>5, <1>8 DEF Applies, Removes, Teardown, RejectAll
<1>9. ASSUME \/ \E i \in Instance : Polls(i)
             \/ \E p \in Process : Unplugs(p) \/ Reports(p) \/ \E c : Executes(p, c)
             \/ Aside
      PROVE  HeldFree'
  BY <1>6, <1>9 DEF Polls, Unplugs, Reports, Executes, Aside, ledger
<1> QED
  BY <1>1, <1>3, <1>7, <1>8, <1>9 DEF Move

\* Only the execution of a create makes a fleet room.
LEMMA RoomsMade ==
    ASSUME Inv, Polling, [Next]_vars, NEW q \in Process, NEW r \in origins'[q] \ origins[q]
    PROVE  \E c : /\ Executes(q, c) /\ c.op = "create" /\ r = c.room /\ AckFrom(c).ok = TRUE
                 /\ origins' = [origins EXCEPT ![q] = @ \cup {r}]
<1>1. Move /\ AgentsOK
  BY MoveStep DEF Inv, Wires
<1>2. ~Aside
  BY <1>1 DEF Aside, ExecDestroy, AgentsOK
<1>3. PICK p \in Process : \E c : Executes(p, c)
  BY <1>1, <1>2 DEF Move, Issues, TimesOut, Settles, Applies, Removes, Polls, Unplugs, Reports, agents
<1> PICK c : Executes(p, c)
  BY <1>3
<1>4. c.op # "destroy" \/ ~ExecDestroy(p, c.room)
  BY <1>1 DEF ExecDestroy, AgentsOK
<1>5. c.op = "create" /\ ExecCreate(p, c.room)
  BY <1>3, <1>4 DEF Executes
<1>6. /\ c.room \notin rooms[p]
      /\ rooms' = [rooms EXCEPT ![p] = @ \cup {c.room}]
      /\ origins' = [origins EXCEPT ![p] = @ \cup {c.room}]
  BY <1>5 DEF ExecCreate
<1>7. p = q /\ r = c.room
  BY <1>1, <1>6 DEF AgentsOK
<1>8. rooms' # rooms
  BY <1>1, <1>6 DEF AgentsOK
<1> QED
  BY <1>3, <1>5, <1>6, <1>7, <1>8 DEF AckFrom

LEMMA MadeBy ==
    ASSUME Inv, Polling, [Next]_vars, NEW q \in Process, NEW r \in origins'[q], r \notin origins[q]
    PROVE  \E c : Executes(q, c) /\ c.op = "create" /\ r = c.room
<1>1. r \in origins'[q] \ origins[q]
  OBVIOUS
<1>2. \E c : /\ Executes(q, c) /\ c.op = "create" /\ r = c.room /\ AckFrom(c).ok = TRUE
             /\ origins' = [origins EXCEPT ![q] = @ \cup {r}]
  BY <1>1, RoomsMade
<1> QED
  BY <1>2

LEMMA OriginsInStep ==
    ASSUME Inv, Polling, OriginsIn, [Next]_vars
    PROVE  OriginsIn'
<1>1. Move /\ AgentsOK
  BY MoveStep DEF Inv, Wires
<1>2. CASE UNCHANGED <<rooms, origins>>
  BY <1>2 DEF OriginsIn
<1>3. ASSUME NEW p \in Process, NEW r,
             \/ rooms' = [rooms EXCEPT ![p] = @ \cup {r}] /\ UNCHANGED origins
             \/ ExecDestroy(p, r)
             \/ ExecCreate(p, r)
      PROVE  OriginsIn'
  BY <1>1, <1>3 DEF OriginsIn, ExecDestroy, ExecCreate, AgentsOK
<1>4. CASE Aside
  BY <1>2, <1>3, <1>4 DEF Aside
<1>5. ASSUME NEW p \in Process, NEW c, Executes(p, c)
      PROVE  OriginsIn'
  BY <1>2, <1>3, <1>5 DEF Executes
<1>6. ASSUME ~Aside, ~\E p \in Process : \E c : Executes(p, c)
      PROVE  UNCHANGED <<rooms, origins>>
  BY <1>1, <1>6 DEF Move, Issues, TimesOut, Settles, Applies, Removes, Polls, Unplugs, Reports, agents
<1> QED
  BY <1>2, <1>4, <1>5, <1>6

\* A create of a room that is not orphaned is settled by its ack alone.
LEMMA SettledByAck ==
    ASSUME Inv, Polling, [Next]_vars, NEW c \in Creates(pending), c.room \notin orphaned', c \notin pending'
    PROVE  Settles(c)
<1>1. Move /\ c \in pending
  BY MoveStep DEF Creates
<1>2. ASSUME NEW d, TimesOut(d)
      PROVE  FALSE
  BY <1>1, <1>2 DEF TimesOut, IdsOf, Creates
<1>3. ASSUME NEW i \in Instance, Removes(i)
      PROVE  FALSE
  BY <1>1, <1>3 DEF Removes, Teardown, RejectAll, IdsOf, Creates, PendingOf
<1>4. ASSUME NEW d, Settles(d)
      PROVE  d = c
  BY <1>1, <1>4 DEF Settles
<1>5. \/ \E d : Settles(d)
      \/ pending \subseteq pending'
  BY <1>1, <1>2, <1>3 DEF Move, Issues, Applies, Polls, Unplugs, Reports, Executes, Aside, ledger
<1> QED
  BY <1>1, <1>4, <1>5

\* Replies move up, and acks are added behind them.
LEMMA WillKept ==
    ASSUME WireTypes, NEW i \in Instance, NEW r, Will(i, r), NEW s \in {0, 1},
           \A n \in At(toOrch'[i], "state") :
               n + s \in At(toOrch[i], "state") /\ toOrch'[i][n] = toOrch[i][n + s],
           \A k \in At(toOrch'[i], "ack") :
               \/ k + s \in At(toOrch[i], "ack") /\ toOrch'[i][k] = toOrch[i][k + s]
               \/ \A n \in At(toOrch'[i], "state") : n < k,
           \A c \in Creates(pending) : c.inst = i /\ c.room = r =>
               \/ c \in pending'
               \/ s = 1 /\ 1 \in At(toOrch[i], "ack") /\ toOrch[i][1].id = c.id
    PROVE  Will(i, r)'
<1> SUFFICES ASSUME NEW n \in At(toOrch'[i], "state"), r \notin toOrch'[i][n].snap.rooms
             PROVE  \E c \in Creates(pending') :
                      /\ c.inst = i /\ c.room = r
                      /\ \A k \in At(toOrch'[i], "ack") : k < n => toOrch'[i][k].id # c.id
  BY DEF Will, Creates
<1>1. n + s \in At(toOrch[i], "state") /\ r \notin toOrch[i][n + s].snap.rooms /\ n \in Nat /\ n # 0
  BY DEF At
<1>2. PICK c \in Creates(pending) :
              /\ c.inst = i /\ c.room = r
              /\ \A k \in At(toOrch[i], "ack") : k < n + s => toOrch[i][k].id # c.id
  BY <1>1 DEF Will
<1>3. c \in pending'
  BY <1>1, <1>2
<1>4. ASSUME NEW k \in At(toOrch'[i], "ack"), k < n
      PROVE  toOrch'[i][k].id # c.id
  <2>1. k \in Nat
    BY DEF At
  <2>2. k + s \in At(toOrch[i], "ack") /\ toOrch'[i][k] = toOrch[i][k + s] /\ k + s < n + s
    BY <1>1, <1>4, <2>1
  <2> QED
    BY <1>2, <2>2
<1> QED
  BY <1>2, <1>3, <1>4 DEF Creates

LEMMA WillStep ==
    ASSUME Inv, Polling, Once, OriginsIn, [Next]_vars,
           NEW i \in Instance, NEW r \in origins[i[1]], r \notin orphaned', Will(i, r)
    PROVE  Will(i, r)'
<1>1. BookTypes /\ WireTypes /\ Move
  BY TypesAre, MoveStep DEF Polling
<1>2. toOrch[i] \in Seq(OrchFrames) /\ i[1] \in Process
  BY <1>1 DEF WireTypes, Instance
<1>3. \A c \in Creates(pending) : c.room = r => c \in pending' \/ Settles(c)
  BY SettledByAck
<1>4. ASSUME toOrch'[i] = toOrch[i], \A c \in Creates(pending) : c.inst = i /\ c.room = r => c \in pending'
      PROVE  Will(i, r)'
  <2>1. \A t : \A n \in At(toOrch'[i], t) : n + 0 \in At(toOrch[i], t) /\ toOrch'[i][n] = toOrch[i][n + 0]
    BY <1>4 DEF At
  <2> QED
    BY <1>1, <1>4, <2>1, WillKept
<1>5. ASSUME toOrch'[i] = <<>>
      PROVE  Will(i, r)'
  BY <1>5, AtNone DEF Will
<1>6. ASSUME toOrch[i] # <<>>, toOrch'[i] = Tail(toOrch[i]),
             \A c \in Creates(pending) : c.inst = i /\ c.room = r =>
               c \in pending' \/ (1 \in At(toOrch[i], "ack") /\ toOrch[i][1].id = c.id)
      PROVE  Will(i, r)'
  <2>1. ASSUME NEW t, NEW n \in At(toOrch'[i], t)
        PROVE  n + 1 \in At(toOrch[i], t) /\ toOrch'[i][n] = toOrch[i][n + 1]
    BY <1>2, <1>6, <2>1, InTail
  <2>2. \A n \in At(toOrch'[i], "state") : n + 1 \in At(toOrch[i], "state") /\ toOrch'[i][n] = toOrch[i][n + 1]
    BY <2>1
  <2>3. \A k \in At(toOrch'[i], "ack") : k + 1 \in At(toOrch[i], "ack") /\ toOrch'[i][k] = toOrch[i][k + 1]
    BY <2>1
  <2> DEFINE s == 1
  <2>4. s \in {0, 1} /\ s = 1
    OBVIOUS
  <2> HIDE DEF s
  <2>5. /\ \A n \in At(toOrch'[i], "state") : n + s \in At(toOrch[i], "state") /\ toOrch'[i][n] = toOrch[i][n + s]
        /\ \A k \in At(toOrch'[i], "ack") :
              \/ k + s \in At(toOrch[i], "ack") /\ toOrch'[i][k] = toOrch[i][k + s]
              \/ \A n \in At(toOrch'[i], "state") : n < k
    BY <2>2, <2>3, <2>4
  <2>6. \A c \in Creates(pending) : c.inst = i /\ c.room = r =>
               \/ c \in pending'
               \/ s = 1 /\ 1 \in At(toOrch[i], "ack") /\ toOrch[i][1].id = c.id
    BY <1>6, <2>4
  <2> QED
    BY <1>1, <2>4, <2>5, <2>6, WillKept
<1>7. ASSUME NEW m, m.type = "ack", toOrch'[i] = Append(toOrch[i], m), pending' = pending
      PROVE  Will(i, r)'
  <2>1. ASSUME NEW n \in At(toOrch'[i], "state")
        PROVE  n + 0 \in At(toOrch[i], "state") /\ toOrch'[i][n] = toOrch[i][n + 0] /\ n < Len(toOrch[i]) + 1
    BY <1>2, <1>7, <2>1 DEF At
  <2>2. ASSUME NEW k \in At(toOrch'[i], "ack")
        PROVE  \/ k + 0 \in At(toOrch[i], "ack") /\ toOrch'[i][k] = toOrch[i][k + 0]
               \/ k = Len(toOrch[i]) + 1
    BY <1>2, <1>7, <2>2 DEF At
  <2> QED
    BY <1>1, <1>7, <2>1, <2>2, WillKept DEF Creates
<1>8. ASSUME NEW m, m.type = "state", r \in m.snap.rooms, toOrch'[i] = Append(toOrch[i], m), pending' = pending
      PROVE  Will(i, r)'
  <2> SUFFICES ASSUME NEW n \in At(toOrch'[i], "state"), toOrch'[i][n] # m
               PROVE  \/ r \in toOrch'[i][n].snap.rooms
                      \/ \E c \in Creates(pending) :
                           /\ c.inst = i /\ c.room = r
                           /\ \A k \in At(toOrch'[i], "ack") : k < n => toOrch'[i][k].id # c.id
    BY <1>8 DEF Will, Creates
  <2>1. n \in At(toOrch[i], "state") /\ toOrch'[i][n] = toOrch[i][n]
    BY <1>2, <1>8 DEF At
  <2>2. ASSUME NEW k \in At(toOrch'[i], "ack")
        PROVE  k \in At(toOrch[i], "ack") /\ toOrch'[i][k] = toOrch[i][k]
    BY <1>2, <1>8, <2>2 DEF At
  <2> QED
    BY <2>1, <2>2 DEF Will
<1>9. ASSUME NEW c, Settles(c)
      PROVE  Will(i, r)'
  <2>1. c \in pending /\ c.inst \in Instance
    BY <1>1, <1>9 DEF Settles, BookTypes, Cmd
  <2>2. pending' = pending \ {c}
    BY <1>9 DEF Settles
  <2>3. CASE c.inst = i
    <3>1. /\ toOrch[i] # <<>> /\ toOrch'[i] = Tail(toOrch[i])
          /\ Head(toOrch[i]).type = "ack" /\ Head(toOrch[i]).id = c.id
      BY <1>1, <1>9, <2>1, <2>3 DEF Settles, WireTypes
    <3>2. 1 \in At(toOrch[i], "ack") /\ toOrch[i][1].id = c.id
      BY <1>2, <3>1, FirstOfQueue
    <3> QED
      BY <1>6, <2>2, <3>1, <3>2 DEF Creates
  <2>4. CASE c.inst # i
    <3>1. toOrch'[i] = toOrch[i]
      BY <1>1, <1>9, <2>1, <2>4 DEF Settles, WireTypes
    <3> QED
      BY <1>4, <2>2, <2>4, <3>1 DEF Creates
  <2> QED
    BY <2>3, <2>4
<1>10. ASSUME ~\E c : Settles(c)
       PROVE  \A c \in Creates(pending) : c.inst = i /\ c.room = r => c \in pending'
  BY <1>3, <1>10
<1>11. ASSUME \/ \E c : Issues(c) \/ TimesOut(c)
              \/ \E j \in Instance : Polls(j)
              \/ \E p \in Process : Unplugs(p)
              \/ Aside
       PROVE  toOrch' = toOrch
  BY <1>11 DEF Issues, TimesOut, Polls, Unplugs, Aside
<1>12. ASSUME NEW j \in Instance, Applies(j)
       PROVE  \/ toOrch'[i] = toOrch[i]
              \/ toOrch[i] # <<>> /\ toOrch'[i] = Tail(toOrch[i])
  BY <1>1, <1>12 DEF Applies, WireTypes
<1>13. ASSUME NEW j \in Instance, Removes(j)
       PROVE  toOrch'[i] = toOrch[i] \/ toOrch'[i] = <<>>
  BY <1>1, <1>13 DEF Removes, Teardown, WireTypes
<1>14. ASSUME NEW p \in Process, NEW m, Reply(Conn(p), m), current[p] # 0
       PROVE  toOrch'[i] = toOrch[i] \/ (i = Conn(p) /\ toOrch'[i] = Append(toOrch[i], m))
  BY <1>1, <1>14, MovedConn DEF Reply, WireTypes
<1>15. ASSUME NEW p \in Process, Reports(p), ~\E c : Settles(c)
       PROVE  Will(i, r)'
  <2> DEFINE m == StateFrom(p, Head(toAgent[Conn(p)]))
  <2>1. Reply(Conn(p), m) /\ current[p] # 0 /\ pending' = pending
    BY <1>15 DEF Reports, ledger
  <2>2. m.type = "state" /\ m.snap.rooms = rooms[p]
    BY DEF StateFrom, Snap
  <2> HIDE DEF m
  <2>3. CASE toOrch'[i] = toOrch[i]
    BY <1>4, <1>10, <1>15, <2>3
  <2>4. CASE i = Conn(p) /\ toOrch'[i] = Append(toOrch[i], m)
    <3>1. r \in rooms[p]
      BY <2>4 DEF Conn, OriginsIn
    <3> QED
      BY <1>8, <2>1, <2>2, <2>4, <3>1
  <2> QED
    BY <1>14, <2>1, <2>3, <2>4
<1>16. ASSUME NEW p \in Process, NEW c, Executes(p, c), ~\E d : Settles(d)
       PROVE  Will(i, r)'
  <2> DEFINE m == AckFrom(c)
  <2>1. Reply(Conn(p), m) /\ current[p] # 0 /\ pending' = pending /\ m.type = "ack"
    BY <1>16 DEF Executes, ledger, AckFrom
  <2> HIDE DEF m
  <2> QED
    BY <1>4, <1>7, <1>10, <1>14, <1>16, <2>1
<1> QED
  BY <1>1, <1>4, <1>5, <1>6, <1>9, <1>10, <1>11, <1>12, <1>13, <1>15, <1>16 DEF Move

LEMMA OrphansStay ==
    ASSUME Inv, Polling, [Next]_vars
    PROVE  orphaned \subseteq orphaned'
  BY MoveStep DEF Move, Issues, TimesOut, Settles, Applies, Removes, Teardown, Polls, Unplugs, Reports, Executes, Aside, ledger

\* What a step does to the records and holds of an instance.
LEMMA BooksMoved ==
    ASSUME Inv, Polling, [Next]_vars, NEW i \in Instance
    PROVE  /\ \/ Applies(i)
              \/ Removes(i) /\ ~Known(i)'
              \/ records'[i] = records[i]
           /\ ~Applies(i) /\ ~Removes(i) => \A r \in RoomId : held[r] = i => held'[r] = i
<1>1. BookTypes /\ Move /\ HoldBooks
  BY TypesAre, MoveStep DEF Polling, Inv, Books
<1>2. ASSUME NEW j \in Instance, Applies(j)
      PROVE  /\ j # i => records'[i] = records[i]
             /\ j # i => \A r \in RoomId : held[r] = i => held'[r] = i
  BY <1>1, <1>2 DEF Applies, ClearHolds, BookTypes
<1>3. ASSUME NEW j \in Instance, Removes(j)
      PROVE  /\ j # i => records'[i] = records[i]
             /\ j # i => \A r \in RoomId : held[r] = i => held'[r] = i
             /\ j = i => ~Known(i)'
  <2>1. CASE Known(j)
    BY <1>1, <1>3, <2>1 DEF Removes, Teardown, ClearHolds, BookTypes, Known
  <2>2. CASE ~Known(j)
    BY <1>1, <1>3, <2>2 DEF Removes, Teardown, BookTypes, Known, readVars
  <2> QED
    BY <2>1, <2>2
<1>4. ASSUME NEW c, TimesOut(c) \/ Settles(c)
      PROVE  records' = records /\ \A r \in RoomId : held[r] = i => held'[r] = i
  <2>1. records' = records /\ (HoldOrRelease(c) \/ UNCHANGED held)
    BY <1>4 DEF TimesOut, Settles
  <2>2. held' = held \/ (held[c.room] = Unknown /\ held' = [held EXCEPT ![c.room] = c.inst])
    BY <2>1 DEF HoldOrRelease, Hold, resVars
  <2> QED
    BY <1>1, <2>1, <2>2, UnknownAssumption DEF HoldBooks
<1>5. ASSUME \/ \E c : Issues(c)
             \/ \E j \in Instance : Polls(j)
             \/ \E p \in Process : Unplugs(p) \/ Reports(p) \/ \E c : Executes(p, c)
             \/ Aside
      PROVE  records' = records /\ held' = held
  BY <1>5 DEF Issues, Polls, Unplugs, Reports, Executes, Aside, ledger
<1> QED
  BY <1>1, <1>2, <1>3, <1>4, <1>5 DEF Move

LEMMA BooksStep ==
    ASSUME Inv, Polling, HeldFree, Unmade, [Next]_vars,
           NEW i \in Instance, NEW r \in origins[i[1]], r \notin orphaned', Kept(i, r), Known(i)'
    PROVE  BooksRoom(i, r)'
<1>1. BookTypes /\ WireTypes
  BY TypesAre DEF Polling
<1>2. i[1] \in Process /\ r \in RoomId /\ r \notin orphaned
  BY OrphansStay DEF Instance, Inv, Wires, AgentsOK
<1>3. toOrch[i] \in Seq(OrchFrames)
  BY <1>1 DEF WireTypes
<1>4. CASE Applies(i)
  <2> DEFINE m == Head(toOrch[i])
  <2>1. /\ toOrch[i] # <<>> /\ m.type = "state" /\ m.snap \in Snapshot
        /\ records' = [records EXCEPT ![i] = m.snap] /\ pending' = pending
    BY <1>4 DEF Applies
  <2>2. records'[i] = m.snap
    BY <1>1, <2>1 DEF BookTypes
  <2>3. 1 \in At(toOrch[i], "state") /\ toOrch[i][1] = m
    BY <1>3, <2>1, FirstOfQueue
  <2>4. r \in m.snap.rooms \/ \E c \in Creates(pending) : c.inst = i /\ c.room = r
    BY <2>3 DEF Kept, Will
  <2> QED
    BY <2>1, <2>2, <2>4 DEF BooksRoom, Creates
<1>5. CASE ~Applies(i)
  <2>1. records'[i] = records[i] /\ ~Removes(i)
    BY <1>5, BooksMoved DEF Removes, Teardown, Known, Inv, Books, GoneBooks
  <2>2. BooksRoom(i, r)
    BY <2>1 DEF Kept, Known
  <2>3. CASE Known(i) /\ r \in records[i].rooms
    BY <2>1, <2>3 DEF BooksRoom, Known
  <2>4. CASE held[r] = i
    BY <1>2, <1>5, <2>1, <2>4, BooksMoved DEF BooksRoom
  <2>5. ASSUME NEW c \in Creates(pending), c.inst = i, c.room = r
        PROVE  BooksRoom(i, r)'
    <3>1. CASE c \in pending'
      BY <2>5, <3>1 DEF BooksRoom, Creates
    <3>2. CASE c \notin pending'
      <4>1. Settles(c)
        BY <2>5, <3>2, SettledByAck
      <4> DEFINE m == Head(toOrch[i])
      <4>2. toOrch[i] # <<>> /\ m.type = "ack" /\ m.id = c.id /\ (m.ok => HoldOrRelease(c))
        BY <2>5, <4>1 DEF Settles
      <4>3. 1 \in At(toOrch[i], "ack") /\ toOrch[i][1] = m
        BY <1>3, <4>2, FirstOfQueue
      <4>4. m.ok
        BY <1>2, <2>5, <4>2, <4>3 DEF Unmade
      <4>5. c.op = "create" /\ held[r] = Unknown
        BY <2>5 DEF HeldFree, Creates
      <4>6. held' = [held EXCEPT ![r] = i]
        BY <2>5, <4>2, <4>4, <4>5 DEF HoldOrRelease, Hold
      <4> QED
        BY <1>2, <4>6 DEF BooksRoom, Inv, Books, HoldBooks
    <3> QED
      BY <3>1, <3>2
  <2> QED
    BY <2>2, <2>3, <2>4, <2>5 DEF BooksRoom
<1> QED
  BY <1>4, <1>5

LEMMA KeptStep ==
    ASSUME Inv, Polling, Once, HeldFree, OriginsIn, Unmade, [Next]_vars,
           NEW i \in Instance, NEW r \in origins[i[1]], r \notin orphaned', Kept(i, r)
    PROVE  Kept(i, r)'
  BY BooksStep, WillStep DEF Kept

LEMMA KnownStays ==
    ASSUME Inv, Polling, [Next]_vars, NEW i \in Instance, NEW r \in RoomId, r \notin orphaned',
           Kept(i, r), Known(i)
    PROVE  Known(i)'
<1>1. BookTypes /\ BooksRoom(i, r)
  BY TypesAre DEF Polling, Kept
<1>2. CASE Applies(i)
  BY <1>1, <1>2, UnknownAssumption DEF Applies, BookTypes, Known
<1>3. ~Removes(i)
  <2>1. \/ r \in records[i].rooms
        \/ r \in IdsOf(PendingOf(i))
        \/ r \in HeldBy(i)
    BY <1>1 DEF BooksRoom, IdsOf, Creates, PendingOf, HeldBy
  <2> QED
    BY <2>1 DEF Removes, Teardown
<1> QED
  BY <1>2, <1>3, BooksMoved DEF Known

\* The command that an agent executes.
LEMMA Executed ==
    ASSUME Inv, Polling, Once, NEW p \in Process, NEW c, Executes(p, c)
    PROVE  LET i == Conn(p)
           IN  /\ i \in Instance /\ c.inst = i
               /\ toAgent[i] # <<>> /\ toAgent'[i] = Tail(toAgent[i])
               /\ 1 \in At(toAgent[i], "cmd") /\ toAgent[i][1].cmd = c
               /\ \A d \in pending : d.id = c.id => d = c
               /\ c.op = "create" => c \in Creates(pending) \/ c.room \in orphaned
               /\ \A k \in At(toOrch[i], "ack") : toOrch[i][k].id # c.id
               /\ pending' = pending /\ orphaned' = orphaned /\ records' = records
<1> DEFINE i == Conn(p)
<1>1. i \in Instance
  BY MovedConn DEF Executes
<1>2. /\ toAgent[i] # <<>> /\ toAgent' = [toAgent EXCEPT ![i] = Tail(@)]
      /\ Head(toAgent[i]).type = "cmd" /\ Head(toAgent[i]).cmd = c
      /\ UNCHANGED <<pending, orphaned, records>>
  BY DEF Executes, ledger
<1>3. WireTypes
  BY TypesAre DEF Polling
<1>4. toAgent[i] \in Seq(AgentFrames) /\ toAgent'[i] = Tail(toAgent[i])
  BY <1>1, <1>2, <1>3 DEF WireTypes
<1>5. 1 \in At(toAgent[i], "cmd") /\ toAgent[i][1].cmd = c
  <2> HIDE DEF i
  <2> QED
    BY <1>2, <1>4, FirstOfQueue
<1>6. OnceAt(i)
  BY <1>1 DEF Once
<1>7. /\ c.inst = i
      /\ \A d \in pending : d.id = c.id => d = c
      /\ c.op = "create" => c \in pending \/ c.room \in orphaned
      /\ \A k \in At(toOrch[i], "ack") : toOrch[i][k].id # c.id
  BY <1>5, <1>6 DEF OnceAt
<1> QED
  BY <1>1, <1>2, <1>4, <1>5, <1>7 DEF Creates

\* An ack that is sent comes behind what is under way.
LEMMA AckSent ==
    ASSUME Inv, Polling, NEW p \in Process, NEW c, Executes(p, c), NEW i \in Instance
    PROVE  /\ \A k \in At(toOrch'[i], "ack") :
                \/ k \in At(toOrch[i], "ack") /\ toOrch'[i][k] = toOrch[i][k]
                \/ i = Conn(p) /\ toOrch'[i][k] = AckFrom(c) /\ \A n \in At(toOrch'[i], "state") : n < k
           /\ \A n \in At(toOrch'[i], "state") : n \in At(toOrch[i], "state") /\ toOrch'[i][n] = toOrch[i][n]
<1> DEFINE m == AckFrom(c)
           j == Conn(p)
<1>1. WireTypes /\ j \in Instance /\ Reply(j, m) /\ m.type = "ack"
  BY MovedConn, TypesAre DEF Polling, Executes, AckFrom
<1>2. toOrch[i] \in Seq(OrchFrames)
  BY <1>1 DEF WireTypes
<1> HIDE DEF m, j
<1>3. CASE toOrch'[i] = toOrch[i]
  BY <1>3
<1>4. CASE i = j /\ toOrch'[i] = Append(toOrch[i], m)
  <2>1. ASSUME NEW n \in At(toOrch'[i], "state")
        PROVE  n \in At(toOrch[i], "state") /\ toOrch'[i][n] = toOrch[i][n] /\ n < Len(toOrch[i]) + 1
    BY <1>1, <1>2, <1>4, <2>1 DEF At
  <2>2. ASSUME NEW k \in At(toOrch'[i], "ack")
        PROVE  \/ k \in At(toOrch[i], "ack") /\ toOrch'[i][k] = toOrch[i][k]
               \/ k = Len(toOrch[i]) + 1 /\ toOrch'[i][k] = m
    BY <1>1, <1>2, <1>4, <2>2 DEF At
  <2> QED
    BY <1>4, <2>1, <2>2 DEF m, j
<1>5. toOrch'[i] = toOrch[i] \/ (i = j /\ toOrch'[i] = Append(toOrch[i], m))
  BY <1>1 DEF Reply, WireTypes
<1> QED
  BY <1>3, <1>4, <1>5

LEMMA MadeIsKept ==
    ASSUME Inv, Polling, Once, NEW p \in Process, NEW c, Executes(p, c), c.op = "create", c.room \notin orphaned
    PROVE  Known(Conn(p))' /\ Kept(Conn(p), c.room)'
<1> DEFINE i == Conn(p)
<1>1. /\ i \in Instance /\ c.inst = i /\ c \in Creates(pending)
      /\ \A k \in At(toOrch[i], "ack") : toOrch[i][k].id # c.id
      /\ pending' = pending /\ records' = records
  BY Executed
<1>2. i' = i
  BY DEF Executes, Conn
<1>3. Known(i)'
  BY <1>1, <1>2 DEF Creates, Inv, Books, GoneBooks, Known
<1>4. BooksRoom(i, c.room)'
  BY <1>1, <1>2 DEF BooksRoom, Creates
<1>5. Will(i, c.room)'
  <2> HIDE DEF i
  <2> SUFFICES ASSUME NEW n \in At(toOrch'[i], "state")
               PROVE  \E d \in Creates(pending') :
                         /\ d.inst = i /\ d.room = c.room
                         /\ \A k \in At(toOrch'[i], "ack") : k < n => toOrch'[i][k].id # d.id
    BY <1>2 DEF Will, Creates
  <2>1. ASSUME NEW k \in At(toOrch'[i], "ack"), k < n
        PROVE  toOrch'[i][k].id # c.id
    <3>1. \/ k \in At(toOrch[i], "ack") /\ toOrch'[i][k] = toOrch[i][k]
          \/ n < k
      BY <1>1, AckSent
    <3>2. n \in Nat /\ k \in Nat
      BY DEF At
    <3> QED
      BY <1>1, <2>1, <3>1, <3>2
  <2> QED
    BY <1>1, <2>1 DEF Creates
<1> QED
  BY <1>3, <1>4, <1>5 DEF Kept

LEMMA HomeStep ==
    ASSUME Inv, Polling, Once, HeldFree, OriginsIn, Unmade, Home, [Next]_vars
    PROVE  Home'
<1> SUFFICES ASSUME NEW p \in Process, NEW r \in origins'[p] \ orphaned'
             PROVE  \E i \in Instance : i[1] = p /\ Known(i)' /\ Kept(i, r)'
  BY DEF Home
<1>1. r \notin orphaned
  BY OrphansStay
<1>2. CASE r \in origins[p]
  <2>1. PICK i \in Instance : i[1] = p /\ Known(i) /\ Kept(i, r)
    BY <1>1, <1>2 DEF Home
  <2>2. r \in RoomId
    BY <1>2 DEF Inv, Wires, AgentsOK
  <2>3. Kept(i, r)' /\ Known(i)'
    BY <1>2, <2>1, <2>2, KeptStep, KnownStays
  <2> QED
    BY <2>1, <2>3
<1>3. CASE r \notin origins[p]
  <2>1. \E c : Executes(p, c) /\ c.op = "create" /\ r = c.room
    BY <1>3, MadeBy
  <2> PICK c : Executes(p, c) /\ c.op = "create" /\ r = c.room
    BY <2>1
  <2>2. Known(Conn(p))' /\ Kept(Conn(p), r)'
    BY <1>1, <2>1, MadeIsKept
  <2>3. Conn(p) \in Instance /\ Conn(p)[1] = p /\ Conn(p)' = Conn(p)
    BY <2>1, MovedConn DEF Executes, Conn
  <2> QED
    BY <2>2, <2>3 DEF Known, Kept, BooksRoom, Will
<1> QED
  BY <1>2, <1>3

LEMMA FollowStep ==
    ASSUME Inv, Polling, Once, HeldFree, OriginsIn, Unmade, Follow, [Next]_vars
    PROVE  Follow'
<1> SUFFICES ASSUME NEW p \in Process, NEW r \in origins'[p] \ orphaned', current'[p] # 0
             PROVE  Kept(Conn(p), r)'
  BY DEF Follow
<1>1. r \notin orphaned /\ Move /\ AgentsOK
  BY OrphansStay, MoveStep DEF Inv, Wires
<1>2. CASE current'[p] = current[p]
  <2>1. Conn(p)' = Conn(p) /\ Conn(p) \in Instance /\ Conn(p)[1] = p
    BY <1>2, MovedConn DEF Conn
  <2>2. CASE r \in origins[p]
    <3>1. PICK i \in Instance : i = Conn(p) /\ i[1] = p /\ Kept(i, r)
      BY <1>1, <1>2, <2>1, <2>2 DEF Follow
    <3>2. r \in origins[i[1]] /\ r \notin orphaned'
      BY <2>2, <3>1
    <3>3. Kept(i, r)'
      BY <3>1, <3>2, KeptStep
    <3>4. Conn(p)' = i
      BY <2>1, <3>1
    <3> QED
      BY <3>3, <3>4 DEF Kept, Known, BooksRoom, Will
  <2>3. CASE r \notin origins[p]
    <3>1. \E c : Executes(p, c) /\ c.op = "create" /\ r = c.room
      BY <2>3, MadeBy
    <3> PICK c : Executes(p, c) /\ c.op = "create" /\ r = c.room
      BY <3>1
    <3> QED
      BY <1>1, MadeIsKept
  <2> QED
    BY <2>2, <2>3
<1>3. CASE current'[p] # current[p]
  <2>1. ~\E q \in Process : Unplugs(q)
    BY <1>1, <1>3 DEF Unplugs, AgentsOK
  <2>2. PICK i \in Instance, q \in Process :
            /\ Polls(i) /\ NextConn(q) = i /\ Unused(i) /\ current' = [current EXCEPT ![q] = connects[q] + 1]
    BY <1>1, <1>3, <2>1 DEF Move, Issues, TimesOut, Settles, Applies, Removes, Polls, Reports, Executes, Aside, agents
  <2>3. q = p /\ current'[p] = connects[p] + 1
    BY <1>1, <1>3, <2>2 DEF AgentsOK
  <2>4. Conn(p)' = i
    BY <2>2, <2>3 DEF Conn, NextConn
  <2>5. records' = records /\ toOrch'[i] = <<>> /\ ~Known(i)
    BY <2>2 DEF Polls, Unused, Inv, Books, GoneBooks
  <2>6. (~Known(i))' /\ At(toOrch'[i], "state") = {}
    BY <2>5, AtNone DEF Known
  <2> QED
    BY <2>4, <2>6 DEF Kept, Known, Will
<1> QED
  BY <1>2, <1>3

LEMMA OneHomeStep ==
    ASSUME Inv, Polling, Once, Unmade, OneHome, [Next]_vars
    PROVE  OneHome'
<1>1. ASSUME NEW p \in Process, NEW q \in Process, NEW r \in origins'[p] \cap origins'[q], p # q,
             r \notin origins[p]
      PROVE  r \in orphaned'
  <2>1. PICK c : /\ Executes(p, c) /\ c.op = "create" /\ r = c.room
                 /\ origins' = [origins EXCEPT ![p] = @ \cup {r}]
    BY <1>1, RoomsMade
  <2>2. r \in origins[q]
    BY <1>1, <2>1 DEF Inv, Wires, AgentsOK
  <2>3. /\ c \in Creates(pending) \/ r \in orphaned
        /\ c.inst = Conn(p) /\ 1 \in At(toAgent[Conn(p)], "cmd") /\ toAgent[Conn(p)][1].cmd = c
        /\ orphaned' = orphaned
    BY <2>1, Executed
  <2> QED
    BY <1>1, <2>1, <2>2, <2>3 DEF Unmade
<1>2. ASSUME NEW p \in Process, NEW q \in Process, NEW r \in origins'[p] \cap origins'[q], p # q,
             r \in origins[p], r \in origins[q]
      PROVE  r \in orphaned'
  BY <1>2, OrphansStay DEF OneHome
<1> QED
  BY <1>1, <1>2 DEF OneHome

\* Where the commands and acks of a queue come from.
LEMMA FramesFrom ==
    ASSUME Inv, Polling, Once, [Next]_vars, NEW i \in Instance
    PROVE  /\ \A n \in At(toAgent'[i], "cmd") :
                \/ \E k \in At(toAgent[i], "cmd") : toAgent[i][k] = toAgent'[i][n]
                \/ \E d : Issues(d) /\ d.inst = i /\ toAgent'[i][n].cmd = d
           /\ \A n \in At(toOrch'[i], "ack") :
                \/ \E k \in At(toOrch[i], "ack") : toOrch[i][k] = toOrch'[i][n]
                \/ \E p \in Process : \E d : Executes(p, d) /\ toOrch'[i][n].id = d.id /\ toOrch'[i][n] = AckFrom(d)
<1>1. BookTypes /\ WireTypes /\ Move
  BY TypesAre, MoveStep DEF Polling
<1>2. toAgent[i] \in Seq(AgentFrames) /\ toOrch[i] \in Seq(OrchFrames)
  BY <1>1 DEF WireTypes
<1>3. ASSUME NEW q, NEW later, NEW t, Fewer(q, later, t), NEW n \in At(later, t)
      PROVE  \E k \in At(q, t) : q[k] = later[n]
  BY <1>3 DEF Fewer
<1>4. ASSUME NEW d, Issues(d)
      PROVE  /\ toOrch' = toOrch
             /\ \A n \in At(toAgent'[i], "cmd") :
                  \/ \E k \in At(toAgent[i], "cmd") : toAgent[i][k] = toAgent'[i][n]
                  \/ d.inst = i /\ toAgent'[i][n].cmd = d
  <2> DEFINE m == CmdFrame(d)
  <2>1. toOrch' = toOrch /\ m.cmd = d
        /\ ((d.inst = i /\ toAgent'[i] = Append(toAgent[i], m)) \/ toAgent'[i] = toAgent[i])
    BY <1>1, <1>4 DEF Issues, WireTypes, CmdFrame
  <2> HIDE DEF m
  <2>2. ASSUME NEW n \in At(Append(toAgent[i], m), "cmd")
        PROVE  \/ n \in At(toAgent[i], "cmd") /\ Append(toAgent[i], m)[n] = toAgent[i][n]
               \/ Append(toAgent[i], m)[n] = m
    BY <1>2, <2>2 DEF At
  <2> QED
    BY <2>1, <2>2
<1>5. ASSUME NEW p \in Process, NEW d, Executes(p, d)
      PROVE  /\ \A n \in At(toAgent'[i], "cmd") : \E k \in At(toAgent[i], "cmd") : toAgent[i][k] = toAgent'[i][n]
             /\ \A n \in At(toOrch'[i], "ack") :
                  \/ \E k \in At(toOrch[i], "ack") : toOrch[i][k] = toOrch'[i][n]
                  \/ toOrch'[i][n].id = d.id /\ toOrch'[i][n] = AckFrom(d)
  <2>1. Conn(p) \in Instance /\ toAgent[Conn(p)] # <<>> /\ toAgent' = [toAgent EXCEPT ![Conn(p)] = Tail(@)]
    BY <1>5, MovedConn DEF Executes
  <2>2. (toAgent'[i] = Tail(toAgent[i]) /\ toAgent[i] # <<>>) \/ toAgent'[i] = toAgent[i]
    BY <1>1, <2>1 DEF WireTypes
  <2>3. Fewer(toAgent[i], toAgent'[i], "cmd")
    BY <1>2, <2>2, FewerSame, FewerTail
  <2>4. AckFrom(d).id = d.id
    BY DEF AckFrom
  <2>5. \A n \in At(toOrch'[i], "ack") :
           \/ n \in At(toOrch[i], "ack") /\ toOrch'[i][n] = toOrch[i][n]
           \/ toOrch'[i][n] = AckFrom(d)
    BY <1>5, AckSent
  <2> QED
    BY <1>3, <2>3, <2>4, <2>5
<1>6. ASSUME \/ \E c : TimesOut(c) \/ Settles(c)
             \/ \E j \in Instance : Applies(j) \/ Removes(j) \/ Polls(j)
             \/ \E p \in Process : Unplugs(p) \/ Reports(p)
             \/ Aside
      PROVE  Fewer(toAgent[i], toAgent'[i], "cmd") /\ Fewer(toOrch[i], toOrch'[i], "ack")
  <2>1. \A c : Settles(c) => c.inst \in Instance
    BY <1>1 DEF Settles, BookTypes, Cmd
  <2>2. \A p \in Process : Reports(p) => Conn(p) \in Instance
    BY MovedConn DEF Reports
  <2> QED
    BY <1>1, <1>6, <2>1, <2>2, FewerFrames
<1> QED
  BY <1>1, <1>3, <1>4, <1>5, <1>6 DEF Move

\* A create that is issued takes an id that no room has.
LEMMA IssuedIsNew ==
    ASSUME Inv, Home, NEW c \in Creates(pending'), Issues(c), NEW q \in Process
    PROVE  c.room \notin origins[q] \ orphaned
<1> SUFFICES ASSUME c.room \in origins[q] \ orphaned
             PROVE  FALSE
  OBVIOUS
<1>1. c.room \in FreeRoomIds
  BY DEF Issues, Creates
<1>2. PICK i \in Instance : Known(i) /\ BooksRoom(i, c.room)
  BY DEF Home, Kept
<1>3. i # Unknown
  BY UnknownAssumption
<1> QED
  BY <1>1, <1>2, <1>3 DEF BooksRoom, FreeRoomIds, IsRoomIdTaken, Inv, Books, PendBooks, IdsOf

LEMMA UnmadeStep ==
    ASSUME Inv, Polling, Once, Unmade, Home, [Next]_vars
    PROVE  Unmade'
<1> SUFFICES ASSUME NEW c \in Creates(pending'), NEW q \in Process, c.room \in origins'[q] \ orphaned'
             PROVE  /\ \A n \in At(toAgent'[c.inst], "cmd") : toAgent'[c.inst][n].cmd # c
                    /\ \A k \in At(toOrch'[c.inst], "ack") : toOrch'[c.inst][k].id = c.id => toOrch'[c.inst][k].ok
  BY DEF Unmade, Creates
<1>1. BookTypes /\ WireTypes /\ Move /\ c.room \notin orphaned
  BY TypesAre, MoveStep, OrphansStay DEF Polling
<1>2. c \in Creates(pending)
  <2>1. ASSUME NEW d, Issues(d)
        PROVE  c # d
    <3>1. origins' = origins
      BY <2>1 DEF Issues, agents
    <3> QED
      BY <1>1, <2>1, <3>1, IssuedIsNew
  <2>2. (\E d : Issues(d) /\ pending' = pending \cup {d}) \/ pending' \subseteq pending
    BY <1>1 DEF Move, Issues, TimesOut, Settles, Applies, Removes, Teardown, RejectAll, Polls, Unplugs, Reports, Executes, Aside, ledger
  <2> QED
    BY <2>1, <2>2 DEF Creates
<1>3. c.inst \in Instance /\ c.id \in Nat /\ c.id <= cmdSeq
  BY <1>1, <1>2 DEF BookTypes, Cmd, Creates, Once
<1>4. CASE c.room \in origins[q]
  <2>1. /\ \A n \in At(toAgent[c.inst], "cmd") : toAgent[c.inst][n].cmd # c
        /\ \A k \in At(toOrch[c.inst], "ack") : toOrch[c.inst][k].id = c.id => toOrch[c.inst][k].ok
    BY <1>1, <1>2, <1>4 DEF Unmade
  <2>2. ASSUME NEW d, Issues(d) PROVE d # c
    <3>1. d.id = cmdSeq + 1 /\ cmdSeq \in Nat
      BY <1>1, <2>2, FleetAssumption DEF Issues, BookTypes
    <3> QED
      BY <1>3, <3>1
  <2>3. ASSUME NEW p \in Process, NEW d, Executes(p, d) PROVE d.id # c.id
    <3>1. /\ \A e \in pending : e.id = d.id => e = d
          /\ d.inst = Conn(p) /\ 1 \in At(toAgent[Conn(p)], "cmd") /\ toAgent[Conn(p)][1].cmd = d
      BY <2>3, Executed
    <3>2. c \in pending
      BY <1>2 DEF Creates
    <3> QED
      BY <2>1, <3>1, <3>2
  <2> QED
    BY <1>3, <2>1, <2>2, <2>3, FramesFrom
<1>5. CASE c.room \notin origins[q]
  <2>1. c.room \in origins'[q] \ origins[q]
    BY <1>5
  <2>2. \E d : Executes(q, d) /\ d.op = "create" /\ c.room = d.room /\ AckFrom(d).ok = TRUE
    BY <2>1, RoomsMade
  <2> PICK d : Executes(q, d) /\ d.op = "create" /\ c.room = d.room /\ AckFrom(d).ok = TRUE
    BY <2>2
  <2>3. /\ d.inst = Conn(q) /\ (d \in Creates(pending) \/ d.room \in orphaned)
        /\ toAgent[Conn(q)] # <<>> /\ toAgent'[Conn(q)] = Tail(toAgent[Conn(q)])
        /\ 1 \in At(toAgent[Conn(q)], "cmd") /\ toAgent[Conn(q)][1].cmd = d
        /\ \A k \in At(toOrch[Conn(q)], "ack") : toOrch[Conn(q)][k].id # d.id
    BY Executed
  <2>4. d = c
    BY <1>1, <1>2, <2>3 DEF Inv, Books, PendBooks
  <2> DEFINE i == c.inst
  <2>5. i = Conn(q) /\ i \in Instance
    BY <1>3, <2>3, <2>4, Executed
  <2>6. ASSUME NEW n \in At(toAgent'[i], "cmd"), toAgent'[i][n].cmd = c
        PROVE  FALSE
    <3>1. toAgent[i] \in Seq(AgentFrames) /\ toAgent[i] # <<>> /\ toAgent'[i] = Tail(toAgent[i])
      BY <1>1, <2>3, <2>5 DEF WireTypes
    <3>2. n + 1 \in At(toAgent[i], "cmd") /\ toAgent[i][n + 1].cmd = c /\ n \in Nat /\ n # 0
      BY <2>6, <3>1 DEF At
    <3>3. 1 \in At(toAgent[i], "cmd") /\ toAgent[i][1].cmd = c
      BY <2>3, <2>4, <2>5
    <3>4. n + 1 = 1
      BY <2>5, <3>2, <3>3 DEF Once, OnceAt
    <3> QED
      BY <3>2, <3>4
  <2>7. ASSUME NEW k \in At(toOrch'[i], "ack"), toOrch'[i][k].id = c.id
        PROVE  toOrch'[i][k].ok
    <3>1. \/ k \in At(toOrch[i], "ack") /\ toOrch'[i][k] = toOrch[i][k]
          \/ toOrch'[i][k] = AckFrom(c)
      BY <2>4, <2>5, AckSent
    <3> QED
      BY <2>3, <2>4, <2>5, <2>7, <3>1
  <2> QED
    BY <2>6, <2>7
<1> QED
  BY <1>4, <1>5

LEMMA PlacedInit == Init => Placed
<1> SUFFICES ASSUME Init PROVE Placed
  OBVIOUS
<1>1. pending = {} /\ Creates(pending) = {}
  BY DEF Init, Creates
<1>2. ASSUME NEW p \in Process PROVE origins[p] = {} /\ rooms[p] = {}
  BY DEF Init
<1>3. ASSUME NEW i \in Instance PROVE At(toAgent[i], "cmd") = {} /\ At(toOrch[i], "ack") = {}
  BY AtNone DEF Init
<1>4. Once
  BY <1>1, <1>3 DEF Once, OnceAt
<1> QED
  BY <1>1, <1>2, <1>4 DEF Placed, HeldFree, OriginsIn, Unmade, Home, Follow, OneHome

LEMMA PlacedStep == Inv /\ Polling /\ Placed /\ [Next]_vars => Placed'
  BY OnceStep, HeldFreeStep, OriginsInStep, UnmadeStep, HomeStep, FollowStep, OneHomeStep DEF Placed

\* What a reporting agent has or will have is accounted for.
LEMMA PlacedAccounts == Inv /\ Polling /\ Placed => EveryRoomAccounted
<1> SUFFICES ASSUME Inv, Polling, Placed, NEW p \in Process, Reporting(p),
                    NEW r \in origins[p] \cup IdsOf(Queued(Conn(p))), r \notin orphaned
             PROVE  \/ r \in records[Conn(p)].rooms
                    \/ r \in IdsOf(PendingOf(Conn(p)))
                    \/ held[r] = Conn(p)
  BY DEF EveryRoomAccounted
<1>1. Conn(p) \in Instance /\ current[p] # 0 /\ Known(Conn(p))
  BY MovedConn DEF Reporting
<1>2. CASE r \in origins[p]
  BY <1>1, <1>2 DEF Placed, Follow, Kept, BooksRoom, IdsOf, Creates, PendingOf
<1>3. CASE r \in IdsOf(Queued(Conn(p)))
  <2> DEFINE i == Conn(p)
  <2>1. PICK n \in At(toAgent[i], "cmd") : toAgent[i][n].cmd.op = "create" /\ toAgent[i][n].cmd.room = r
    BY <1>3 DEF IdsOf, Creates, Queued, At
  <2>2. toAgent[i][n].cmd \in pending /\ toAgent[i][n].cmd.inst = i
    BY <1>1, <2>1 DEF Placed, Once, OnceAt
  <2> QED
    BY <2>1, <2>2 DEF IdsOf, Creates, PendingOf
<1> QED
  BY <1>2, <1>3

LEMMA AlwaysPlaced == Spec => [](Inv /\ Polling /\ Placed)
<1>1. Init => Inv /\ Polling /\ Placed
  BY InitInv, PollingInit, PlacedInit
<1>2. Inv /\ Polling /\ Placed /\ [Next]_vars => (Inv /\ Polling /\ Placed)'
  BY PollingStep, PlacedStep
<1> QED
  BY <1>1, <1>2, PTL DEF Spec

\* FleetState never loses a fleet room that is, or is about to be, at a reporting agent: it
\* is in the snapshot, reserved or held, whatever order acks, replies, timeouts and
\* disconnects come in.
THEOREM EveryRoomAlwaysAccounted == Spec => []EveryRoomAccounted
  BY AlwaysPlaced, PlacedAccounts, PTL

\* No room id is ever created on two instances, unless a create of it was settled without an
\* answer or its instance was disconnected.
THEOREM AlwaysOneHome == Spec => []OneHome
<1>1. Placed => OneHome
  BY DEF Placed
<1> QED
  BY <1>1, AlwaysPlaced, PTL

-----------------------------------------------------------------------------
(* Capacity.                                                               *)

\* The rooms there are, reported or recorded are finitely many, and an agent has no more
\* fleet rooms than its capacity.
RoomsFinite ==
    \A p \in Process : IsFiniteSet(rooms[p]) /\ Cardinality(origins[p]) <= MaxRooms
ReportsFinite ==
    \A i \in Instance :
        /\ Known(i) => IsFiniteSet(records[i].rooms)
        /\ \A n \in At(toOrch[i], "state") : IsFiniteSet(toOrch[i][n].snap.rooms)

LEMMA RoomsFiniteStep ==
    ASSUME Inv, Polling, OriginsIn, RoomsFinite, [Next]_vars
    PROVE  RoomsFinite'
<1>1. Move /\ AgentsOK
  BY MoveStep DEF Inv, Wires
<1> SUFFICES ASSUME NEW p \in Process
             PROVE  IsFiniteSet(rooms'[p]) /\ Cardinality(origins'[p]) <= MaxRooms
  BY DEF RoomsFinite
<1>2. /\ IsFiniteSet(rooms[p]) /\ origins[p] \in SUBSET rooms[p] /\ IsFiniteSet(origins[p])
      /\ Cardinality(origins[p]) \in Nat /\ Cardinality(rooms[p]) \in Nat
      /\ Cardinality(origins[p]) <= Cardinality(rooms[p])
      /\ Cardinality(origins[p]) <= MaxRooms
  BY FS_Subset, FS_CardinalityType DEF RoomsFinite, OriginsIn
<1>3. \/ UNCHANGED <<rooms, origins>>
      \/ \E q \in Process : \E r : \/ rooms' = [rooms EXCEPT ![q] = @ \cup {r}] /\ UNCHANGED origins
                                  \/ ExecDestroy(q, r) \/ ExecCreate(q, r)
  BY <1>1 DEF Move, Issues, TimesOut, Settles, Applies, Removes, Polls, Unplugs, Reports, Executes, Aside, agents
<1>4. \E r : rooms'[p] \subseteq rooms[p] \cup {r}
  BY <1>1, <1>3 DEF ExecDestroy, ExecCreate, AgentsOK
<1>5. IsFiniteSet(rooms'[p])
  <2>1. PICK r : rooms'[p] \in SUBSET (rooms[p] \cup {r})
    BY <1>4
  <2>2. IsFiniteSet(rooms[p] \cup {r})
    BY <1>2, FS_AddElement
  <2> QED
    BY <2>1, <2>2, FS_Subset
<1>6. \/ origins'[p] \in SUBSET origins[p]
      \/ \E r : origins'[p] = origins[p] \cup {r} /\ Cardinality(rooms[p]) < MaxRooms
  BY <1>1, <1>3 DEF ExecDestroy, ExecCreate, AgentsOK
<1>7. CASE origins'[p] \in SUBSET origins[p]
  <2>1. Cardinality(origins'[p]) \in Nat /\ Cardinality(origins'[p]) <= Cardinality(origins[p])
    BY <1>2, <1>7, FS_Subset, FS_CardinalityType
  <2> QED
    BY <1>2, <1>5, <2>1, FleetAssumption
<1>8. ASSUME NEW r, origins'[p] = origins[p] \cup {r}, Cardinality(rooms[p]) < MaxRooms
      PROVE  Cardinality(origins'[p]) <= MaxRooms
  <2>1. Cardinality(origins'[p]) \in {Cardinality(origins[p]), Cardinality(origins[p]) + 1}
    BY <1>2, <1>8, FS_AddElement
  <2> QED
    BY <1>2, <1>8, <2>1, FleetAssumption
<1> QED
  BY <1>5, <1>6, <1>7, <1>8

\* Where the snapshots of a queue come from.
LEMMA StatesFrom ==
    ASSUME Inv, Polling, [Next]_vars, NEW i \in Instance, NEW n \in At(toOrch'[i], "state")
    PROVE  \/ \E k \in At(toOrch[i], "state") : toOrch[i][k] = toOrch'[i][n]
           \/ \E p \in Process : toOrch'[i][n].snap = Snap(p)
<1>1. BookTypes /\ WireTypes /\ Move
  BY TypesAre, MoveStep DEF Polling
<1>2. toOrch[i] \in Seq(OrchFrames)
  BY <1>1 DEF WireTypes
<1>3. CASE toOrch'[i] = toOrch[i]
  BY <1>3
<1>4. CASE toOrch[i] # <<>> /\ toOrch'[i] = Tail(toOrch[i])
  BY <1>2, <1>4 DEF At
<1>5. CASE toOrch'[i] = <<>>
  BY <1>5, AtNone
<1>6. ASSUME NEW p \in Process, NEW m, m.snap = Snap(p), toOrch'[i] = Append(toOrch[i], m)
      PROVE  \/ \E k \in At(toOrch[i], "state") : toOrch[i][k] = toOrch'[i][n]
             \/ toOrch'[i][n].snap = Snap(p)
  <2>1. \/ n \in At(toOrch[i], "state") /\ toOrch'[i][n] = toOrch[i][n]
        \/ toOrch'[i][n] = m
    BY <1>2, <1>6 DEF At
  <2> QED
    BY <1>6, <2>1
<1>7. ASSUME NEW j \in Instance, toOrch[j] # <<>>, toOrch' = [toOrch EXCEPT ![j] = Tail(@)]
      PROVE  toOrch'[i] = toOrch[i] \/ (toOrch[i] # <<>> /\ toOrch'[i] = Tail(toOrch[i]))
  BY <1>1, <1>7 DEF WireTypes
<1>8. ASSUME NEW c, Settles(c)
      PROVE  toOrch'[i] = toOrch[i] \/ (toOrch[i] # <<>> /\ toOrch'[i] = Tail(toOrch[i]))
  BY <1>1, <1>7, <1>8 DEF Settles, BookTypes, Cmd
<1>9. ASSUME NEW j \in Instance, Applies(j)
      PROVE  toOrch'[i] = toOrch[i] \/ (toOrch[i] # <<>> /\ toOrch'[i] = Tail(toOrch[i]))
  BY <1>7, <1>9 DEF Applies
<1>10. ASSUME NEW j \in Instance, Removes(j)
       PROVE  toOrch'[i] = toOrch[i] \/ toOrch'[i] = <<>>
  BY <1>1, <1>10 DEF Removes, Teardown, WireTypes
<1>11. ASSUME NEW p \in Process, Reports(p)
       PROVE  \/ toOrch'[i] = toOrch[i]
              \/ \E m : m.snap = Snap(p) /\ toOrch'[i] = Append(toOrch[i], m)
  <2> DEFINE m == StateFrom(p, Head(toAgent[Conn(p)]))
             j == Conn(p)
  <2>1. Reply(j, m) /\ m.snap = Snap(p)
    BY <1>11 DEF Reports, StateFrom
  <2> HIDE DEF m, j
  <2>2. toOrch'[i] = Append(toOrch[i], m) \/ toOrch'[i] = toOrch[i]
    BY <1>1, <2>1 DEF WireTypes, Reply
  <2> QED
    BY <2>1, <2>2
<1>12. ASSUME NEW p \in Process, NEW c, Executes(p, c)
       PROVE  \E k \in At(toOrch[i], "state") : toOrch[i][k] = toOrch'[i][n]
  BY <1>12, AckSent
<1>13. ASSUME \/ \E c : Issues(c) \/ TimesOut(c)
              \/ \E j \in Instance : Polls(j)
              \/ \E p \in Process : Unplugs(p)
              \/ Aside
       PROVE  toOrch' = toOrch
  BY <1>13 DEF Issues, TimesOut, Polls, Unplugs, Aside
<1> QED
  BY <1>1, <1>3, <1>4, <1>5, <1>6, <1>8, <1>9, <1>10, <1>11, <1>12, <1>13 DEF Move

LEMMA ReportsFiniteStep ==
    ASSUME Inv, Polling, RoomsFinite, ReportsFinite, [Next]_vars
    PROVE  ReportsFinite'
<1> SUFFICES ASSUME NEW i \in Instance
             PROVE  /\ Known(i)' => IsFiniteSet(records'[i].rooms)
                    /\ \A n \in At(toOrch'[i], "state") : IsFiniteSet(toOrch'[i][n].snap.rooms)
  BY DEF ReportsFinite, Known
<1>1. BookTypes /\ WireTypes
  BY TypesAre DEF Polling
<1>2. \A p \in Process : IsFiniteSet(Snap(p).rooms)
  BY DEF RoomsFinite, Snap
<1>3. \A n \in At(toOrch'[i], "state") : IsFiniteSet(toOrch'[i][n].snap.rooms)
  BY <1>2, StatesFrom DEF ReportsFinite
<1>4. CASE Applies(i)
  <2>1. 1 \in At(toOrch[i], "state") /\ toOrch[i][1] = Head(toOrch[i]) /\ records'[i] = Head(toOrch[i]).snap
    BY <1>1, <1>4, FirstOfQueue DEF WireTypes, BookTypes, Applies
  <2> QED
    BY <1>3, <2>1 DEF ReportsFinite
<1>5. CASE ~Applies(i)
  BY <1>3, <1>5, BooksMoved DEF ReportsFinite, Known
<1> QED
  BY <1>4, <1>5

\* The fleet rooms that an agent has or is to make, and that nobody has given up on.
Due(p) == (origins[p] \cup IdsOf(Queued(Conn(p)))) \ orphaned
Fits == \A p \in Process : current[p] # 0 => IsFiniteSet(Due(p)) /\ Cardinality(Due(p)) <= MaxRooms

\* An instance that placement may choose has a slot left, whatever is due to it.
LEMMA CandidateHasRoom ==
    ASSUME Inv, Polling, Placed, ReportsFinite, NEW p \in Process, current[p] # 0, Conn(p) \in Candidates
    PROVE  IsFiniteSet(Due(p)) /\ Cardinality(Due(p)) < MaxRooms
<1> DEFINE i == Conn(p)
           A == records[i].rooms
           C == Creates(PendingOf(i))
           B == IdsOf(PendingOf(i))
           H == HeldBy(i)
<1>1. i \in Instance /\ Known(i) /\ i \in links /\ HasHeadroom(i)
  BY DEF Candidates, Inv, Books, GoneBooks
<1>2. \A r \in origins[p] \cup IdsOf(Queued(Conn(p))) : r \in A \/ r \in B \/ held[r] = i \/ r \in orphaned
  BY <1>1, PlacedAccounts DEF Reporting, EveryRoomAccounted
<1>3. origins[p] \cup IdsOf(Queued(i)) \subseteq RoomId
  <2>1. origins[p] \subseteq RoomId
    BY DEF Inv, Wires, AgentsOK
  <2>2. ASSUME NEW n \in At(toAgent[i], "cmd"), toAgent[i][n].cmd.op = "create"
        PROVE  toAgent[i][n].cmd.room \in RoomId
    <3>1. PICK F : /\ toAgent \in [Instance -> Seq(F)]
                   /\ \A m \in F : m.type = "cmd" => Issued(m.cmd)
      BY DEF Inv, Wires, ToAgentOK
    <3>2. toAgent[i][n] \in F /\ toAgent[i][n].type = "cmd"
      BY <1>1, <2>2, <3>1 DEF At
    <3> QED
      BY <2>2, <3>1, <3>2 DEF Issued
  <2> QED
    BY <2>1, <2>2 DEF IdsOf, Creates, Queued, At
<1>4. Due(p) \in SUBSET ((A \cup B) \cup H)
  BY <1>2, <1>3 DEF Due, HeldBy
<1>5. IsFiniteSet(A) /\ IsFiniteSet(C) /\ IsFiniteSet(H)
  BY <1>1, Unreserved DEF ReportsFinite, Inv, Books, HoldBooks
<1>6. IsFiniteSet(B) /\ Cardinality(B) <= Cardinality(C)
  <2> DEFINE f == [c \in C |-> c.room]
  <2>1. f \in Surjection(C, B)
    BY DEF Surjection, IdsOf
  <2> HIDE DEF f, B, C
  <2> QED
    BY <1>5, <2>1, FS_Surjection
<1>7. reserved[i] = Cardinality(C) /\ heldCount[i] = Cardinality(H)
  BY <1>1 DEF Inv, Books, PendBooks, HoldBooks
<1>8. Cardinality(A) + Cardinality(C) + Cardinality(H) < MaxRooms
  BY <1>1, <1>7 DEF HasHeadroom
<1> HIDE DEF A, B, C, H, i
<1>9. /\ IsFiniteSet(A \cup B) /\ Cardinality(A \cup B) = Cardinality(A) + Cardinality(B) - Cardinality(A \cap B)
      /\ Cardinality(A \cap B) \in Nat
  <2>1. IsFiniteSet(A \cap B)
    BY <1>5, FS_Subset
  <2> QED
    BY <1>5, <1>6, <2>1, FS_Union, FS_CardinalityType
<1>10. /\ IsFiniteSet((A \cup B) \cup H)
       /\ Cardinality((A \cup B) \cup H) = Cardinality(A \cup B) + Cardinality(H) - Cardinality((A \cup B) \cap H)
       /\ Cardinality((A \cup B) \cap H) \in Nat
  <2>1. IsFiniteSet((A \cup B) \cap H)
    BY <1>5, FS_Subset
  <2> QED
    BY <1>5, <1>9, <2>1, FS_Union, FS_CardinalityType
<1>11. IsFiniteSet(Due(p)) /\ Cardinality(Due(p)) <= Cardinality((A \cup B) \cup H)
  BY <1>4, <1>10, FS_Subset
<1>12. Cardinality(A) \in Nat /\ Cardinality(B) \in Nat /\ Cardinality(C) \in Nat /\ Cardinality(H) \in Nat
       /\ Cardinality(Due(p)) \in Nat
  BY <1>5, <1>6, <1>11, FS_CardinalityType
<1>13. Cardinality((A \cup B) \cup H) <= Cardinality(A) + Cardinality(C) + Cardinality(H)
  BY <1>6, <1>9, <1>10, <1>12
<1>14. MaxRooms \in Nat /\ Cardinality((A \cup B) \cup H) \in Nat
  BY <1>10, FleetAssumption, FS_CardinalityType
<1> QED
  BY <1>8, <1>11, <1>12, <1>13, <1>14

LEMMA FitsStep ==
    ASSUME Pins = FALSE, Inv, Polling, Placed, RoomsFinite, ReportsFinite, Fits, [Next]_vars
    PROVE  Fits'
<1> SUFFICES ASSUME NEW p \in Process, current'[p] # 0
             PROVE  IsFiniteSet(Due(p)') /\ Cardinality(Due(p)') <= MaxRooms
  BY DEF Fits
<1>1. Move /\ AgentsOK /\ WireTypes /\ orphaned \subseteq orphaned' /\ MaxRooms \in Nat
  BY MoveStep, OrphansStay, TypesAre, FleetAssumption DEF Inv, Wires, Polling
<1>2. ASSUME NEW S, Due(p)' \in SUBSET S, IsFiniteSet(S), Cardinality(S) <= MaxRooms
      PROVE  IsFiniteSet(Due(p)') /\ Cardinality(Due(p)') <= MaxRooms
  BY <1>1, <1>2, FS_Subset, FS_CardinalityType
<1>3. CASE current'[p] = current[p]
  <2>1. Conn(p) \in Instance /\ Conn(p)' = Conn(p) /\ current[p] # 0
    BY <1>3, MovedConn DEF Conn
  <2>2. IsFiniteSet(Due(p)) /\ Cardinality(Due(p)) <= MaxRooms /\ Once
    BY <2>1 DEF Fits, Placed
  <2>3. ASSUME NEW r \in IdsOf(Queued(Conn(p)))', r \notin IdsOf(Queued(Conn(p)))
        PROVE  \E c : Issues(c) /\ c.inst = Conn(p) /\ c.op = "create" /\ r = c.room
    <3>1. PICK i \in Instance : i = Conn(p) /\ i = Conn(p)'
      BY <2>1
    <3>2. PICK n \in At(toAgent'[i], "cmd") : toAgent'[i][n].cmd.op = "create" /\ toAgent'[i][n].cmd.room = r
      BY <2>3, <3>1 DEF IdsOf, Creates, Queued, At
    <3>3. ~\E k \in At(toAgent[i], "cmd") : toAgent[i][k] = toAgent'[i][n]
      BY <2>3, <3>1, <3>2 DEF IdsOf, Creates, Queued, At
    <3>4. \E d : Issues(d) /\ d.inst = i /\ toAgent'[i][n].cmd = d
      BY <2>2, <3>3, FramesFrom
    <3> QED
      BY <3>1, <3>2, <3>4
  <2>4. ASSUME NEW r \in origins'[p], r \notin origins[p]
        PROVE  r \in IdsOf(Queued(Conn(p)))
    <3>1. \E c : Executes(p, c) /\ c.op = "create" /\ r = c.room
      BY <2>4, MadeBy
    <3> PICK c : Executes(p, c) /\ c.op = "create" /\ r = c.room
      BY <3>1
    <3>2. 1 \in At(toAgent[Conn(p)], "cmd") /\ toAgent[Conn(p)][1].cmd = c
      BY <2>2, Executed
    <3> QED
      BY <3>2 DEF IdsOf, Creates, Queued, At
  <2>5. ASSUME NEW c, Issues(c), c.inst = Conn(p), c.op = "create"
        PROVE  IsFiniteSet(Due(p)') /\ Cardinality(Due(p)') <= MaxRooms
    <3>1. /\ c.inst \in Candidates /\ pending' = pending \cup {c} /\ c.id = cmdSeq + 1
          /\ origins' = origins /\ cmdSeq \in Nat
      BY <2>5, FleetAssumption, TypesAre DEF Issues, agents, Polling, BookTypes
    <3>2. ASSUME NEW d, Issues(d) PROVE d = c
      <4>1. d \in pending'
        BY <3>2 DEF Issues
      <4>2. d.id = cmdSeq + 1 /\ \A e \in pending : e.id \in Nat /\ e.id <= cmdSeq
        BY <2>2, <3>2, TypesAre DEF Issues, Once, Polling, BookTypes, Cmd
      <4> QED
        BY <3>1, <4>1, <4>2
    <3>3. IsFiniteSet(Due(p)) /\ Cardinality(Due(p)) < MaxRooms
      BY <2>1, <2>5, <3>1, CandidateHasRoom
    <3>4. Due(p)' \in SUBSET (Due(p) \cup {c.room})
      BY <1>1, <2>3, <3>1, <3>2 DEF Due
    <3>5. IsFiniteSet(Due(p) \cup {c.room}) /\ Cardinality(Due(p) \cup {c.room}) <= MaxRooms
      <4> DEFINE D == Due(p)
      <4>1. IsFiniteSet(D) /\ Cardinality(D) \in Nat /\ Cardinality(D) < MaxRooms
        BY <3>3, FS_CardinalityType
      <4> HIDE DEF D
      <4>2. IsFiniteSet(D \cup {c.room}) /\ Cardinality(D \cup {c.room}) \in {Cardinality(D), Cardinality(D) + 1}
        BY <4>1, FS_AddElement
      <4>3. Cardinality(D \cup {c.room}) <= MaxRooms
        BY <1>1, <4>1, <4>2
      <4> QED
        BY <4>2, <4>3 DEF D
    <3> QED
      BY <1>2, <3>4, <3>5
  <2>6. CASE ~\E c : Issues(c) /\ c.inst = Conn(p) /\ c.op = "create"
    <3>1. Due(p)' \in SUBSET Due(p)
      BY <1>1, <2>3, <2>4, <2>6 DEF Due
    <3> QED
      BY <1>2, <2>2, <3>1
  <2> QED
    BY <2>5, <2>6
<1>4. CASE current'[p] # current[p]
  <2>1. ~\E q \in Process : Unplugs(q)
    BY <1>1, <1>4 DEF Unplugs, AgentsOK
  <2>2. PICK i \in Instance, q \in Process :
            /\ Polls(i) /\ NextConn(q) = i /\ Unused(i) /\ current' = [current EXCEPT ![q] = connects[q] + 1]
    BY <1>1, <1>4, <2>1 DEF Move, Issues, TimesOut, Settles, Applies, Removes, Polls, Reports, Executes, Aside, agents
  <2>3. Conn(p)' = i
    BY <1>1, <1>4, <2>2 DEF AgentsOK, Conn, NextConn
  <2>4. PICK m : m.type = "poll" /\ toAgent' = [toAgent EXCEPT ![i] = Append(@, m)]
    BY <2>2 DEF Polls
  <2>5. toAgent'[i] = Append(<<>>, m) /\ origins' = origins
    BY <1>1, <2>2, <2>4 DEF Unused, Polls, WireTypes
  <2>6. At(toAgent'[i], "cmd") = {}
    BY <2>4, <2>5 DEF At
  <2>7. IdsOf(Queued(Conn(p)))' = {}
    BY <2>3, <2>6 DEF IdsOf, Creates, Queued, At
  <2>8. Due(p)' \in SUBSET origins[p]
    BY <2>5, <2>7 DEF Due
  <2>9. IsFiniteSet(origins[p]) /\ Cardinality(origins[p]) <= MaxRooms
    BY FS_Subset DEF RoomsFinite, Placed, OriginsIn
  <2> QED
    BY <1>2, <2>8, <2>9
<1> QED
  BY <1>3, <1>4

LEMMA CapacityInit == Init => RoomsFinite /\ ReportsFinite /\ Fits
<1> SUFFICES ASSUME Init PROVE RoomsFinite /\ ReportsFinite /\ Fits
  OBVIOUS
<1>1. ASSUME NEW p \in Process
      PROVE  rooms[p] = {} /\ origins[p] = {} /\ current[p] = 0
  BY DEF Init
<1>2. RoomsFinite
  BY <1>1, FS_EmptySet, FleetAssumption DEF RoomsFinite
<1>3. ASSUME NEW i \in Instance
      PROVE  ~Known(i) /\ At(toOrch[i], "state") = {}
  BY AtNone DEF Init, Known
<1> QED
  BY <1>1, <1>2, <1>3 DEF ReportsFinite, Fits

\* As long as no client forces a placement, what the orchestrator promises it can keep: no
\* room id is created on two instances, and a create that was placed finds a slot when it
\* reaches its agent (FleetState.place, reserve, holdUntilVisible; FleetAgent.execCreate).
THEOREM PlacementsAlwaysSound ==
    ASSUME Pins = FALSE
    PROVE  Spec => []PlacementsSound
<1> DEFINE All == Inv /\ Polling /\ Placed /\ RoomsFinite /\ ReportsFinite /\ Fits
<1>1. Init => All
  BY InitInv, PollingInit, PlacedInit, CapacityInit
<1>2. All /\ [Next]_vars => All'
  <2> SUFFICES ASSUME All, [Next]_vars PROVE All'
    OBVIOUS
  <2>1. Inv' /\ Polling' /\ Placed' /\ Fits' /\ ReportsFinite'
    BY PollingStep, PlacedStep, FitsStep, ReportsFiniteStep
  <2>2. RoomsFinite'
    BY RoomsFiniteStep DEF Placed
  <2> QED
    BY <2>1, <2>2
<1>3. All => PlacementsSound
  <2> SUFFICES ASSUME All, NEW p \in Process, Reporting(p),
                      (origins[p] \cup IdsOf(Queued(Conn(p)))) \cap orphaned = {}
               PROVE  Cardinality(origins[p] \cup IdsOf(Queued(Conn(p)))) <= MaxRooms
    BY DEF PlacementsSound, PlacementsFit, Placed
  <2>1. Due(p) = origins[p] \cup IdsOf(Queued(Conn(p)))
    BY DEF Due
  <2> QED
    BY <2>1 DEF Fits, Reporting
<1> HIDE DEF All
<1> QED
  BY <1>1, <1>2, <1>3, PTL DEF Spec

-----------------------------------------------------------------------------
(* The status that placement goes by.                                      *)

\* A command with id x among those in C asks for status s.
Confirms(C, x, s) == \E c \in C : c.id = x /\ c.op \in DOMAIN StatusOf /\ StatusOf[c.op] = s

\* No ack strictly between two places of a queue is one of a status command in C.
Silent(q, C, a, b) ==
    \A k \in At(q, "ack") : a < k /\ k < b => \A s \in Status : ~Confirms(C, q[k].id, s)

\* The last ack of a status command before place n says s.
Says(q, C, n, s) ==
    \E k \in At(q, "ack") : k < n /\ Confirms(C, q[k].id, s) /\ Silent(q, C, k, n)

\* Callers that are to resume, and the status that placement goes by when they have.
Resumes(i) == {n \in 1..Len(resuming) : resuming[n][1] = i}
Decided(i, s) ==
    \/ \E n \in Resumes(i) : resuming[n][2] = s /\ \A m \in Resumes(i) : m <= n
    \/ Resumes(i) = {} /\ EffectiveStatus(i) = s

\* The status that placement goes by once the frames before place n are handled.
Announced(i, n, s) ==
    \/ Says(toOrch[i], PendingOf(i), n, s)
    \/ Silent(toOrch[i], PendingOf(i), 0, n) /\ (Known(i) => Decided(i, s))

\* Every ack on its way answers a command that is pending.
Answerable(i) == \A k \in At(toOrch[i], "ack") : \E c \in PendingOf(i) : c.id = toOrch[i][k].id

\* What a reply shows, and what is so in the end, is what was announced before.
SeenAt(p, i) ==
    /\ \A n \in At(toOrch[i], "state") :
          /\ Announced(i, n, toOrch[i][n].snap.status)
          /\ ~Known(i) => toOrch[i][n].snap.status = status[p]
    /\ Announced(i, Len(toOrch[i]) + 1, status[p])
Seen ==
    \A p \in Process, i \in Instance :
        current[p] # 0 /\ i = Conn(p) /\ i \in links /\ Answerable(i) => SeenAt(p, i)

\* Only creates are refused.
OkAcks ==
    \A i \in Instance : \A k \in At(toOrch[i], "ack") : \A c \in pending :
        c.id = toOrch[i][k].id /\ c.op # "create" => toOrch[i][k].ok

\* Who is to resume has asked a known instance, which may be gone.
Resumers ==
    \A n \in 1..Len(resuming) :
        LET i == resuming[n][1] IN i[2] <= connects[i[1]] /\ (i \in links => Known(i))

\* Queue r is queue q from place s + 1 on, at least up to place n, and E has the answers of C.
SameAcks(q, r, C, E, s, n) ==
    /\ \A k \in At(r, "ack") : k < n => k + s \in At(q, "ack") /\ r[k] = q[k + s]
    /\ \A k \in At(q, "ack") : s < k /\ k < n + s => k - s \in At(r, "ack") /\ r[k - s] = q[k]
    /\ \A k \in At(r, "ack") : \A u \in Status : Confirms(E, r[k].id, u) <=> Confirms(C, r[k].id, u)

LEMMA SilentKept ==
    ASSUME NEW q, NEW r, NEW C, NEW E, NEW s \in {0, 1}, NEW n \in Nat, NEW a \in Nat,
           SameAcks(q, r, C, E, s, n), Silent(q, C, a + s, n + s)
    PROVE  Silent(r, E, a, n)
<1> SUFFICES ASSUME NEW k \in At(r, "ack"), a < k, k < n, NEW u \in Status
             PROVE  ~Confirms(E, r[k].id, u)
  BY DEF Silent
<1>1. k \in Nat
  BY DEF At
<1>2. k + s \in At(q, "ack") /\ r[k] = q[k + s] /\ a + s < k + s /\ k + s < n + s
  BY <1>1 DEF SameAcks
<1>3. ~Confirms(C, q[k + s].id, u)
  BY <1>2 DEF Silent
<1> QED
  BY <1>2, <1>3 DEF SameAcks

LEMMA SaysKept ==
    ASSUME NEW q, NEW r, NEW C, NEW E, NEW s \in {0, 1}, NEW n \in Nat, NEW t \in Status,
           SameAcks(q, r, C, E, s, n), Says(q, C, n + s, t)
    PROVE  \/ Says(r, E, n, t)
           \/ Silent(r, E, 0, n) /\ s = 1 /\ 1 \in At(q, "ack") /\ Confirms(C, q[1].id, t)
<1>1. PICK k \in At(q, "ack") : k < n + s /\ Confirms(C, q[k].id, t) /\ Silent(q, C, k, n + s)
  BY DEF Says
<1>2. k \in Nat /\ k # 0
  BY DEF At
<1>3. CASE s < k
  <2>1. k - s \in At(r, "ack") /\ r[k - s] = q[k] /\ k - s < n /\ k - s \in Nat
    BY <1>1, <1>2, <1>3 DEF SameAcks
  <2>2. Confirms(E, r[k - s].id, t)
    BY <1>1, <2>1 DEF SameAcks
  <2>3. (k - s) + s = k
    BY <1>2
  <2>4. Silent(r, E, k - s, n)
    BY <1>1, <2>1, <2>3, SilentKept
  <2> QED
    BY <2>1, <2>2, <2>4 DEF Says
<1>4. CASE ~(s < k)
  <2>1. s = 1 /\ k = 1 /\ 0 + s = k
    BY <1>2, <1>4
  <2>2. Silent(r, E, 0, n)
    BY <1>1, <2>1, SilentKept
  <2> QED
    BY <1>1, <2>1, <2>2
<1> QED
  BY <1>3, <1>4

\* A command is pending already, or it takes the next number.
LEMMA PendingMoves ==
    ASSUME Inv, Polling, [Next]_vars, NEW c \in pending'
    PROVE  c \in pending \/ c.id = cmdSeq + 1
<1>1. Move
  BY MoveStep
<1>2. ASSUME NEW d, Issues(d)
      PROVE  c \in pending \/ c.id = cmdSeq + 1
  BY <1>2 DEF Issues
<1>3. pending' \subseteq pending \/ \E d : Issues(d)
  BY <1>1 DEF Move, TimesOut, Settles, Applies, Removes, Teardown, RejectAll, Polls, Unplugs, Reports, Executes, Aside, ledger
<1> QED
  BY <1>2, <1>3

\* An ack answers a command that was issued before.
LEMMA AcksIssued ==
    ASSUME Inv, Polling, Once, [Next]_vars, NEW i \in Instance
    PROVE  /\ \A k \in At(toOrch[i], "ack") : toOrch[i][k].id <= cmdSeq
           /\ \A k \in At(toOrch'[i], "ack") : toOrch'[i][k].id <= cmdSeq
<1>1. \A k \in At(toOrch[i], "ack") : toOrch[i][k].id <= cmdSeq
  BY DEF Once, OnceAt
<1>2. ASSUME NEW p \in Process, NEW d, Executes(p, d)
      PROVE  d.id <= cmdSeq
  BY <1>2, Executed DEF Once, OnceAt
<1>3. \A k \in At(toOrch'[i], "ack") : toOrch'[i][k].id <= cmdSeq
  BY <1>1, <1>2, FramesFrom
<1> QED
  BY <1>1, <1>3

\* An id that still has an answer to come is that of the same command as before.
LEMMA SameCommand ==
    ASSUME Inv, Polling, Once, [Next]_vars, NEW i \in Instance, NEW x, x <= cmdSeq,
           NEW e \in PendingOf(i)', e.id = x
    PROVE  /\ e \in PendingOf(i)
           /\ \A c \in pending : c.id = x => c = e
           /\ \A c \in pending' : c.id = x => c = e
<1>1. cmdSeq \in Nat
  BY TypesAre, FleetAssumption DEF Polling, BookTypes
<1>2. ASSUME NEW c \in pending', c.id = x
      PROVE  c \in pending
  BY <1>1, <1>2, PendingMoves
<1>3. e \in pending' /\ e.inst = i
  BY DEF PendingOf
<1>4. e \in pending
  BY <1>2, <1>3
<1>5. \A c \in pending : c.id = x => c = e
  BY <1>4 DEF Once
<1> QED
  BY <1>2, <1>3, <1>4, <1>5 DEF PendingOf

\* As long as all acks have a command to answer, they keep their meaning.
LEMMA AnswersKept ==
    ASSUME Inv, Polling, Once, [Next]_vars, NEW i \in Instance, Answerable(i)'
    PROVE  \A k \in At(toOrch'[i], "ack") : \A u \in Status :
              Confirms(PendingOf(i)', toOrch'[i][k].id, u) <=> Confirms(PendingOf(i), toOrch'[i][k].id, u)
<1> SUFFICES ASSUME NEW k \in At(toOrch'[i], "ack")
             PROVE  \A u \in Status : Confirms(PendingOf(i)', toOrch'[i][k].id, u)
                                         <=> Confirms(PendingOf(i), toOrch'[i][k].id, u)
  OBVIOUS
<1>1. PICK x : x = toOrch'[i][k].id
  OBVIOUS
<1>2. PICK e \in PendingOf(i)' : e.id = x
  BY <1>1 DEF Answerable
<1>3. x <= cmdSeq
  BY <1>1, AcksIssued
<1>4. /\ e \in PendingOf(i)
      /\ \A c \in pending : c.id = x => c = e
      /\ \A c \in pending' : c.id = x => c = e
  BY <1>2, <1>3, SameCommand
<1>5. \A c \in PendingOf(i) \cup PendingOf(i)' : c.id = x => c = e
  BY <1>4 DEF PendingOf
<1> QED
  BY <1>1, <1>2, <1>4, <1>5 DEF Confirms

LEMMA AnswerableWas ==
    ASSUME Inv, Polling, Once, [Next]_vars, NEW i \in Instance, Answerable(i)', NEW s \in {0, 1},
           \A k \in At(toOrch[i], "ack") :
               s < k => k - s \in At(toOrch'[i], "ack") /\ toOrch'[i][k - s] = toOrch[i][k],
           s = 1 /\ 1 \in At(toOrch[i], "ack") => \E c \in PendingOf(i) : c.id = toOrch[i][1].id
    PROVE  Answerable(i)
<1> SUFFICES ASSUME NEW k \in At(toOrch[i], "ack")
             PROVE  \E c \in PendingOf(i) : c.id = toOrch[i][k].id
  BY DEF Answerable
<1>1. k \in Nat /\ k # 0
  BY DEF At
<1>2. CASE s < k
  <2>1. k - s \in At(toOrch'[i], "ack") /\ toOrch'[i][k - s] = toOrch[i][k]
    BY <1>2
  <2>2. PICK e \in PendingOf(i)' : e.id = toOrch[i][k].id
    BY <2>1 DEF Answerable
  <2>3. toOrch[i][k].id <= cmdSeq
    BY AcksIssued
  <2> QED
    BY <2>2, <2>3, SameCommand
<1>3. CASE ~(s < k)
  <2>1. s = 1 /\ k = 1
    BY <1>1, <1>3
  <2> QED
    BY <2>1
<1> QED
  BY <1>2, <1>3

LEMMA AnnouncedKept ==
    ASSUME NEW i \in Instance, NEW s \in {0, 1}, NEW n \in Nat, NEW t \in Status, Announced(i, n + s, t),
           SameAcks(toOrch[i], toOrch'[i], PendingOf(i), PendingOf(i)', s, n),
           s = 1 /\ 1 \in At(toOrch[i], "ack") /\ Confirms(PendingOf(i), toOrch[i][1].id, t) /\ Known(i)'
              => Decided(i, t)',
           (/\ Known(i) => Decided(i, t)
            /\ s = 1 /\ 1 \in At(toOrch[i], "ack") =>
                 \A u \in Status : ~Confirms(PendingOf(i), toOrch[i][1].id, u)
            /\ Known(i)')
              => Decided(i, t)'
    PROVE  n = 0 \/ Announced(i, n, t)'
<1> SUFFICES ASSUME n # 0
             PROVE  Announced(i, n, t)'
  OBVIOUS
<1> DEFINE q == toOrch[i]
           r == toOrch'[i]
           C == PendingOf(i)
           E == PendingOf(i)'
<1>1. SameAcks(q, r, C, E, s, n)
  OBVIOUS
<1>2. CASE Says(q, C, n + s, t)
  <2>1. \/ Says(r, E, n, t)
        \/ Silent(r, E, 0, n) /\ s = 1 /\ 1 \in At(q, "ack") /\ Confirms(C, q[1].id, t)
    <3> HIDE DEF q, r, C, E
    <3> QED
      BY <1>1, <1>2, SaysKept
  <2> QED
    BY <2>1 DEF Announced
<1>3. CASE Silent(q, C, 0, n + s) /\ (Known(i) => Decided(i, t))
  <2>1. Silent(q, C, 0 + s, n + s)
    <3> HIDE DEF q, C
    <3>1. \A k \in At(q, "ack") : 0 + s < k => 0 < k
      BY DEF At
    <3> QED
      BY <1>3, <3>1 DEF Silent
  <2>2. Silent(r, E, 0, n)
    <3> HIDE DEF q, r, C, E
    <3> QED
      BY <1>1, <2>1, SilentKept
  <2>3. s = 1 /\ 1 \in At(q, "ack") => \A u \in Status : ~Confirms(C, q[1].id, u)
    <3> HIDE DEF q, C
    <3>1. s = 1 => 0 < 1 /\ 1 < n + s
      OBVIOUS
    <3> QED
      BY <1>3, <3>1 DEF Silent
  <2> QED
    BY <1>3, <2>2, <2>3 DEF Announced
<1> QED
  BY <1>2, <1>3 DEF Announced

LEMMA AnnouncedStays ==
    ASSUME NEW i \in Instance, NEW n \in Nat, n # 0, NEW t \in Status, Announced(i, n, t),
           SameAcks(toOrch[i], toOrch'[i], PendingOf(i), PendingOf(i)', 0, n),
           (Known(i) => Decided(i, t)) /\ Known(i)' => Decided(i, t)'
    PROVE  Announced(i, n, t)'
<1> DEFINE s == 0
<1>1. s \in {0, 1} /\ s # 1 /\ n + s = n
  OBVIOUS
<1>2. SameAcks(toOrch[i], toOrch'[i], PendingOf(i), PendingOf(i)', s, n)
  OBVIOUS
<1> HIDE DEF s
<1>3. Announced(i, n + s, t)
  BY <1>1
<1>4. s = 1 /\ 1 \in At(toOrch[i], "ack") /\ Confirms(PendingOf(i), toOrch[i][1].id, t) /\ Known(i)'
         => Decided(i, t)'
  BY <1>1
<1>5. (/\ Known(i) => Decided(i, t)
       /\ s = 1 /\ 1 \in At(toOrch[i], "ack") =>
            \A u \in Status : ~Confirms(PendingOf(i), toOrch[i][1].id, u)
       /\ Known(i)')
         => Decided(i, t)'
  OBVIOUS
<1>6. n = 0 \/ Announced(i, n, t)'
  BY <1>1, <1>2, <1>3, <1>4, <1>5, AnnouncedKept
<1> QED
  BY <1>6

-----------------------------------------------------------------------------
(* What a step does to the status of an agent, and to what placement knows *)
(* of it.                                                                  *)

\* Nothing that placement goes by changes for i; others may have callers to resume.
SameMind(i) ==
    /\ records'[i] = records[i] /\ override'[i] = override[i]
    /\ \/ resuming' = resuming
       \/ \E e : e[1] # i /\ resuming' = Append(resuming, e)

\* The kinds of a step, for a connection i of process p that goes on.
Stays(p, i) ==
    /\ toOrch'[i] = toOrch[i] /\ status'[p] = status[p]
    /\ \/ SameMind(i)
       \/ ResumeStatus
Shows(p, i) ==
    /\ \E m : m.type = "state" /\ m.snap = Snap(p) /\ toOrch'[i] = Append(toOrch[i], m)
    /\ status'[p] = status[p] /\ SameMind(i) /\ pending' = pending
Obeys(p, i) ==
    \E c : /\ Executes(p, c) /\ toOrch'[i] = Append(toOrch[i], AckFrom(c))
           /\ status'[p] = IF c.op \in DOMAIN StatusOf THEN StatusOf[c.op] ELSE status[p]
           /\ SameMind(i)
Reads(p, i) ==
    LET m == Head(toOrch[i]) IN
    /\ toOrch[i] # <<>> /\ m.type = "state" /\ m.snap \in Snapshot /\ toOrch'[i] = Tail(toOrch[i])
    /\ records'[i] = m.snap
    /\ override'[i] = IF override[i] = m.snap.status THEN Unknown ELSE override[i]
    /\ resuming' = resuming /\ status'[p] = status[p]
Answers(p, i) ==
    LET m == Head(toOrch[i]) IN
    \E c \in PendingOf(i) :
        /\ toOrch[i] # <<>> /\ m.type = "ack" /\ m.id = c.id /\ toOrch'[i] = Tail(toOrch[i])
        /\ records'[i] = records[i] /\ override'[i] = override[i] /\ status'[p] = status[p]
        /\ resuming' = IF m.ok /\ c.op \in DOMAIN StatusOf
                       THEN Append(resuming, <<i, StatusOf[c.op]>>)
                       ELSE resuming

StatusMove(p, i) == Stays(p, i) \/ Shows(p, i) \/ Obeys(p, i) \/ Reads(p, i) \/ Answers(p, i)

LEMMA TeardownMinds ==
    ASSUME TypeOK, NEW i \in Instance, NEW j \in Instance, Teardown(j), i \in links', UNCHANGED resuming
    PROVE  SameMind(i) /\ toOrch'[i] = toOrch[i]
<1>1. i # j
  BY DEF Teardown
<1>2. /\ records \in [Instance -> Snapshot \cup {Unknown}] /\ override \in [Instance -> Status \cup {Unknown}]
      /\ toOrch \in [Instance -> Seq(StateMsg \cup AckMsg)]
  BY DEF TypeOK
<1>3. records'[i] = records[i] /\ override'[i] = override[i]
  <2>1. CASE Known(j)
    BY <1>1, <1>2, <2>1 DEF Teardown
  <2>2. CASE ~Known(j)
    BY <2>2 DEF Teardown, readVars
  <2> QED
    BY <2>1, <2>2
<1>4. toOrch'[i] = toOrch[i]
  BY <1>1, <1>2 DEF Teardown
<1> QED
  BY <1>3, <1>4 DEF SameMind

LEMMA StatusMoveStep ==
    ASSUME "status" \notin Local, Inv, Polling, [Next]_vars, NEW p \in Process, current[p] # 0,
           current'[p] = current[p], Conn(p) \in links'
    PROVE  StatusMove(p, Conn(p))
<1>1. PICK i \in Instance : i = Conn(p) /\ i[1] = p /\ i \in links'
  BY MovedConn DEF Conn
<1>2. /\ TypeOK /\ AgentsOK /\ WireTypes
      /\ records \in [Instance -> Snapshot \cup {Unknown}] /\ override \in [Instance -> Status \cup {Unknown}]
      /\ toOrch \in [Instance -> Seq(StateMsg \cup AckMsg)] /\ status \in [Process -> Status]
  BY TypesAre DEF Inv, Wires, Polling, TypeOK
<1>3. ASSUME UNCHANGED <<toOrch, status, records, override, resuming>>
      PROVE  Stays(p, i)
  BY <1>3 DEF Stays, SameMind
<1>4. ASSUME NEW r \in RoomId, CreateRoom(r)
      PROVE  Stays(p, i)
  BY <1>3, <1>4 DEF CreateRoom, readVars, agentVars
<1>5. ASSUME NEW j \in Instance, NEW op \in Ops, NEW r \in RoomId \cup {NoRoom}, SendCommand(j, op, r)
      PROVE  Stays(p, i)
  BY <1>3, <1>5 DEF SendCommand, readVars, agentVars
<1>6. ASSUME NEW c \in pending, CommandTimeout(c)
      PROVE  Stays(p, i)
  BY <1>3, <1>6 DEF CommandTimeout, readVars, netVars, agentVars
<1>7. ASSUME NEW j \in Instance, HandleState(j)
      PROVE  Stays(p, i) \/ Reads(p, i)
  <2> DEFINE m == Head(toOrch[j])
  <2>1. /\ toOrch[j] # <<>> /\ m.type = "state" /\ m \in OrchFrames
        /\ m.req = outstanding[j] /\ (IF m.full THEN m.snap ELSE records[j]) = m.snap
    BY <1>7, ReplyMatches
  <2>2. /\ records' = [records EXCEPT ![j] = m.snap]
        /\ override' = [override EXCEPT ![j] = IF @ = m.snap.status THEN Unknown ELSE @]
        /\ toOrch' = [toOrch EXCEPT ![j] = Tail(@)]
        /\ UNCHANGED <<resuming, status>>
    BY <1>7, <2>1 DEF HandleState, ReconciledOverride, agentVars
  <2>3. m.snap \in Snapshot
    BY <2>1, OrchFrameTypes
  <2> HIDE DEF m
  <2>4. CASE j = i
    BY <1>2, <2>1, <2>2, <2>3, <2>4 DEF Reads, m
  <2>5. CASE j # i
    BY <1>2, <2>2, <2>5 DEF Stays, SameMind
  <2> QED
    BY <2>4, <2>5
<1>8. ASSUME NEW j \in Instance, HandleAck(j)
      PROVE  Stays(p, i) \/ Answers(p, i)
  <2> DEFINE m == Head(toOrch[j])
             C == {c \in PendingOf(j) : c.id = m.id}
  <2>1. toOrch[j] # <<>> /\ m.type = "ack" /\ UNCHANGED status
    BY <1>8 DEF HandleAck, agentVars
  <2>2. CASE C = {}
    <3>1. Teardown(j) /\ UNCHANGED resuming
      BY <1>8, <2>2 DEF HandleAck, Kick
    <3> QED
      BY <1>1, <1>2, <2>1, <3>1, TeardownMinds DEF Stays
  <2>3. CASE C # {}
    <3>1. PICK c \in C : /\ Acked(c, m.ok)
                        /\ toOrch' = [toOrch EXCEPT ![j] = Tail(@)]
                        /\ UNCHANGED readVars
      BY <1>8, <2>3 DEF HandleAck
    <3>2. c \in PendingOf(j) /\ c.id = m.id /\ c.inst = j
      BY DEF PendingOf
    <3>3. /\ resuming' = IF m.ok /\ c.op \in DOMAIN StatusOf
                         THEN Append(resuming, <<j, StatusOf[c.op]>>) ELSE resuming
          /\ records' = records /\ override' = override
      BY <3>1, <3>2 DEF Acked, readVars
    <3> HIDE DEF m, C
    <3>4. CASE j = i
      BY <1>2, <2>1, <3>1, <3>2, <3>3, <3>4 DEF Answers, m
    <3>5. CASE j # i
      <4>1. toOrch'[i] = toOrch[i]
        BY <1>2, <3>1, <3>5
      <4>2. resuming' = resuming \/ (\E e : e[1] # i /\ resuming' = Append(resuming, e))
        <5>1. <<j, StatusOf[c.op]>>[1] # i
          BY <3>5
        <5> QED
          BY <3>3, <5>1
      <4> QED
        BY <2>1, <3>3, <4>1, <4>2 DEF Stays, SameMind
    <3> QED
      BY <3>4, <3>5
  <2> QED
    BY <2>2, <2>3
<1>9. ASSUME NEW j \in Instance, Tick(j) \/ OrchestratorLoses(j)
      PROVE  Stays(p, i)
  <2>1. CASE Teardown(j) /\ UNCHANGED <<resuming, status>>
    BY <1>1, <1>2, <2>1, TeardownMinds DEF Stays
  <2>2. CASE UNCHANGED <<toOrch, status, records, override, resuming>>
    BY <1>3, <2>2
  <2> QED
    BY <1>9, <2>1, <2>2 DEF Tick, TickPolls, TickMisses, OrchestratorLoses, readVars, agentVars
<1>10. ASSUME ResumeStatus
       PROVE  Stays(p, i)
  <2>1. toOrch' = toOrch /\ status' = status
    BY <1>10 DEF ResumeStatus, netVars, agentVars
  <2> QED
    BY <1>10, <2>1 DEF Stays
<1>11. ASSUME NEW q \in Process, Connect(q) \/ AgentLoses(q)
       PROVE  Stays(p, i)
  BY <1>3, <1>11 DEF Connect, AgentLoses, readVars, agentVars
<1>12. ASSUME NEW q \in Process, AgentPoll(q)
       PROVE  Stays(p, i) \/ Shows(p, i)
  <2>1. /\ Conn(q) \in Instance /\ UNCHANGED <<links, status, records, override, resuming, pending>>
        /\ \E f : Reply(Conn(q), f) /\ f.type = "state" /\ f.snap = Snap(q)
    <3>1. Conn(q) \in Instance /\ Reports(q)
      BY <1>2, <1>12, AgentPolled, MovedConn DEF Reports, ledger, agents, readVars, resVars, cmdVars, AgentPoll
    <3>2. \E f : Reply(Conn(q), f) /\ f.type = "state" /\ f.snap = Snap(q)
      BY <3>1 DEF Reports, StateFrom
    <3> QED
      BY <1>12, <3>1, <3>2 DEF AgentPoll, readVars, cmdVars
  <2>2. PICK f : Reply(Conn(q), f) /\ f.type = "state" /\ f.snap = Snap(q)
    BY <2>1
  <2>3. SameMind(i) /\ status'[p] = status[p] /\ pending' = pending
    BY <2>1 DEF SameMind
  <2>4. CASE q = p
    <3>1. toOrch'[i] = Append(toOrch[i], f)
      BY <1>1, <1>2, <2>1, <2>2, <2>4 DEF Reply
    <3> QED
      BY <2>2, <2>3, <2>4, <3>1 DEF Shows
  <2>5. CASE q # p
    <3>1. Conn(q) # i
      BY <1>1, <2>5 DEF Conn
    <3>2. toOrch'[i] = toOrch[i]
      BY <1>2, <2>1, <2>2, <3>1 DEF Reply
    <3> QED
      BY <2>3, <3>2 DEF Stays
  <2> QED
    BY <2>4, <2>5
<1>13. ASSUME NEW q \in Process, AgentCmd(q)
       PROVE  Stays(p, i) \/ Obeys(p, i)
  <2> DEFINE c == Head(toAgent[Conn(q)]).cmd
  <2>1. Executes(q, c) /\ Conn(q) \in Instance /\ UNCHANGED <<links, records, override, resuming>>
    <3>1. /\ \/ c.op = "create" /\ ExecCreate(q, c.room)
             \/ c.op = "destroy" /\ ExecDestroy(q, c.room)
             \/ c.op \in DOMAIN StatusOf /\ UNCHANGED <<rooms, origins>>
          /\ UNCHANGED <<ledger, current>> /\ UNCHANGED <<links, records, override, resuming>>
      BY <1>13 DEF AgentCmd, ledger, readVars, resVars, cmdVars
    <3>2. Executes(q, c)
      BY <1>2, <1>13, <3>1, AgentActed DEF Executes
    <3> QED
      BY <3>1, <3>2, MovedConn DEF Executes
  <2>2. status' = IF c.op \in DOMAIN StatusOf THEN [status EXCEPT ![q] = StatusOf[c.op]] ELSE status
    <3>1. "create" \notin DOMAIN StatusOf /\ "destroy" \notin DOMAIN StatusOf
      BY DEF StatusOf
    <3> QED
      BY <1>13, <3>1 DEF AgentCmd
  <2>3. SameMind(i) /\ Reply(Conn(q), AckFrom(c))
    BY <2>1 DEF SameMind, Executes
  <2> HIDE DEF c
  <2>4. CASE q = p
    <3>1. toOrch'[i] = Append(toOrch[i], AckFrom(c))
      BY <1>1, <1>2, <2>1, <2>3, <2>4 DEF Reply
    <3>2. status'[p] = IF c.op \in DOMAIN StatusOf THEN StatusOf[c.op] ELSE status[p]
      BY <1>2, <2>2, <2>4
    <3> QED
      BY <2>1, <2>3, <2>4, <3>1, <3>2 DEF Obeys
  <2>5. CASE q # p
    <3>1. Conn(q) # i
      BY <1>1, <2>5 DEF Conn
    <3>2. toOrch'[i] = toOrch[i]
      BY <1>2, <2>1, <2>3, <3>1 DEF Reply
    <3>3. status'[p] = status[p]
      BY <1>2, <2>2, <2>5
    <3> QED
      BY <2>3, <3>2, <3>3 DEF Stays
  <2> QED
    BY <2>4, <2>5
<1>14. ASSUME \/ UNCHANGED vars
              \/ \E q \in Process, r \in RoomId : LocalCreate(q, r) \/ LocalDestroy(q, r)
       PROVE  Stays(p, i)
  <2>1. UNCHANGED <<toOrch, status, records, override, resuming>>
    BY <1>14 DEF LocalCreate, LocalDestroy, vars, readVars, netVars, agentVars
  <2> QED
    BY <1>3, <2>1
<1>15. ASSUME NEW q \in Process, NEW s \in Status
       PROVE  ~LocalStatus(q, s)
  BY DEF LocalStatus
<1>16. StatusMove(p, i)
  <2>1. CASE Next
    BY <1>4, <1>5, <1>6, <1>7, <1>8, <1>9, <1>10, <1>11, <1>12, <1>13, <1>14, <1>15, <2>1
       DEF Next, Frame, AgentFrame, StatusMove
  <2> QED
    BY <1>14, <2>1 DEF StatusMove
<1> QED
  BY <1>1, <1>16

LEMMA MindKept ==
    ASSUME TypeOK, NEW i \in Instance, SameMind(i), NEW s
    PROVE  (Known(i)' <=> Known(i)) /\ (Decided(i, s) => Decided(i, s)')
<1>1. resuming \in Seq(Instance \X Status)
  BY DEF TypeOK
<1>2. Resumes(i)' = Resumes(i) /\ \A n \in Resumes(i) : resuming'[n] = resuming[n]
  BY <1>1 DEF SameMind, Resumes
<1>3. EffectiveStatus(i)' = EffectiveStatus(i) /\ (Known(i)' <=> Known(i))
  BY DEF SameMind, EffectiveStatus, Known
<1> QED
  BY <1>2, <1>3 DEF Decided

\* The status that is resumed with takes effect if no later one is waiting.
LEMMA ResumedKept ==
    ASSUME TypeOK, NEW i \in Instance, ResumeStatus, NEW s \in Status
    PROVE  (Known(i)' <=> Known(i)) /\ (Known(i) /\ Decided(i, s) => Decided(i, s)')
<1>1. /\ resuming \in Seq(Instance \X Status) /\ resuming # <<>> /\ resuming' = Tail(resuming)
      /\ records' = records
      /\ override \in [Instance -> Status \cup {Unknown}]
      /\ override' = IF Known(Head(resuming)[1])
                     THEN [override EXCEPT ![Head(resuming)[1]] = Head(resuming)[2]] ELSE override
  BY DEF ResumeStatus, Quiet, TypeOK
<1>2. Known(i)' <=> Known(i)
  BY <1>1 DEF Known
<1>3. Head(resuming) = resuming[1] /\ 1 \in 1..Len(resuming)
  BY <1>1
<1>4. \A n \in Resumes(i)' : n + 1 \in Resumes(i) /\ resuming'[n] = resuming[n + 1]
  BY <1>1 DEF Resumes
<1>5. \A n \in Resumes(i) : n # 1 => n - 1 \in Resumes(i)' /\ resuming'[n - 1] = resuming[n]
  BY <1>1 DEF Resumes
<1>6. ASSUME Known(i), NEW n \in Resumes(i), resuming[n][2] = s, \A m \in Resumes(i) : m <= n
      PROVE  Decided(i, s)'
  <2>1. n \in Nat /\ n # 0 /\ \A m \in Resumes(i)' : m \in Nat /\ m # 0
    BY DEF Resumes
  <2>2. CASE n # 1
    <3>1. n - 1 \in Resumes(i)' /\ resuming'[n - 1][2] = s
      BY <1>5, <1>6, <2>2
    <3>2. \A m \in Resumes(i)' : m <= n - 1
      BY <1>4, <1>6, <2>1
    <3> QED
      BY <3>1, <3>2 DEF Decided
  <2>3. CASE n = 1
    <3>1. Resumes(i)' = {}
      BY <1>4, <1>6, <2>1, <2>3
    <3>2. resuming[1][1] = i /\ resuming[1][2] = s
      BY <1>6, <2>3 DEF Resumes
    <3>3. override'[i] = s
      BY <1>1, <1>3, <1>6, <3>2
    <3>4. EffectiveStatus(i)' = s
      BY <3>3, UnknownAssumption DEF EffectiveStatus
    <3> QED
      BY <3>1, <3>4 DEF Decided
  <2> QED
    BY <2>2, <2>3
<1>7. ASSUME Resumes(i) = {}, EffectiveStatus(i) = s
      PROVE  Decided(i, s)'
  <2>1. Resumes(i)' = {}
    BY <1>4, <1>7
  <2>2. resuming[1][1] # i
    BY <1>3, <1>7 DEF Resumes
  <2>3. override'[i] = override[i]
    BY <1>1, <1>3, <2>2
  <2>4. EffectiveStatus(i)' = s
    BY <1>1, <1>7, <2>3 DEF EffectiveStatus
  <2> QED
    BY <2>1, <2>4 DEF Decided
<1> QED
  BY <1>2, <1>6, <1>7 DEF Decided

LEMMA SeenNow ==
    ASSUME NEW p, NEW i,
           \A n \in At(toOrch'[i], "state") : \A t : t = toOrch'[i][n].snap.status =>
               Announced(i, n, t)' /\ (~Known(i)' => t = status'[p]),
           \A n, t : n = Len(toOrch'[i]) + 1 /\ t = status'[p] => Announced(i, n, t)'
    PROVE  SeenAt(p, i)'
  BY DEF SeenAt, Announced, Decided

LEMMA SnapStatus ==
    ASSUME Polling, NEW i \in Instance, NEW n \in At(toOrch[i], "state")
    PROVE  toOrch[i][n].snap.status \in Status /\ n \in Nat /\ n # 0
<1>1. toOrch[i] \in Seq(OrchFrames)
  BY TypesAre DEF Polling, TypeOK, OrchFrames
<1>2. toOrch[i][n] \in OrchFrames /\ toOrch[i][n].type = "state"
  BY <1>1 DEF At
<1>3. toOrch[i][n].snap \in Snapshot
  BY <1>2, OrchFrameTypes
<1> QED
  BY <1>3 DEF At, Snapshot

LEMMA StaysSeen ==
    ASSUME Inv, Polling, Once, [Next]_vars, NEW p \in Process, NEW i \in Instance, Stays(p, i),
           Answerable(i)', Answerable(i) => SeenAt(p, i)
    PROVE  SeenAt(p, i)'
<1>1. toOrch'[i] = toOrch[i] /\ status'[p] = status[p]
  BY DEF Stays
<1>2. toOrch[i] \in Seq(OrchFrames) /\ status[p] \in Status /\ TypeOK
  BY DEF Polling, TypeOK, OrchFrames
<1>3. SeenAt(p, i)
  <2>1. \A k \in At(toOrch[i], "ack") : 0 < k => k - 0 \in At(toOrch'[i], "ack") /\ toOrch'[i][k - 0] = toOrch[i][k]
    BY <1>1 DEF At
  <2> QED
    BY <2>1, AnswerableWas
<1>4. ASSUME NEW n \in Nat
      PROVE  SameAcks(toOrch[i], toOrch'[i], PendingOf(i), PendingOf(i)', 0, n)
  <2>1. \A k \in At(toOrch[i], "ack") : k - 0 = k /\ k + 0 = k
    BY DEF At
  <2>2. \A k \in At(toOrch'[i], "ack") : \A u \in Status :
              Confirms(PendingOf(i)', toOrch'[i][k].id, u) <=> Confirms(PendingOf(i), toOrch'[i][k].id, u)
    BY AnswersKept
  <2> QED
    BY <1>1, <2>1, <2>2 DEF SameAcks
<1>5. ASSUME NEW t \in Status
      PROVE  (Known(i)' <=> Known(i)) /\ ((Known(i) => Decided(i, t)) => (Known(i)' => Decided(i, t)'))
  BY <1>2, MindKept, ResumedKept DEF Stays
<1>6. ASSUME NEW n \in Nat, n # 0, NEW t \in Status, Announced(i, n, t)
      PROVE  Announced(i, n, t)'
  BY <1>4, <1>5, <1>6, AnnouncedStays
<1>7. ASSUME NEW n \in At(toOrch'[i], "state"), NEW t, t = toOrch'[i][n].snap.status
      PROVE  Announced(i, n, t)' /\ (~Known(i)' => t = status'[p])
  <2>1. n \in At(toOrch[i], "state") /\ t = toOrch[i][n].snap.status
    BY <1>1, <1>7
  <2>2. Announced(i, n, t) /\ (~Known(i) => t = status[p])
    BY <1>3, <2>1 DEF SeenAt
  <2>3. n \in Nat /\ n # 0 /\ t \in Status
    BY <2>1, SnapStatus
  <2> QED
    BY <1>1, <1>5, <1>6, <2>2, <2>3
<1>8. ASSUME NEW n, NEW t, n = Len(toOrch'[i]) + 1, t = status'[p]
      PROVE  Announced(i, n, t)'
  <2>1. Announced(i, n, t) /\ n \in Nat /\ n # 0 /\ t \in Status
    BY <1>1, <1>2, <1>3, <1>8 DEF SeenAt
  <2> QED
    BY <1>6, <2>1
<1> QED
  BY <1>7, <1>8, SeenNow

\* Nothing is announced at a place where there is no ack of a status command.
LEMMA SilentPast ==
    ASSUME NEW q, NEW C, NEW a, NEW n \in Nat, Silent(q, C, a, n),
           n \in At(q, "ack") => \A u \in Status : ~Confirms(C, q[n].id, u)
    PROVE  Silent(q, C, a, n + 1)
<1>1. \A k \in At(q, "ack") : k < n + 1 => k < n \/ k = n
  BY DEF At
<1> QED
  BY <1>1 DEF Silent

LEMMA SaysPast ==
    ASSUME NEW q, NEW C, NEW n \in Nat, NEW t, Says(q, C, n, t),
           n \in At(q, "ack") => \A u \in Status : ~Confirms(C, q[n].id, u)
    PROVE  Says(q, C, n + 1, t)
<1>1. PICK k \in At(q, "ack") : k < n /\ Confirms(C, q[k].id, t) /\ Silent(q, C, k, n)
  BY DEF Says
<1>2. k < n + 1
  BY <1>1 DEF At
<1>3. Silent(q, C, k, n + 1)
  BY <1>1, SilentPast
<1> QED
  BY <1>1, <1>2, <1>3 DEF Says

LEMMA ShowsSeen ==
    ASSUME Inv, Polling, Once, [Next]_vars, NEW p \in Process, NEW i \in Instance, Shows(p, i),
           Answerable(i)', Answerable(i) => SeenAt(p, i)
    PROVE  SeenAt(p, i)'
<1> DEFINE q == toOrch[i]
<1>1. PICK m : m.type = "state" /\ m.snap = Snap(p) /\ toOrch'[i] = Append(q, m)
  BY DEF Shows
<1>2. q \in Seq(OrchFrames) /\ status[p] \in Status /\ TypeOK /\ status'[p] = status[p] /\ SameMind(i)
  BY DEF Polling, TypeOK, OrchFrames, Shows
<1>3. /\ \A k \in At(q, "ack") : k - 0 = k /\ k + 0 = k /\ k \in At(toOrch'[i], "ack") /\ toOrch'[i][k] = q[k]
      /\ \A k \in At(toOrch'[i], "ack") : k \in At(q, "ack")
  <2> HIDE DEF q
  <2> QED
    BY <1>1, <1>2 DEF At
<1>4. SeenAt(p, i)
  <2>1. \A k \in At(toOrch[i], "ack") : 0 < k => k - 0 \in At(toOrch'[i], "ack") /\ toOrch'[i][k - 0] = toOrch[i][k]
    BY <1>3
  <2> QED
    BY <2>1, AnswerableWas
<1>5. ASSUME NEW n \in Nat
      PROVE  SameAcks(q, toOrch'[i], PendingOf(i), PendingOf(i)', 0, n)
  <2>1. \A k \in At(toOrch'[i], "ack") : \A u \in Status :
              Confirms(PendingOf(i)', toOrch'[i][k].id, u) <=> Confirms(PendingOf(i), toOrch'[i][k].id, u)
    BY AnswersKept
  <2> QED
    BY <1>3, <2>1 DEF SameAcks
<1>6. ASSUME NEW n \in Nat, n # 0, NEW t \in Status, Announced(i, n, t)
      PROVE  Announced(i, n, t)'
  BY <1>2, <1>5, <1>6, MindKept, AnnouncedStays
<1>7. Announced(i, Len(q) + 1, status[p]) /\ Len(q) + 1 \in Nat /\ Len(q) + 1 # 0
  BY <1>2, <1>4 DEF SeenAt
<1>8. ASSUME NEW n \in At(toOrch'[i], "state"), NEW t, t = toOrch'[i][n].snap.status
      PROVE  Announced(i, n, t)' /\ (~Known(i)' => t = status'[p])
  <2>1. CASE n \in At(q, "state") /\ toOrch'[i][n] = q[n]
    <3>1. Announced(i, n, t) /\ (~Known(i) => t = status[p])
      BY <1>4, <1>8, <2>1 DEF SeenAt
    <3>2. n \in Nat /\ n # 0 /\ t \in Status
      BY <1>8, <2>1, SnapStatus
    <3> QED
      BY <1>2, <1>6, <3>1, <3>2, MindKept
  <2>2. CASE n = Len(q) + 1 /\ toOrch'[i][n] = m
    <3>1. t = status[p]
      BY <1>1, <1>8, <2>2 DEF Snap
    <3> QED
      BY <1>2, <1>6, <1>7, <2>2, <3>1
  <2>3. (n \in At(q, "state") /\ toOrch'[i][n] = q[n]) \/ (n = Len(q) + 1 /\ toOrch'[i][n] = m)
    <3> HIDE DEF q
    <3> QED
      BY <1>1, <1>2 DEF At
  <2> QED
    BY <2>1, <2>2, <2>3
<1>9. ASSUME NEW n, NEW t, n = Len(toOrch'[i]) + 1, t = status'[p]
      PROVE  Announced(i, n, t)'
  <2>1. n = (Len(q) + 1) + 1 /\ n \in Nat /\ n # 0 /\ t = status[p] /\ Len(q) + 1 \notin At(q, "ack")
    <3> HIDE DEF q
    <3> QED
      BY <1>1, <1>2, <1>9 DEF At
  <2>2. Announced(i, n, t)
    BY <1>7, <2>1, SilentPast, SaysPast DEF Announced
  <2> QED
    BY <1>2, <1>6, <2>1, <2>2
<1> QED
  BY <1>8, <1>9, SeenNow

LEMMA ObeysSeen ==
    ASSUME Inv, Polling, Once, [Next]_vars, NEW p \in Process, NEW i \in Instance, i = Conn(p), Obeys(p, i),
           Answerable(i)', Answerable(i) => SeenAt(p, i)
    PROVE  SeenAt(p, i)'
<1> DEFINE q == toOrch[i]
<1>1. PICK c : /\ Executes(p, c) /\ toOrch'[i] = Append(q, AckFrom(c)) /\ SameMind(i)
               /\ status'[p] = IF c.op \in DOMAIN StatusOf THEN StatusOf[c.op] ELSE status[p]
  BY DEF Obeys
<1> DEFINE m == AckFrom(c)
<1>2. q \in Seq(OrchFrames) /\ status[p] \in Status /\ TypeOK /\ m.type = "ack" /\ m.id = c.id
  BY DEF Polling, TypeOK, OrchFrames, AckFrom
<1>3. pending' = pending /\ \A d \in pending : d.id = c.id => d = c
  BY <1>1, Executed
<1> HIDE DEF m
<1>4. /\ \A k \in At(q, "ack") : k - 0 = k /\ k + 0 = k /\ k \in At(toOrch'[i], "ack") /\ toOrch'[i][k] = q[k]
      /\ \A k \in At(toOrch'[i], "ack") : k < Len(q) + 1 => k \in At(q, "ack")
      /\ Len(q) + 1 \in At(toOrch'[i], "ack") /\ toOrch'[i][Len(q) + 1] = m
      /\ Len(q) + 1 \in Nat /\ Len(q) + 1 # 0 /\ Len(toOrch'[i]) + 1 = (Len(q) + 1) + 1
  <2>1. toOrch'[i] = Append(q, m)
    BY <1>1 DEF m
  <2> HIDE DEF q
  <2> QED
    BY <1>2, <2>1 DEF At
<1>5. SeenAt(p, i)
  <2>1. \A k \in At(toOrch[i], "ack") : 0 < k => k - 0 \in At(toOrch'[i], "ack") /\ toOrch'[i][k - 0] = toOrch[i][k]
    BY <1>4
  <2> QED
    BY <2>1, AnswerableWas
<1>6. c \in PendingOf(i)' /\ c \in pending /\ Known(i) /\ Known(i)'
  <2>1. \E d \in PendingOf(i)' : d.id = c.id
    BY <1>2, <1>4 DEF Answerable
  <2>2. c \in PendingOf(i)' /\ c \in pending /\ c.inst = i
    BY <1>3, <2>1 DEF PendingOf
  <2> QED
    BY <1>1, <1>2, <2>2, MindKept DEF Inv, Books, GoneBooks
<1>7. ASSUME NEW n \in Nat, n <= Len(q) + 1
      PROVE  SameAcks(q, toOrch'[i], PendingOf(i), PendingOf(i)', 0, n)
  <2>1. \A k \in At(toOrch'[i], "ack") : \A u \in Status :
              Confirms(PendingOf(i)', toOrch'[i][k].id, u) <=> Confirms(PendingOf(i), toOrch'[i][k].id, u)
    BY AnswersKept
  <2>2. \A k \in At(toOrch'[i], "ack") : k < n => k < Len(q) + 1
    <3> HIDE DEF q
    <3> QED
      BY <1>4, <1>7 DEF At
  <2> QED
    BY <1>4, <2>1, <2>2 DEF SameAcks
<1>8. ASSUME NEW n \in Nat, n # 0, n <= Len(q) + 1, NEW t \in Status, Announced(i, n, t)
      PROVE  Announced(i, n, t)'
  BY <1>1, <1>2, <1>7, <1>8, MindKept, AnnouncedStays
<1>9. ASSUME NEW n \in At(toOrch'[i], "state"), NEW t, t = toOrch'[i][n].snap.status
      PROVE  Announced(i, n, t)' /\ (~Known(i)' => t = status'[p])
  <2>1. n \in At(q, "state") /\ toOrch'[i][n] = q[n] /\ n <= Len(q) + 1
    BY <1>1, <1>2, AckSent DEF At
  <2>2. Announced(i, n, t)
    BY <1>5, <1>9, <2>1 DEF SeenAt
  <2>3. n \in Nat /\ n # 0 /\ t \in Status
    BY <1>9, <2>1, SnapStatus
  <2> QED
    BY <1>6, <1>8, <2>1, <2>2, <2>3
<1>10. ASSUME NEW n, NEW t, n = Len(toOrch'[i]) + 1, t = status'[p]
       PROVE  Announced(i, n, t)'
  <2> DEFINE r == toOrch'[i]
             E == PendingOf(i)'
  <2>0. PICK l \in Nat : l = Len(q) + 1
    BY <1>4
  <2>1. n = l + 1 /\ l < n /\ l \in At(r, "ack") /\ r[l].id = c.id
    BY <1>2, <1>4, <1>10, <2>0
  <2>2. CASE c.op \in DOMAIN StatusOf
    <3>1. Confirms(E, c.id, t)
      BY <1>1, <1>6, <1>10, <2>2 DEF Confirms
    <3>2. Silent(r, E, l, n)
      <4> HIDE DEF r, E
      <4> QED
        BY <2>1 DEF Silent, At
    <3>3. Says(r, E, n, t)
      <4> HIDE DEF r, E
      <4> QED
        BY <2>1, <3>1, <3>2 DEF Says
    <3> QED
      BY <3>3 DEF Announced
  <2>3. CASE c.op \notin DOMAIN StatusOf
    <3>1. t = status[p] /\ Announced(i, l, t)
      BY <1>1, <1>5, <1>10, <2>0, <2>3 DEF SeenAt
    <3>2. Announced(i, l, t)'
      BY <1>2, <1>4, <1>8, <2>0, <3>1
    <3>3. \A u \in Status : ~Confirms(E, r[l].id, u)
      BY <1>3, <2>1, <2>3 DEF Confirms, PendingOf
    <3>4. Says(r, E, l, t) \/ (Silent(r, E, 0, l) /\ (Known(i)' => Decided(i, t)'))
      BY <3>2 DEF Announced
    <3>5. Says(r, E, n, t) \/ (Silent(r, E, 0, n) /\ (Known(i)' => Decided(i, t)'))
      <4> HIDE DEF r, E
      <4> QED
        BY <2>1, <3>3, <3>4, SilentPast, SaysPast
    <3> QED
      BY <3>5 DEF Announced
  <2> QED
    BY <2>2, <2>3
<1> QED
  BY <1>9, <1>10, SeenNow

\* The acks of a queue whose first frame is taken off.
LEMMA TailAcks ==
    ASSUME Inv, Polling, Once, [Next]_vars, NEW i \in Instance, toOrch[i] # <<>>, toOrch'[i] = Tail(toOrch[i]),
           Answerable(i)'
    PROVE  /\ \A k \in At(toOrch[i], "ack") :
                1 < k => k - 1 \in At(toOrch'[i], "ack") /\ toOrch'[i][k - 1] = toOrch[i][k]
           /\ \A n \in Nat : SameAcks(toOrch[i], toOrch'[i], PendingOf(i), PendingOf(i)', 1, n)
           /\ (Len(toOrch'[i]) + 1) + 1 = Len(toOrch[i]) + 1 /\ Len(toOrch'[i]) + 1 \in Nat
           /\ Len(toOrch'[i]) + 1 # 0
<1> DEFINE q == toOrch[i]
<1>1. q \in Seq(OrchFrames)
  BY TypesAre DEF Polling, TypeOK, OrchFrames
<1>2. /\ \A k \in At(q, "ack") : 1 < k => k - 1 \in At(Tail(q), "ack") /\ Tail(q)[k - 1] = q[k]
      /\ \A k \in At(Tail(q), "ack") : k + 1 \in At(q, "ack") /\ Tail(q)[k] = q[k + 1]
      /\ (Len(Tail(q)) + 1) + 1 = Len(q) + 1 /\ Len(Tail(q)) + 1 \in Nat /\ Len(Tail(q)) + 1 # 0
  <2>1. q # <<>>
    OBVIOUS
  <2> HIDE DEF q
  <2> QED
    BY <1>1, <2>1 DEF At
<1>3. \A k \in At(toOrch'[i], "ack") : \A u \in Status :
          Confirms(PendingOf(i)', toOrch'[i][k].id, u) <=> Confirms(PendingOf(i), toOrch'[i][k].id, u)
  BY AnswersKept
<1>4. ASSUME NEW n \in Nat
      PROVE  SameAcks(q, Tail(q), PendingOf(i), PendingOf(i)', 1, n)
  <2>1. \A k \in At(Tail(q), "ack") : \A u \in Status :
            Confirms(PendingOf(i)', Tail(q)[k].id, u) <=> Confirms(PendingOf(i), Tail(q)[k].id, u)
    BY <1>3
  <2> HIDE DEF q
  <2>2. \A k \in At(Tail(q), "ack") : k < n => k + 1 \in At(q, "ack") /\ Tail(q)[k] = q[k + 1]
    BY <1>2
  <2>3. \A k \in At(q, "ack") : 1 < k /\ k < n + 1 => k - 1 \in At(Tail(q), "ack") /\ Tail(q)[k - 1] = q[k]
    BY <1>2
  <2> QED
    BY <2>1, <2>2, <2>3 DEF SameAcks
<1>5. PICK r : r = toOrch'[i] /\ r = Tail(q)
  OBVIOUS
<1>6. \A n \in Nat : SameAcks(q, r, PendingOf(i), PendingOf(i)', 1, n)
  BY <1>4, <1>5
<1>7. \A n \in Nat : SameAcks(q, toOrch'[i], PendingOf(i), PendingOf(i)', 1, n)
  BY <1>5, <1>6
<1>8. /\ \A k \in At(q, "ack") : 1 < k => k - 1 \in At(toOrch'[i], "ack") /\ toOrch'[i][k - 1] = q[k]
      /\ (Len(toOrch'[i]) + 1) + 1 = Len(q) + 1 /\ Len(toOrch'[i]) + 1 \in Nat /\ Len(toOrch'[i]) + 1 # 0
  BY <1>2, <1>5
<1> QED
  BY <1>7, <1>8

\* As AnnouncedKept, for a queue whose first frame is taken off.
LEMMA AnnouncedMoves ==
    ASSUME NEW i \in Instance, NEW n \in Nat, n # 0, NEW t \in Status, Announced(i, n + 1, t),
           SameAcks(toOrch[i], toOrch'[i], PendingOf(i), PendingOf(i)', 1, n),
           1 \in At(toOrch[i], "ack") /\ Confirms(PendingOf(i), toOrch[i][1].id, t) /\ Known(i)'
              => Decided(i, t)',
           (/\ Known(i) => Decided(i, t)
            /\ 1 \in At(toOrch[i], "ack") => \A u \in Status : ~Confirms(PendingOf(i), toOrch[i][1].id, u)
            /\ Known(i)')
              => Decided(i, t)'
    PROVE  Announced(i, n, t)'
<1> DEFINE s == 1
<1>1. s \in {0, 1} /\ s = 1
  OBVIOUS
<1>2. SameAcks(toOrch[i], toOrch'[i], PendingOf(i), PendingOf(i)', s, n) /\ Announced(i, n + s, t)
  OBVIOUS
<1> HIDE DEF s
<1>3. s = 1 /\ 1 \in At(toOrch[i], "ack") /\ Confirms(PendingOf(i), toOrch[i][1].id, t) /\ Known(i)'
         => Decided(i, t)'
  OBVIOUS
<1>4. (/\ Known(i) => Decided(i, t)
       /\ s = 1 /\ 1 \in At(toOrch[i], "ack") =>
            \A u \in Status : ~Confirms(PendingOf(i), toOrch[i][1].id, u)
       /\ Known(i)')
         => Decided(i, t)'
  BY <1>1
<1>5. n = 0 \/ Announced(i, n, t)'
  BY <1>1, <1>2, <1>3, <1>4, AnnouncedKept
<1> QED
  BY <1>5

LEMMA ReadsSeen ==
    ASSUME Inv, Polling, Once, Resumers, [Next]_vars, NEW p \in Process, NEW i \in Instance, i \in links,
           Reads(p, i), Answerable(i)', Answerable(i) => SeenAt(p, i)
    PROVE  SeenAt(p, i)'
<1> DEFINE q == toOrch[i]
           m == Head(q)
<1>1. /\ q # <<>> /\ m.type = "state" /\ m.snap \in Snapshot /\ toOrch'[i] = Tail(q) /\ records'[i] = m.snap
      /\ override'[i] = (IF override[i] = m.snap.status THEN Unknown ELSE override[i])
      /\ resuming' = resuming /\ status'[p] = status[p]
  BY DEF Reads
<1>2. q \in Seq(OrchFrames) /\ status[p] \in Status /\ TypeOK
  BY DEF Polling, TypeOK, OrchFrames
<1>3. PICK v \in Status : v = m.snap.status
  BY <1>1 DEF Snapshot
<1>4. 1 \in At(q, "state") /\ q[1] = m /\ 1 \notin At(q, "ack") /\ At(Tail(q), "state") = {}
  <2>1. \A k, l \in At(q, "state") : k = l
    BY DEF Polling, OnePoll, OnePollAt
  <2>2. q # <<>> /\ Head(q).type = "state"
    BY <1>1
  <2> HIDE DEF q
  <2>3. 1 \in At(q, "state") /\ q[1] = m /\ 1 \notin At(q, "ack")
    BY <1>2, <2>2 DEF At
  <2>4. \A k \in At(Tail(q), "state") : k + 1 \in At(q, "state") /\ k + 1 # 1
    BY <1>2, <2>2 DEF At
  <2> QED
    BY <2>1, <2>3, <2>4
<1>5. SeenAt(p, i)
  <2> DEFINE s == 1
  <2>1. s \in {0, 1} /\ s = 1
    OBVIOUS
  <2> HIDE DEF s
  <2>2. \A k \in At(toOrch[i], "ack") : s < k => k - s \in At(toOrch'[i], "ack") /\ toOrch'[i][k - s] = toOrch[i][k]
    BY <1>1, <2>1, TailAcks
  <2>3. s = 1 /\ 1 \in At(toOrch[i], "ack") => \E c \in PendingOf(i) : c.id = toOrch[i][1].id
    BY <1>4
  <2>4. Answerable(i)
    BY <2>1, <2>2, <2>3, AnswerableWas
  <2> QED
    BY <2>4
<1>6. (Known(i) => Decided(i, v)) /\ (~Known(i) => v = status[p])
  <2>1. Announced(i, 1, v) /\ (~Known(i) => v = status[p])
    BY <1>3, <1>4, <1>5 DEF SeenAt
  <2>2. \A k \in At(q, "ack") : ~(k < 1)
    BY DEF At
  <2> QED
    BY <2>1, <2>2 DEF Announced, Says
<1>7. EffectiveStatus(i)' = v \/ (Known(i) /\ Resumes(i) # {})
  <2>1. records'[i].status = v
    BY <1>1, <1>3
  <2>2. CASE ~Known(i)
    <3>1. override[i] = Unknown
      BY <2>2 DEF Inv, Books, GoneBooks
    <3> QED
      BY <1>1, <2>1, <3>1 DEF EffectiveStatus
  <2>3. CASE Known(i) /\ Resumes(i) = {}
    <3>1. EffectiveStatus(i) = v
      BY <1>6, <2>3 DEF Decided
    <3>2. override'[i] = Unknown
      BY <1>1, <1>3, <3>1 DEF EffectiveStatus
    <3> QED
      BY <2>1, <3>2 DEF EffectiveStatus
  <2> QED
    BY <2>2, <2>3
<1>8. Resumes(i)' = Resumes(i) /\ (~Known(i) => Resumes(i) = {})
  BY <1>1 DEF Resumes, Resumers
<1>9. ASSUME NEW t \in Status, Known(i) => Decided(i, t), ~Known(i) => t = v
      PROVE  Decided(i, t)'
  <2>1. CASE Known(i) /\ Resumes(i) # {}
    BY <1>1, <1>8, <1>9, <2>1 DEF Decided
  <2>2. CASE Known(i) /\ Resumes(i) = {}
    <3>1. t = v
      BY <1>6, <1>9, <2>2 DEF Decided
    <3> QED
      BY <1>7, <1>8, <2>2, <3>1 DEF Decided
  <2>3. CASE ~Known(i)
    BY <1>7, <1>8, <1>9, <2>3 DEF Decided
  <2> QED
    BY <2>1, <2>2, <2>3
<1>10. ASSUME NEW n, NEW t, n = Len(toOrch'[i]) + 1, t = status'[p]
       PROVE  Announced(i, n, t)'
  <2>1. /\ n \in Nat /\ n # 0 /\ n + 1 = Len(toOrch[i]) + 1
        /\ SameAcks(toOrch[i], toOrch'[i], PendingOf(i), PendingOf(i)', 1, n)
    BY <1>1, <1>10, TailAcks
  <2>2. t = status[p] /\ t \in Status /\ Announced(i, n + 1, t)
    BY <1>1, <1>2, <1>5, <1>10, <2>1 DEF SeenAt
  <2>3. 1 \notin At(toOrch[i], "ack")
    BY <1>4
  <2>4. (Known(i) => Decided(i, t)) => Decided(i, t)'
    BY <1>6, <1>9, <2>2
  <2> QED
    BY <2>1, <2>2, <2>3, <2>4, AnnouncedMoves
<1>11. At(toOrch'[i], "state") = {}
  BY <1>1, <1>4
<1> QED
  BY <1>10, <1>11, SeenNow

LEMMA AnswersSeen ==
    ASSUME Inv, Polling, Once, OkAcks, [Next]_vars, NEW p \in Process, NEW i \in Instance,
           Answers(p, i), Answerable(i)', Answerable(i) => SeenAt(p, i)
    PROVE  SeenAt(p, i)'
<1> DEFINE q == toOrch[i]
           m == Head(q)
<1>1. PICK c \in PendingOf(i) :
        /\ q # <<>> /\ m.type = "ack" /\ m.id = c.id /\ toOrch'[i] = Tail(q)
        /\ records'[i] = records[i] /\ override'[i] = override[i] /\ status'[p] = status[p]
        /\ resuming' = IF m.ok /\ c.op \in DOMAIN StatusOf
                       THEN Append(resuming, <<i, StatusOf[c.op]>>)
                       ELSE resuming
  BY DEF Answers
<1>2. q \in Seq(OrchFrames) /\ status[p] \in Status /\ TypeOK /\ resuming \in Seq(Instance \X Status)
  BY DEF Polling, TypeOK, OrchFrames
<1>3. c \in pending /\ c.inst = i /\ \A d \in PendingOf(i) : d.id = c.id => d = c
  BY DEF PendingOf, Once
<1>4. Known(i) /\ Known(i)'
  BY <1>1, <1>3 DEF Inv, Books, GoneBooks, Known
<1>5. 1 \in At(q, "ack") /\ q[1] = m
  <2>1. q # <<>> /\ Head(q).type = "ack"
    BY <1>1
  <2> HIDE DEF q
  <2> QED
    BY <1>2, <2>1 DEF At
<1>6. SeenAt(p, i)
  <2> DEFINE s == 1
  <2>1. s \in {0, 1} /\ s = 1
    OBVIOUS
  <2> HIDE DEF s
  <2>2. \A k \in At(toOrch[i], "ack") : s < k => k - s \in At(toOrch'[i], "ack") /\ toOrch'[i][k - s] = toOrch[i][k]
    BY <1>1, <2>1, TailAcks
  <2>3. s = 1 /\ 1 \in At(toOrch[i], "ack") => \E d \in PendingOf(i) : d.id = toOrch[i][1].id
    BY <1>1, <1>5
  <2>4. Answerable(i)
    BY <2>1, <2>2, <2>3, AnswerableWas
  <2> QED
    BY <2>4
<1>7. ASSUME NEW t \in Status
      PROVE  /\ Confirms(PendingOf(i), q[1].id, t) => Decided(i, t)'
             /\ (Known(i) => Decided(i, t)) /\ (\A u \in Status : ~Confirms(PendingOf(i), q[1].id, u))
                   => Decided(i, t)'
  <2>1. CASE c.op \in DOMAIN StatusOf
    <3>1. c.op # "create" /\ StatusOf[c.op] \in Status
      BY <2>1 DEF StatusOf, Status
    <3>2. m.ok
      BY <1>1, <1>3, <1>5, <3>1 DEF OkAcks
    <3>3. PICK u \in Status : u = StatusOf[c.op]
      BY <3>1
    <3>4. resuming' = Append(resuming, <<i, u>>)
      BY <1>1, <2>1, <3>2, <3>3
    <3>5. Len(resuming) + 1 \in Resumes(i)' /\ resuming'[Len(resuming) + 1][2] = u
          /\ \A k \in Resumes(i)' : k <= Len(resuming) + 1
      BY <1>2, <3>4 DEF Resumes
    <3>6. Decided(i, u)'
      BY <3>5 DEF Decided
    <3>7. Confirms(PendingOf(i), q[1].id, t) => t = u
      BY <1>1, <1>3, <1>5, <3>3 DEF Confirms
    <3>8. Confirms(PendingOf(i), q[1].id, u)
      BY <1>1, <1>5, <2>1, <3>3 DEF Confirms
    <3> QED
      BY <3>6, <3>7, <3>8
  <2>2. CASE c.op \notin DOMAIN StatusOf
    <3>1. SameMind(i)
      BY <1>1, <2>2 DEF SameMind
    <3>2. Decided(i, t) => Decided(i, t)'
      BY <1>2, <3>1, MindKept
    <3>3. ~Confirms(PendingOf(i), q[1].id, t)
      BY <1>1, <1>3, <1>5, <2>2 DEF Confirms
    <3> QED
      BY <1>4, <3>2, <3>3
  <2> QED
    BY <2>1, <2>2
<1>8. ASSUME NEW n \in Nat, n # 0, NEW t \in Status, Announced(i, n + 1, t)
      PROVE  Announced(i, n, t)'
  <2>1. SameAcks(toOrch[i], toOrch'[i], PendingOf(i), PendingOf(i)', 1, n)
    BY <1>1, TailAcks
  <2>2. 1 \in At(toOrch[i], "ack") /\ Confirms(PendingOf(i), toOrch[i][1].id, t) /\ Known(i)' => Decided(i, t)'
    BY <1>7
  <2>3. (/\ Known(i) => Decided(i, t)
         /\ 1 \in At(toOrch[i], "ack") => \A u \in Status : ~Confirms(PendingOf(i), toOrch[i][1].id, u)
         /\ Known(i)')
           => Decided(i, t)'
    BY <1>5, <1>7
  <2> QED
    BY <1>8, <2>1, <2>2, <2>3, AnnouncedMoves
<1>9. ASSUME NEW n \in At(toOrch'[i], "state"), NEW t, t = toOrch'[i][n].snap.status
      PROVE  Announced(i, n, t)' /\ (~Known(i)' => t = status'[p])
  <2>1. n + 1 \in At(q, "state") /\ toOrch'[i][n] = q[n + 1] /\ n \in Nat /\ n # 0
    <3>1. q # <<>> /\ toOrch'[i] = Tail(q)
      BY <1>1
    <3> HIDE DEF q
    <3> QED
      BY <1>2, <1>9, <3>1 DEF At
  <2>2. t \in Status /\ Announced(i, n + 1, t)
    BY <1>6, <1>9, <2>1, SnapStatus DEF SeenAt
  <2> QED
    BY <1>4, <1>8, <2>1, <2>2
<1>10. ASSUME NEW n, NEW t, n = Len(toOrch'[i]) + 1, t = status'[p]
       PROVE  Announced(i, n, t)'
  <2>1. n \in Nat /\ n # 0 /\ n + 1 = Len(toOrch[i]) + 1
    BY <1>1, <1>10, TailAcks
  <2>2. t \in Status /\ Announced(i, n + 1, t)
    BY <1>1, <1>2, <1>6, <1>10, <2>1 DEF SeenAt
  <2> QED
    BY <1>8, <2>1, <2>2
<1> QED
  BY <1>9, <1>10, SeenNow

LEMMA OkAcksStep ==
    ASSUME Inv, Polling, Once, OkAcks, [Next]_vars
    PROVE  OkAcks'
<1> SUFFICES ASSUME NEW i \in Instance, NEW k \in At(toOrch'[i], "ack"), NEW c \in pending',
                    c.id = toOrch'[i][k].id, c.op # "create"
             PROVE  toOrch'[i][k].ok
  BY DEF OkAcks
<1>1. c \in pending
  <2>1. toOrch'[i][k].id <= cmdSeq /\ cmdSeq \in Nat
    BY AcksIssued, TypesAre, FleetAssumption DEF Polling, BookTypes
  <2> QED
    BY <2>1, PendingMoves
<1>2. ASSUME NEW n \in At(toOrch[i], "ack"), toOrch[i][n] = toOrch'[i][k]
      PROVE  toOrch'[i][k].ok
  BY <1>1, <1>2 DEF OkAcks
<1>3. ASSUME NEW p \in Process, NEW d, Executes(p, d), toOrch'[i][k].id = d.id, toOrch'[i][k] = AckFrom(d)
      PROVE  toOrch'[i][k].ok
  <2>1. c = d
    BY <1>1, <1>3, Executed
  <2>2. AckFrom(d).ok = TRUE
    BY <2>1 DEF AckFrom
  <2> QED
    BY <1>3, <2>2
<1> QED
  BY <1>2, <1>3, FramesFrom

\* Links are opened by Connect only, for a connection that was not used before.
LEMMA LinksOpen ==
    ASSUME Inv, Polling, [Next]_vars, NEW i \in Instance, i \in links', i \notin links
    PROVE  \E p \in Process : i = NextConn(p) /\ Connect(p)
<1> DEFINE Other == \/ \E r \in RoomId : CreateRoom(r)
                    \/ \E j \in Instance, op \in Ops, r \in RoomId \cup {NoRoom} : SendCommand(j, op, r)
                    \/ \E c \in pending : CommandTimeout(c)
                    \/ \E j \in Instance : Frame(j) \/ Tick(j) \/ OrchestratorLoses(j)
                    \/ ResumeStatus
                    \/ \E p \in Process : AgentLoses(p) \/ AgentFrame(p)
                    \/ \E p \in Process, r \in RoomId : LocalCreate(p, r) \/ LocalDestroy(p, r)
                    \/ \E p \in Process, s \in Status : LocalStatus(p, s)
                    \/ UNCHANGED vars
<1>1. Other => links' \subseteq links
  BY DEF CreateRoom, SendCommand, CommandTimeout, Frame, HandleState, HandleAck, Kick, Teardown,
         Tick, TickPolls, TickMisses, OrchestratorLoses, ResumeStatus, AgentLoses, AgentFrame, AgentPoll,
         AgentCmd, LocalCreate, LocalDestroy, LocalStatus, vars
<1>2. \E p \in Process : Connect(p)
  BY <1>1 DEF Next
<1> QED
  BY <1>2, ConnectOpens DEF Polling

\* Where the callers that are to resume come from.
LEMMA ResumersFrom ==
    ASSUME Inv, Polling, [Next]_vars, NEW n \in 1..Len(resuming')
    PROVE  \/ \E k \in 1..Len(resuming) : resuming'[n] = resuming[k]
           \/ \E i \in Instance : resuming'[n][1] = i /\ Known(i) /\ toOrch[i] # <<>>
<1>1. resuming \in Seq(Instance \X Status)
  BY DEF Polling, TypeOK
<1>2. CASE resuming' = resuming
  BY <1>2
<1>3. CASE ResumeStatus
  <2>1. resuming # <<>> /\ resuming' = Tail(resuming)
    BY <1>3 DEF ResumeStatus, Quiet
  <2>2. n + 1 \in 1..Len(resuming) /\ resuming'[n] = resuming[n + 1]
    BY <1>1, <2>1
  <2> QED
    BY <2>2
<1>4. ASSUME NEW i \in Instance, HandleAck(i)
      PROVE  \/ resuming' = resuming
             \/ \E s : resuming' = Append(resuming, <<i, s>>) /\ Known(i) /\ toOrch[i] # <<>>
  <2> DEFINE m == Head(toOrch[i])
             C == {c \in PendingOf(i) : c.id = m.id}
  <2>1. CASE C = {}
    BY <1>4, <2>1 DEF HandleAck, Kick
  <2>2. CASE C # {}
    <3>1. PICK c \in C : Acked(c, m.ok)
      BY <1>4, <2>2 DEF HandleAck
    <3>2. c \in pending /\ c.inst = i
      BY DEF PendingOf
    <3>3. Known(i) /\ toOrch[i] # <<>>
      BY <1>4, <3>2 DEF HandleAck, Inv, Books, GoneBooks
    <3>4. resuming' = resuming \/ resuming' = Append(resuming, <<i, StatusOf[c.op]>>)
      BY <3>1, <3>2 DEF Acked
    <3> QED
      BY <3>3, <3>4
  <2> QED
    BY <2>1, <2>2
<1>5. ASSUME NEW i \in Instance, NEW s, resuming' = Append(resuming, <<i, s>>)
      PROVE  resuming'[n][1] = i \/ \E k \in 1..Len(resuming) : resuming'[n] = resuming[k]
  BY <1>1, <1>5
<1> DEFINE Other == \/ \E r \in RoomId : CreateRoom(r)
                    \/ \E j \in Instance, op \in Ops, r \in RoomId \cup {NoRoom} : SendCommand(j, op, r)
                    \/ \E c \in pending : CommandTimeout(c)
                    \/ \E j \in Instance : HandleState(j) \/ Tick(j) \/ OrchestratorLoses(j)
                    \/ \E p \in Process : Connect(p) \/ AgentLoses(p) \/ AgentFrame(p)
                    \/ \E p \in Process, r \in RoomId : LocalCreate(p, r) \/ LocalDestroy(p, r)
                    \/ \E p \in Process, s \in Status : LocalStatus(p, s)
                    \/ UNCHANGED vars
<1>6. Other => resuming' = resuming
  BY DEF CreateRoom, SendCommand, CommandTimeout, HandleState, Kick,
         Tick, TickPolls, TickMisses, OrchestratorLoses, Connect, AgentLoses, AgentFrame, AgentPoll,
         AgentCmd, LocalCreate, LocalDestroy, LocalStatus, vars
<1>7. Other \/ ResumeStatus \/ \E i \in Instance : HandleAck(i)
  BY DEF Next, Frame
<1> QED
  BY <1>2, <1>3, <1>4, <1>5, <1>6, <1>7

LEMMA ConnectsGrow ==
    ASSUME Inv, [Next]_vars, NEW p \in Process
    PROVE  connects[p] \in Nat /\ connects'[p] \in Nat /\ connects[p] <= connects'[p]
<1>1. connects \in [Process -> 0..MaxConnects] /\ MaxConnects \in Nat
  BY FleetAssumption DEF Inv, Wires, AgentsOK
<1>2. connects' = connects \/ \E q \in Process : connects' = [connects EXCEPT ![q] = @ + 1]
  BY DEF Next, CreateRoom, SendCommand, CommandTimeout, Frame, HandleState, HandleAck,
         Tick, TickPolls, TickMisses, OrchestratorLoses, Connect, AgentLoses, AgentFrame, AgentPoll,
         AgentCmd, ResumeStatus, LocalCreate, LocalDestroy, LocalStatus, vars, netVars
<1> QED
  BY <1>1, <1>2

LEMMA ResumersStep ==
    ASSUME Inv, Polling, Resumers, [Next]_vars
    PROVE  Resumers'
<1> DEFINE Good(j) == j[2] <= connects[j[1]] /\ (j \in links => Known(j))
<1>1. ASSUME NEW j \in Instance, Good(j)
      PROVE  Good(j)'
  <2>1. j[1] \in Process /\ j[2] \in Nat
    BY FleetAssumption DEF Instance
  <2>2. j[2] <= connects'[j[1]]
    BY <1>1, <2>1, ConnectsGrow
  <2>3. CASE j \in links /\ j \in links'
    <3>1. Known(j) /\ BookTypes
      BY <1>1, <2>3, TypesAre DEF Polling
    <3>2. CASE Applies(j)
      BY <2>2, <3>1, <3>2, UnknownAssumption DEF Applies, BookTypes, Known
    <3>3. ~Removes(j)
      BY <2>3 DEF Removes, Teardown
    <3> QED
      BY <2>2, <3>1, <3>2, <3>3, BooksMoved DEF Known
  <2>4. CASE j \notin links /\ j \in links'
    <3>1. PICK p \in Process : j = NextConn(p)
      BY <2>4, LinksOpen
    <3>2. j[1] = p /\ j[2] = connects[p] + 1 /\ connects[p] \in Nat
      BY <3>1, ConnectsGrow DEF NextConn
    <3> QED
      BY <1>1, <3>2
  <2> QED
    BY <2>2, <2>3, <2>4
<1>2. ASSUME NEW j \in Instance, Known(j), toOrch[j] # <<>>
      PROVE  Good(j)
  <2>1. j[1] \in Process /\ j[2] \in Nat
    BY FleetAssumption DEF Instance
  <2>2. ~(connects[j[1]] < j[2])
    BY <1>2 DEF Polling, Fresh, Unused
  <2> QED
    BY <1>2, <2>1, <2>2, ConnectsGrow
<1>3. ASSUME NEW n \in 1..Len(resuming')
      PROVE  \E j \in Instance : j = resuming'[n][1] /\ Good(j)'
  <2>1. ASSUME NEW k \in 1..Len(resuming), resuming'[n] = resuming[k]
        PROVE  \E j \in Instance : j = resuming'[n][1] /\ Good(j)'
    <3>1. PICK j \in Instance : j = resuming[k][1]
      BY DEF Polling, TypeOK
    <3>2. Good(j)
      BY <3>1 DEF Resumers
    <3>3. Good(j)'
      BY <1>1, <3>2
    <3> QED
      BY <2>1, <3>1, <3>3
  <2>2. ASSUME NEW j \in Instance, resuming'[n][1] = j, Known(j), toOrch[j] # <<>>
        PROVE  Good(j)'
    BY <1>1, <1>2, <2>2
  <2> QED
    BY <2>1, <2>2, ResumersFrom
<1> QED
  BY <1>3 DEF Resumers

\* A connection that opens has reported nothing.
LEMMA OpenedSeen ==
    ASSUME NEW p \in Process, NEW i \in Instance, toOrch'[i] = <<>>, ~Known(i)'
    PROVE  SeenAt(p, i)'
<1>1. At(toOrch'[i], "state") = {} /\ At(toOrch'[i], "ack") = {}
  BY AtNone
<1>2. ASSUME NEW n, NEW t
      PROVE  Announced(i, n, t)'
  <2>1. Silent(toOrch'[i], PendingOf(i)', 0, n)
    BY <1>1 DEF Silent
  <2> QED
    BY <2>1 DEF Announced
<1> QED
  BY <1>1, <1>2, SeenNow

LEMMA SeenStep ==
    ASSUME "status" \notin Local, Inv, Polling, Once, OkAcks, Resumers, Seen, [Next]_vars
    PROVE  Seen'
<1>1. ASSUME NEW p \in Process, NEW i \in Instance, i = Conn(p), current[p] # 0, current'[p] = current[p],
             i \in links', Answerable(i)'
      PROVE  SeenAt(p, i)'
  <2>1. StatusMove(p, i)
    BY <1>1, StatusMoveStep
  <2>2. i \in links
    <3> SUFFICES ASSUME i \notin links PROVE FALSE
      OBVIOUS
    <3>1. PICK q \in Process : i = NextConn(q) /\ Connect(q)
      BY <1>1, LinksOpen
    <3>2. q = p
      BY <1>1, <3>1 DEF NextConn, Conn
    <3> QED
      BY <1>1, <3>1, <3>2 DEF Connect
  <2>3. Answerable(i) => SeenAt(p, i)
    BY <1>1, <2>2 DEF Seen
  <2> QED
    BY <1>1, <2>1, <2>2, <2>3, StaysSeen, ShowsSeen, ObeysSeen, ReadsSeen, AnswersSeen DEF StatusMove
<1>2. ASSUME NEW p \in Process, current'[p] # current[p], current'[p] # 0
      PROVE  \E i \in Instance : i = <<p, current'[p]>> /\ toOrch'[i] = <<>> /\ ~Known(i)'
  <2>1. Move /\ AgentsOK
    BY MoveStep DEF Inv, Wires
  <2>2. ~\E q \in Process : Unplugs(q)
    BY <1>2, <2>1 DEF Unplugs, AgentsOK
  <2>3. PICK i \in Instance, q \in Process :
            /\ Polls(i) /\ NextConn(q) = i /\ Unused(i) /\ current' = [current EXCEPT ![q] = connects[q] + 1]
    BY <1>2, <2>1, <2>2 DEF Move, Issues, TimesOut, Settles, Applies, Removes, Polls, Reports, Executes, Aside, agents
  <2>4. q = p /\ current'[p] = connects[p] + 1
    BY <1>2, <2>1, <2>3 DEF AgentsOK
  <2>5. records' = records /\ toOrch'[i] = <<>> /\ ~Known(i)
    BY <2>3 DEF Polls, Unused, Inv, Books, GoneBooks
  <2> QED
    BY <2>3, <2>4, <2>5 DEF NextConn, Known
<1>3. ASSUME NEW p \in Process, NEW i \in Instance, current'[p] # 0, i = <<p, current'[p]>>, i \in links',
             Answerable(i)'
      PROVE  SeenAt(p, i)'
  <2>1. CASE current'[p] = current[p]
    <3>1. i = Conn(p) /\ current[p] # 0
      BY <1>3, <2>1 DEF Conn
    <3> QED
      BY <1>1, <1>3, <2>1, <3>1
  <2>2. CASE current'[p] # current[p]
    <3>1. toOrch'[i] = <<>> /\ ~Known(i)'
      BY <1>2, <1>3, <2>2 DEF Known
    <3> QED
      BY <3>1, OpenedSeen
  <2> QED
    BY <2>1, <2>2
<1>4. \A p \in Process : Conn(p)' = <<p, current'[p]>>
  BY DEF Conn
<1> QED
  BY <1>3, <1>4 DEF Seen

LEMMA StatusInit == Init => OkAcks /\ Resumers /\ Seen
<1> SUFFICES ASSUME Init PROVE OkAcks /\ Resumers /\ Seen
  OBVIOUS
<1>1. pending = {} /\ resuming = <<>> /\ \A p \in Process : current[p] = 0
  BY DEF Init
<1>2. 1..Len(resuming) = {}
  BY <1>1
<1> QED
  BY <1>1, <1>2 DEF OkAcks, Resumers, Seen

LEMMA StatusSeen == Inv /\ Seen => PlacementSeesStatus
<1> SUFFICES ASSUME Inv, Seen, NEW p \in Process, Reporting(p), StatusCommandsSettled(Conn(p))
             PROVE  EffectiveStatus(Conn(p)) = status[p]
  BY DEF PlacementSeesStatus
<1>1. PICK i \in Instance : i = Conn(p)
  BY MovedConn DEF Reporting
<1>2. Quiet /\ \A n \in 1..Len(toOrch[i]) : toOrch[i][n].type = "state"
  BY <1>1 DEF StatusCommandsSettled
<1>3. At(toOrch[i], "ack") = {}
  BY <1>2 DEF At
<1>4. current[p] # 0 /\ i \in links /\ Known(i)
  BY <1>1 DEF Reporting
<1>5. SeenAt(p, i)
  BY <1>1, <1>3, <1>4 DEF Seen, Answerable
<1>6. Decided(i, status[p])
  BY <1>3, <1>4, <1>5 DEF SeenAt, Announced, Says
<1>7. Resumes(i) = {}
  BY <1>2 DEF Resumes, Quiet
<1> QED
  BY <1>1, <1>6, <1>7 DEF Decided

\* Placement goes by the status an agent really has once its status commands are settled,
\* however acks, resumed callers and replies with an older snapshot interleave, as long as
\* applications do not call drain() or undrain() on the agent themselves (FleetState.ts,
\* setPendingStatus and reconcilePendingStatus).
THEOREM StatusAlwaysSeen ==
    ASSUME "status" \notin Local
    PROVE  Spec => []PlacementSeesStatus
<1> DEFINE All == Inv /\ Polling /\ Placed /\ OkAcks /\ Resumers /\ Seen
<1>1. Init => All
  BY InitInv, PollingInit, PlacedInit, StatusInit
<1>2. All /\ [Next]_vars => All'
  <2> SUFFICES ASSUME All, [Next]_vars PROVE All'
    OBVIOUS
  <2>1. Inv' /\ Polling' /\ Placed'
    BY PollingStep, PlacedStep
  <2>2. Once
    BY DEF Placed
  <2> QED
    BY <2>1, <2>2, OkAcksStep, ResumersStep, SeenStep
<1>3. All => PlacementSeesStatus
  BY StatusSeen
<1> HIDE DEF All
<1> QED
  BY <1>1, <1>2, <1>3, PTL DEF Spec
==============================================================================
