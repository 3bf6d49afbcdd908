------------------------ MODULE TransportLayerProofs ------------------------
(***************************************************************************)
(* TransportLayer, for every number of connections, rooms, ids, frames and *)
(* promises of user code.  The rooms first: their actor maps agree with    *)
(* TLayer.roomIds, the capacity bound holds, emptied rooms are torn down.  *)
(* Then a connection from the handshake to its close: nothing outlives its *)
(* socket, a room hears no closed client, the layer implements Membership, *)
(* and no message to a member is lost.                                     *)
(*                                                                         *)
(* The last three are about ids that are not used again, or about clients  *)
(* that send nothing (NoReuse): a frame for a destroyed room otherwise     *)
(* unregisters the id of a connection that still listens, and a reconnect  *)
(* may take it.                                                            *)
(***************************************************************************)
EXTENDS TransportLayerRefinement, FiniteSetTheorems, TLAPS

-----------------------------------------------------------------------------
(* The operators the emission actions are built from keep their types.     *)

LEMMA ClosingType ==
    ASSUME TypeOK, NEW C
    PROVE  Closing(C) \in [Conn -> {"none", "open", "closing", "closed"}]
  BY DEF TypeOK, Closing

LEMMA HoldType ==
    ASSUME NEW held \in [ActorId -> Seq(Nat)], NEW ids, NEW S, NEW n \in Nat
    PROVE  Hold(held, ids, S, n) \in [ActorId -> Seq(Nat)]
  <1>1. \A a \in ActorId : Append(held[a], n) \in Seq(Nat)
    OBVIOUS
  <1> QED
    BY <1>1 DEF Hold

LEMMA WriteType ==
    ASSUME NEW out \in [Conn -> Seq(Nat)], NEW S, NEW n \in Nat
    PROVE  Write(out, S, n) \in [Conn -> Seq(Nat)]
  <1>1. \A c \in Conn : Append(out[c], n) \in Seq(Nat)
    OBVIOUS
  <1> QED
    BY <1>1 DEF Write

LEMMA ExpectType ==
    ASSUME NEW log \in [Conn -> Seq(Nat)], NEW C, NEW n \in Nat
    PROVE  Expect(log, C, n) \in [Conn -> Seq(Nat)]
  <1>1. \A c \in Conn : Append(log[c], n) \in Seq(Nat)
    OBVIOUS
  <1> QED
    BY <1>1 DEF Expect

LEMMA ForgetHeld ==
    ASSUME NEW held \in [ActorId -> Seq(Nat)], NEW a
    PROVE  [held EXCEPT ![a] = <<>>] \in [ActorId -> Seq(Nat)]
  <1>1. <<>> \in Seq(Nat)
    OBVIOUS
  <1> QED
    BY <1>1

-----------------------------------------------------------------------------
(* The queue: what a job appended, and one taken off, leave behind.        *)

LEMMA JobsAppend ==
    ASSUME NEW q \in Seq(Job), NEW k \in Job
    PROVE  Append(q, k) \in Seq(Job)
  OBVIOUS

LEMMA JobsTail ==
    ASSUME NEW q \in Seq(Job), q # <<>>
    PROVE  Tail(q) \in Seq(Job) /\ Head(q) \in Job
  OBVIOUS

LEMMA JobOf ==
    ASSUME NEW kind \in Kinds, NEW c \in Conn, NEW n \in Nat
    PROVE  <<kind, c, n>> \in Job
  BY DEF Job

LEMMA EmptyJob ==
    ASSUME NEW r \in Room, NEW n \in Nat
    PROVE  <<"empty", r, n>> \in Job
  BY DEF Job

\* The jobs of a queue, in whatever order.
Elems(q) == {q[i] : i \in 1..Len(q)}

LEMMA ElemsOfTail ==
    ASSUME NEW q \in Seq(Job), q # <<>>
    PROVE  Elems(q) = Elems(Tail(q)) \cup {Head(q)}
  <1> DEFINE t == Tail(q)
  <1>1. /\ Len(q) \in Nat \ {0} /\ Len(t) = Len(q) - 1
        /\ \A i \in 1..Len(t) : t[i] = q[i + 1]
        /\ Head(q) = q[1]
    OBVIOUS
  <1> HIDE DEF t
  <1>2. ASSUME NEW i \in 1..Len(q) PROVE i = 1 \/ (i - 1 \in 1..Len(t) /\ t[i - 1] = q[i])
    BY <1>1
  <1>3. ASSUME NEW i \in 1..Len(t) PROVE i + 1 \in 1..Len(q) /\ t[i] = q[i + 1]
    BY <1>1
  <1>4. 1 \in 1..Len(q)
    BY <1>1
  <1>5. Elems(q) \subseteq Elems(t) \cup {Head(q)}
    BY <1>1, <1>2 DEF Elems
  <1>6. Elems(t) \subseteq Elems(q) /\ Head(q) \in Elems(q)
    BY <1>1, <1>3, <1>4 DEF Elems
  <1> QED
    BY <1>5, <1>6 DEF t

LEMMA ElemsOfAppend ==
    ASSUME NEW q \in Seq(Job), NEW k \in Job
    PROVE  Elems(Append(q, k)) = Elems(q) \cup {k}
  <1> DEFINE s == Append(q, k)
  <1>1. /\ Len(q) \in Nat /\ Len(s) = Len(q) + 1
        /\ \A i \in 1..Len(q) : s[i] = q[i]
        /\ s[Len(q) + 1] = k
    OBVIOUS
  <1> HIDE DEF s
  <1>2. \A i \in 1..Len(s) : (i \in 1..Len(q) /\ s[i] = q[i]) \/ s[i] = k
    BY <1>1
  <1>3. 1..Len(q) \subseteq 1..Len(s) /\ Len(q) + 1 \in 1..Len(s)
    BY <1>1
  <1>4. Elems(s) \subseteq Elems(q) \cup {k}
    BY <1>2 DEF Elems
  <1>5. Elems(q) \cup {k} \subseteq Elems(s)
    BY <1>1, <1>3 DEF Elems
  <1> QED
    BY <1>4, <1>5 DEF s

-----------------------------------------------------------------------------
(* The compound operators: what they preserve, whichever action uses them. *)

\* The variables Destroy, HandleClose and grantAccess assign.
RoomPart ==
    /\ exists \subseteq Room
    /\ gen \in [Room -> Nat]
    /\ actors \in [Room -> SUBSET ActorId]
    /\ visited \subseteq Room
    /\ roomIds \in [ActorId -> Room \cup {NoRoom}]
    /\ listeners \in [ActorId -> SUBSET Conn]
    /\ heldMsgs \in [ActorId -> Seq(Nat)]
    /\ heldKick \subseteq ActorId
    /\ buckets \subseteq ActorId
    /\ emits \in Nat
    /\ expected \in [Conn -> Seq(Nat)]
    /\ delivered \in [Conn -> Seq(Nat)]

LEMMA DestroyType ==
    ASSUME TypeOK, NEW R \in SUBSET Room, Destroy(R)
    PROVE  /\ RoomPart'
           /\ sock' \in [Conn -> {"none", "open", "closing", "closed"}]
  <1>1. UNION {actors[r] : r \in R} \subseteq ActorId
    BY DEF TypeOK
  <1>2. heldKick' \subseteq ActorId
    BY <1>1 DEF TypeOK, Destroy, EmitKick
  <1>3. actors' \in [Room -> SUBSET ActorId]
    BY DEF TypeOK, Destroy, Cleared
  <1>4. sock' \in [Conn -> {"none", "open", "closing", "closed"}]
    BY ClosingType DEF Destroy, EmitKick
  <1> QED
    BY <1>2, <1>3, <1>4 DEF TypeOK, RoomPart, Destroy, emitVars

LEMMA SendType ==
    ASSUME TypeOK, NEW S, Send(S)
    PROVE  /\ emits' \in Nat
           /\ delivered' \in [Conn -> Seq(Nat)]
           /\ expected' \in [Conn -> Seq(Nat)]
  <1>1. emits + 1 \in Nat
    BY DEF TypeOK
  <1> QED
    BY <1>1, WriteType, ExpectType DEF TypeOK, Send

LEMMA HandleLeaveType ==
    ASSUME TypeOK, NEW a \in ActorId, NEW r \in Room, NEW q \in Seq(Job),
           HandleLeave(r, a, q)
    PROVE  /\ actors' \in [Room -> SUBSET ActorId]
           /\ emits' \in Nat
           /\ delivered' \in [Conn -> Seq(Nat)]
           /\ expected' \in [Conn -> Seq(Nat)]
           /\ heldMsgs' \in [ActorId -> Seq(Nat)]
           /\ jobs' \in Seq(Job)
  <1> DEFINE rest == actors[r] \ {a}
  <1>1. actors' \in [Room -> SUBSET ActorId]
    BY DEF TypeOK, HandleLeave
  <1>4. jobs' \in Seq(Job)
    <2>1. <<"empty", r, gen[r]>> \in Job
      BY EmptyJob DEF TypeOK
    <2> QED
      BY <2>1, JobsAppend DEF HandleLeave
  <1>2. CASE Presence
    <2>1. Send(rest)
      BY <1>2 DEF HandleLeave
    <2>2. heldMsgs' = [Hold(heldMsgs, roomIds, rest, emits + 1)
                          EXCEPT ![a] = <<>>]
      BY <1>2 DEF HandleLeave
    <2>3. Hold(heldMsgs, roomIds, rest, emits + 1) \in [ActorId -> Seq(Nat)]
      <3>1. emits + 1 \in Nat /\ heldMsgs \in [ActorId -> Seq(Nat)]
        BY DEF TypeOK
      <3> QED
        BY ONLY <3>1, HoldType
    <2>4. heldMsgs' \in [ActorId -> Seq(Nat)]
      BY ONLY <2>2, <2>3, ForgetHeld
    <2> QED
      BY <1>1, <1>4, <2>1, <2>4, SendType
  <1>3. CASE ~Presence
    <2>1. heldMsgs' = [heldMsgs EXCEPT ![a] = <<>>] /\ UNCHANGED emitVars
      BY <1>3 DEF HandleLeave
    <2>2. heldMsgs' \in [ActorId -> Seq(Nat)]
      BY <2>1, ForgetHeld DEF TypeOK
    <2> QED
      BY <1>1, <1>4, <2>1, <2>2 DEF TypeOK, emitVars
  <1> QED
    BY <1>2, <1>3

LEMMA HandleCloseType ==
    ASSUME TypeOK, NEW a \in ActorId, NEW q \in Seq(Job), HandleClose(a, q)
    PROVE  RoomPart' /\ jobs' \in Seq(Job)
  <1>1. /\ actors' \in [Room -> SUBSET ActorId]
        /\ emits' \in Nat
        /\ delivered' \in [Conn -> Seq(Nat)]
        /\ expected' \in [Conn -> Seq(Nat)]
        /\ heldMsgs' \in [ActorId -> Seq(Nat)]
        /\ jobs' \in Seq(Job)
    <2>1. CASE InRoom(a)
      BY <2>1, HandleLeaveType DEF TypeOK, HandleClose, InRoom
    <2>2. CASE ~InRoom(a)
      <3>1. /\ heldMsgs' = [heldMsgs EXCEPT ![a] = <<>>]
            /\ jobs' = q
            /\ UNCHANGED <<actors, emitVars>>
        BY <2>2 DEF HandleClose
      <3>2. heldMsgs' \in [ActorId -> Seq(Nat)]
        BY <3>1, ForgetHeld DEF TypeOK
      <3> QED
        BY <3>1, <3>2 DEF TypeOK, emitVars
    <2> QED
      BY <2>1, <2>2
  <1> QED
    BY <1>1 DEF TypeOK, RoomPart, HandleClose, Unregistered

LEMMA AllocatableType ==
    ASSUME NEW c \in Conn, NEW a \in Allocatable(c)
    PROVE  a \in ActorId /\ roomIds[a] = NoRoom
  BY DEF Allocatable, ActorId

LEMMA JoinType ==
    ASSUME TypeOK, NEW c \in Conn, NEW r \in Room, NEW a \in Allocatable(c),
           NEW greet \in BOOLEAN, NEW kick \in BOOLEAN,
           Join(c, r, a, greet, kick)
    PROVE  /\ RoomPart'
           /\ sock' \in [Conn -> {"none", "open", "closing", "closed"}]
           /\ phase' \in [Conn -> Phases]
           /\ aid' \in [Conn -> ActorId]
           /\ closeVars' = closeVars
  <1> DEFINE ids     == [roomIds EXCEPT ![a] = r]
             members == actors[r] \cup {a}
             n       == emits + (IF greet THEN 1 ELSE 0)
             heldG   == IF greet THEN Hold(heldMsgs, ids, {a}, n) ELSE heldMsgs
             outG    == IF greet THEN Write(delivered, {a}, n) ELSE delivered
             expG    == IF greet THEN Expect(expected, {c}, n) ELSE expected
  <1>1. a \in ActorId
    BY AllocatableType
  <1>2. n \in Nat /\ n + 1 \in Nat
    BY DEF TypeOK
  <1>3. heldG \in [ActorId -> Seq(Nat)]
    <2>1. heldMsgs \in [ActorId -> Seq(Nat)]
      BY DEF TypeOK
    <2>2. Hold(heldMsgs, ids, {a}, n) \in [ActorId -> Seq(Nat)]
      BY ONLY <2>1, <1>2, HoldType
    <2> QED
      BY <2>1, <2>2
  <1>4. outG \in [Conn -> Seq(Nat)] /\ expG \in [Conn -> Seq(Nat)]
    <2>1. delivered \in [Conn -> Seq(Nat)] /\ expected \in [Conn -> Seq(Nat)]
      BY DEF TypeOK
    <2>2. /\ Write(delivered, {a}, n) \in [Conn -> Seq(Nat)]
          /\ Expect(expected, {c}, n) \in [Conn -> Seq(Nat)]
      BY ONLY <2>1, <1>2, WriteType, ExpectType
    <2> QED
      BY <2>1, <2>2
  <1>5. /\ Hold(heldG, ids, members, n + 1) \in [ActorId -> Seq(Nat)]
        /\ Write(outG, members, n + 1) \in [Conn -> Seq(Nat)]
        /\ Expect(expG, Owners(members) \cup {c}, n + 1) \in [Conn -> Seq(Nat)]
    <2> HIDE DEF n, heldG, outG, expG, members, ids
    <2> QED
      BY ONLY <1>2, <1>3, <1>4, HoldType, WriteType, ExpectType
  <1>6. /\ emits' = IF Presence THEN n + 1 ELSE n
        /\ heldMsgs' = IF Presence THEN Hold(heldG, ids, members, n + 1)
                                   ELSE heldG
        /\ delivered' = IF Presence THEN Write(outG, members, n + 1) ELSE outG
        /\ expected' = IF Presence
                       THEN Expect(expG, Owners(members) \cup {c}, n + 1)
                       ELSE expG
    BY DEF Join
  <1>7. /\ emits' \in Nat
        /\ heldMsgs' \in [ActorId -> Seq(Nat)]
        /\ delivered' \in [Conn -> Seq(Nat)]
        /\ expected' \in [Conn -> Seq(Nat)]
    <2> HIDE DEF n, heldG, outG, expG, members, ids
    <2> QED
      BY ONLY <1>2, <1>3, <1>4, <1>5, <1>6
  <1>8. sock' \in [Conn -> {"none", "open", "closing", "closed"}]
    BY ClosingType DEF TypeOK, Join
  <1>9. /\ exists' = exists /\ gen' = gen
        /\ actors' = [actors EXCEPT ![r] = members]
        /\ visited' = visited \cup {r}
        /\ roomIds' = ids
        /\ heldKick' \in {heldKick, heldKick \cup {a}}
        /\ aid' = [aid EXCEPT ![c] = a]
        /\ phase' = [phase EXCEPT ![c] = "joined"]
        /\ UNCHANGED <<listeners, buckets, closeVars>>
    BY DEF Join
  <1> QED
    BY <1>1, <1>7, <1>8, <1>9 DEF TypeOK, RoomPart, Phases

\* What Join does to the membership, whatever it emits.
LEMMA JoinMembership ==
    ASSUME NEW c, NEW r, NEW a, NEW greet, NEW kick,
           Join(c, r, a, greet, kick)
    PROVE  /\ r \in exists
           /\ Cardinality(actors[r]) < MaxActors
           /\ exists' = exists
           /\ roomIds' = [roomIds EXCEPT ![a] = r]
           /\ actors' = [actors EXCEPT ![r] = actors[r] \cup {a}]
  BY DEF Join, CanJoin

LEMMA JoinThrowsType ==
    ASSUME TypeOK, NEW c \in Conn, NEW r \in Room, NEW a \in Allocatable(c),
           NEW greet \in BOOLEAN, JoinThrows(c, r, a, greet)
    PROVE  /\ RoomPart'
           /\ phase' \in [Conn -> Phases]
           /\ UNCHANGED <<sock, closeVars, aid>>
  <1> DEFINE ids  == [roomIds EXCEPT ![a] = r]
             n    == emits + 1
             sent == IF greet THEN Hold(heldMsgs, ids, {a}, n) ELSE heldMsgs
  <1>1. a \in ActorId
    BY AllocatableType
  <1>2. n \in Nat
    BY DEF TypeOK
  <1>3. sent \in [ActorId -> Seq(Nat)]
    <2>1. heldMsgs \in [ActorId -> Seq(Nat)]
      BY DEF TypeOK
    <2>2. Hold(heldMsgs, ids, {a}, n) \in [ActorId -> Seq(Nat)]
      BY ONLY <2>1, <1>2, HoldType
    <2> QED
      BY <2>1, <2>2
  <1>4. heldMsgs' \in [ActorId -> Seq(Nat)]
    <2>1. heldMsgs' = [sent EXCEPT ![a] = <<>>]
      BY DEF JoinThrows
    <2> HIDE DEF sent
    <2> QED
      BY ONLY <2>1, <1>3, ForgetHeld
  <1>5. delivered' \in [Conn -> Seq(Nat)]
    <2>1. delivered \in [Conn -> Seq(Nat)]
      BY DEF TypeOK
    <2>2. Write(delivered, {a}, n) \in [Conn -> Seq(Nat)]
      BY ONLY <2>1, <1>2, WriteType
    <2> QED
      BY <2>1, <2>2 DEF JoinThrows
  <1>6. /\ emits' \in {emits, n}
        /\ heldKick' = heldKick \ {a}
        /\ listeners' = [listeners EXCEPT ![a] = {}]
        /\ phase' = [phase EXCEPT ![c] = "refused"]
        /\ UNCHANGED <<roomVars, roomIds, buckets, sock, closeVars, aid,
                       expected>>
    BY DEF JoinThrows
  <1> QED
    BY <1>1, <1>2, <1>4, <1>5, <1>6
       DEF TypeOK, RoomPart, Phases, roomVars, closeVars

-----------------------------------------------------------------------------
(* Type correctness.                                                       *)

LEMMA TypeInit == Init => TypeOK
  <1> SUFFICES ASSUME Init PROVE TypeOK
    OBVIOUS
  <1>1. <<>> \in Seq(Nat) /\ <<>> \in Seq(Job)
    OBVIOUS
  <1> QED
    BY <1>1 DEF Init, TypeOK, ActorId, Phases

\* What the continuations of one connection have in common.
LEMMA RunningType ==
    ASSUME TypeOK, NEW kind, NEW x, Running(kind, x)
    PROVE  /\ jobs # <<>>
           /\ Tail(jobs) \in Seq(Job)
           /\ Head(jobs) \in Job
  <1>1. jobs # <<>> /\ jobs \in Seq(Job)
    BY DEF Running, Quiet, TypeOK
  <1> QED
    BY <1>1, JobsTail

LEMMA ConnectType ==
    ASSUME TypeOK, NEW c \in Conn, Connect(c) \/ Limited(c) \/ Refused(c)
    PROVE  TypeOK'
  <1>1. {<<"authenticated", c, 0>>, <<"limited", c, 0>>} \subseteq Job
    BY JobOf DEF Kinds
  <1>2. CASE Connect(c)
    <2>1. /\ \E s \in {"open", "closing"} : sock' = [sock EXCEPT ![c] = s]
          /\ \E p \in {"limiting", "authenticating", "over"} : phase' = [phase EXCEPT ![c] = p]
          /\ \/ awaiting' = awaiting
             \/ \E j \in Job : awaiting' = awaiting \cup {j}
      BY <1>1, <1>2 DEF Connect, BeginAuth
    <2>2. sock' \in [Conn -> {"none", "open", "closing", "closed"}]
      BY <2>1 DEF TypeOK
    <2>3. phase' \in [Conn -> Phases]
      BY <2>1 DEF TypeOK, Phases
    <2>4. awaiting' \subseteq Job
      BY <2>1 DEF TypeOK
    <2>5. UNCHANGED <<roomVars, layerVars, closeVars, aid, jobs, emitVars, frameVars, disposed>>
      BY <1>2 DEF Connect
    <2> QED
      BY <2>2, <2>3, <2>4, <2>5
         DEF TypeOK, roomVars, layerVars, closeVars, emitVars, frameVars
  <1>3. CASE Limited(c)
    <2>1. Tail(jobs) \in Seq(Job)
      BY <1>3, RunningType DEF Limited
    <2>2. /\ sock' \in [Conn -> {"none", "open", "closing", "closed"}]
          /\ phase' \in [Conn -> Phases]
          /\ awaiting' \subseteq Job
      <3>1. CASE BeginAuth(c) /\ UNCHANGED sock
        BY <1>1, <3>1 DEF TypeOK, BeginAuth, Phases
      <3>2. CASE /\ sock' = Closing({c})
                 /\ phase' = [phase EXCEPT ![c] = "over"]
                 /\ UNCHANGED awaiting
        BY <3>2, ClosingType DEF TypeOK, Phases
      <3> QED
        BY <1>3, <3>1, <3>2 DEF Limited
    <2> QED
      BY <1>3, <2>1, <2>2 DEF TypeOK, Limited, roomVars, layerVars, closeVars,
         emitVars, frameVars
  <1>4. CASE Refused(c)
    BY <1>4, RunningType, ClosingType DEF TypeOK, Refused, Phases, roomVars,
       layerVars, closeVars, emitVars, frameVars
  <1> QED
    BY <1>2, <1>3, <1>4

LEMMA AuthenticatedType ==
    ASSUME TypeOK, NEW c \in Conn, Authenticated(c)
    PROVE  TypeOK'
  <1>1. /\ Tail(jobs) \in Seq(Job)
        /\ <<"granted", c, 0>> \in Job /\ <<"refused", c, 0>> \in Job
    BY RunningType, JobOf DEF Authenticated, Kinds
  <1>2. /\ jobs' \in Seq(Job)
        /\ UNCHANGED <<awaiting, frameVars, disposed>>
    BY <1>1, JobsAppend DEF Authenticated
  <1>3. CASE \E r \in Room, a \in Allocatable(c), greet, kick \in BOOLEAN :
                Join(c, r, a, greet, kick)
    <2>1. /\ RoomPart'
          /\ sock' \in [Conn -> {"none", "open", "closing", "closed"}]
          /\ phase' \in [Conn -> Phases]
          /\ aid' \in [Conn -> ActorId]
          /\ closeVars' = closeVars
      BY <1>3, JoinType
    <2> QED
      BY <1>2, <2>1 DEF TypeOK, RoomPart, closeVars, frameVars
  <1>4. CASE \E r \in Room, a \in Allocatable(c), greet \in BOOLEAN :
                JoinThrows(c, r, a, greet)
    <2>1. /\ RoomPart'
          /\ phase' \in [Conn -> Phases]
          /\ UNCHANGED <<sock, closeVars, aid>>
      BY <1>4, JoinThrowsType
    <2> QED
      BY <1>2, <2>1 DEF TypeOK, RoomPart, closeVars, frameVars
  <1>5. CASE JoinRefused(c)
    BY <1>2, <1>5 DEF TypeOK, JoinRefused, Phases, roomVars, layerVars,
       closeVars, emitVars, frameVars
  <1> QED
    BY <1>3, <1>4, <1>5 DEF Authenticated

LEMMA GrantedType ==
    ASSUME TypeOK, NEW c \in Conn, Granted(c)
    PROVE  TypeOK'
  <1> DEFINE a == aid[c]
  <1>1. a \in ActorId /\ Tail(jobs) \in Seq(Job)
    BY RunningType DEF Granted, TypeOK
  <1>2. CASE c \in closedEarly
    <2>1. /\ HandleClose(a, Tail(jobs))
          /\ phase' = [phase EXCEPT ![c] = "over"]
          /\ UNCHANGED <<sock, closeVars, aid, awaiting, frameVars, disposed>>
      BY <1>2 DEF Granted
    <2>2. RoomPart' /\ jobs' \in Seq(Job)
      BY <1>1, <2>1, HandleCloseType
    <2> QED
      BY <2>1, <2>2 DEF TypeOK, RoomPart, Phases, closeVars, frameVars
  <1>3. CASE c \notin closedEarly
    <2>1. /\ delivered \in [Conn -> Seq(Nat)]
          /\ heldMsgs \in [ActorId -> Seq(Nat)]
      BY DEF TypeOK
    <2>2. delivered' \in [Conn -> Seq(Nat)]
      <3>1. heldMsgs[a] \in Seq(Nat)
        BY <1>1, <2>1
      <3>2. \A d \in Conn : delivered[d] \o heldMsgs[a] \in Seq(Nat)
        BY ONLY <2>1, <3>1
      <3>3. delivered' = [d \in Conn |->
                IF d \in listeners[a] \cup {c} /\ sock[d] = "open"
                THEN delivered[d] \o heldMsgs[a] ELSE delivered[d]]
        BY <1>3 DEF Granted
      <3> QED
        BY ONLY <2>1, <3>2, <3>3
    <2>3. heldMsgs' \in [ActorId -> Seq(Nat)]
      <3>1. heldMsgs' = [heldMsgs EXCEPT ![a] = <<>>]
        BY <1>3 DEF Granted
      <3> QED
        BY ONLY <2>1, <3>1, ForgetHeld
    <2>4. sock' \in [Conn -> {"none", "open", "closing", "closed"}]
      BY <1>3, ClosingType DEF Granted, TypeOK
    <2>5. /\ phase' = [phase EXCEPT ![c] = "attached"]
          /\ jobs' = Tail(jobs)
          /\ listeners' = [listeners EXCEPT ![a] = @ \cup {c}]
          /\ heldKick' = heldKick \ {a}
          /\ UNCHANGED <<roomVars, roomIds, buckets, emits, expected,
                         closeVars, aid, awaiting, frameVars, disposed>>
      BY <1>3 DEF Granted
    <2> QED
      BY <1>1, <2>2, <2>3, <2>4, <2>5
         DEF TypeOK, Phases, roomVars, closeVars, frameVars
  <1> QED
    BY <1>2, <1>3

LEMMA SocketClosesType ==
    ASSUME TypeOK, NEW c \in Conn, SocketCloses(c)
    PROVE  TypeOK'
  <1>1. RoomPart' /\ jobs' \in Seq(Job)
    <2>1. CASE phase[c] = "attached"
      BY <2>1, HandleCloseType DEF SocketCloses, TypeOK
    <2>2. CASE phase[c] # "attached"
      BY <2>2 DEF SocketCloses, TypeOK, RoomPart, roomVars, layerVars, emitVars
    <2> QED
      BY <2>1, <2>2
  <1>2. /\ sock' = [sock EXCEPT ![c] = "closed"]
        /\ closedEarly' \in {closedEarly, closedEarly \cup {c}}
        /\ unheard' \in {unheard, unheard \cup {c}}
        /\ UNCHANGED <<phase, aid, awaiting, frameVars, disposed>>
    BY DEF SocketCloses
  <1> QED
    BY <1>1, <1>2 DEF TypeOK, RoomPart, frameVars

LEMMA FrameType ==
    ASSUME TypeOK, NEW c \in Conn, FrameArrives(c) \/ Checked(c)
    PROVE  TypeOK'
  <1> DEFINE a == aid[c]
  <1>1. a \in ActorId
    BY DEF TypeOK
  <1>2. CASE FrameArrives(c)
    <2> DEFINE k == <<"checked", c, frames[c] + 1>>
    <2>1. k \in Job
      BY JobOf DEF TypeOK, Kinds
    <2>2. /\ sock' \in [Conn -> {"none", "open", "closing", "closed"}]
          /\ heldKick' \subseteq ActorId
          /\ buckets' \subseteq ActorId
          /\ awaiting' \subseteq Job
          /\ jobs' \in Seq(Job)
      <3>1. Append(jobs, k) \in Seq(Job)
        BY <2>1, JobsAppend DEF TypeOK
      <3>2. /\ sock' = sock \/ \E S : sock' = Closing(S)
            /\ heldKick' = heldKick \/ \E S \in SUBSET {a} : heldKick' = heldKick \cup S
            /\ buckets' = buckets \/ buckets' = buckets \cup {a}
            /\ awaiting' = awaiting \/ awaiting' = awaiting \cup {k}
            /\ jobs' = jobs \/ jobs' = Append(jobs, k)
        BY <1>2 DEF FrameArrives, EmitKick, loopVars
      <3> HIDE DEF a, k
      <3>3. /\ sock \in [Conn -> {"none", "open", "closing", "closed"}] /\ heldKick \subseteq ActorId
            /\ buckets \subseteq ActorId /\ awaiting \subseteq Job /\ jobs \in Seq(Job)
        BY DEF TypeOK
      <3>4. sock' \in [Conn -> {"none", "open", "closing", "closed"}]
        BY <3>2, <3>3, ClosingType
      <3>5. heldKick' \subseteq ActorId /\ buckets' \subseteq ActorId
        BY <1>1, <3>2, <3>3
      <3> QED
        BY <2>1, <3>1, <3>2, <3>3, <3>4, <3>5
    <2>3. /\ frames' = [frames EXCEPT ![c] = @ + 1]
          /\ UNCHANGED <<roomVars, roomIds, listeners, heldMsgs, phase,
                         closeVars, aid, emitVars, handled, disposed>>
      BY <1>2 DEF FrameArrives
    <2> QED
      BY <2>2, <2>3 DEF TypeOK, roomVars, closeVars, emitVars
  <1>3. CASE Checked(c)
    <2>1. /\ Tail(jobs) \in Seq(Job)
          /\ Head(jobs) \in Job
          /\ Head(jobs)[1] = "checked"
      BY <1>3, RunningType DEF Checked, Running
    <2>2. Head(jobs)[3] \in Nat
      BY <2>1 DEF Job
    <2>3. handled' \in [Conn -> Seq(Nat)]
      <3>1. handled \in [Conn -> Seq(Nat)]
        BY DEF TypeOK
      <3>2. Append(handled[c], Head(jobs)[3]) \in Seq(Nat)
        BY <2>2, <3>1
      <3>3. \/ handled' = handled
            \/ handled' = [handled EXCEPT ![c] = Append(@, Head(jobs)[3])]
        BY <1>3 DEF Checked
      <3> QED
        BY ONLY <3>1, <3>2, <3>3
    <2>4. /\ sock' \in [Conn -> {"none", "open", "closing", "closed"}]
          /\ heldKick' \subseteq ActorId
          /\ roomIds' \in [ActorId -> Room \cup {NoRoom}]
      <3>1. /\ sock' = sock \/ \E S : sock' = Closing(S)
            /\ heldKick' = heldKick \/ \E S \in SUBSET {aid[c]} : heldKick' = heldKick \cup S
            /\ roomIds' = roomIds \/ roomIds' = Unregistered(aid[c])
        BY <1>3 DEF Checked, EmitKick
      <3>2. /\ aid[c] \in ActorId /\ heldKick \subseteq ActorId
            /\ roomIds \in [ActorId -> Room \cup {NoRoom}]
            /\ sock \in [Conn -> {"none", "open", "closing", "closed"}]
        BY DEF TypeOK
      <3>3. sock' \in [Conn -> {"none", "open", "closing", "closed"}]
        BY <3>1, <3>2, ClosingType
      <3>4. heldKick' \subseteq ActorId
        BY <3>1, <3>2
      <3>5. roomIds' \in [ActorId -> Room \cup {NoRoom}]
        BY <3>1, <3>2 DEF Unregistered
      <3> QED
        BY <3>3, <3>4, <3>5
    <2> QED
      BY <1>3, <2>1, <2>3, <2>4
         DEF Checked, TypeOK, roomVars, closeVars, emitVars
  <1> QED
    BY <1>2, <1>3

\* Creating, destroying and using rooms, and the queue itself.
LEMMA RoomActionType ==
    ASSUME TypeOK, NEW r \in Room,
           CreateRoom(r) \/ DestroyRoom(r) \/ Broadcast(r) \/ TeardownEmpty(r)
    PROVE  TypeOK'
  <1>1. CASE CreateRoom(r)
    BY <1>1 DEF CreateRoom, TypeOK, layerVars, connVars, loopVars, emitVars,
       frameVars
  <1>2. CASE DestroyRoom(r)
    <2>1. /\ RoomPart'
          /\ sock' \in [Conn -> {"none", "open", "closing", "closed"}]
      BY <1>2, DestroyType DEF DestroyRoom
    <2> QED
      BY <1>2, <2>1
         DEF DestroyRoom, RoomPart, TypeOK, closeVars, loopVars, frameVars
  <1>3. CASE Broadcast(r)
    <2>1. /\ emits' \in Nat
          /\ delivered' \in [Conn -> Seq(Nat)]
          /\ expected' \in [Conn -> Seq(Nat)]
      BY <1>3, SendType DEF Broadcast, EmitMessage
    <2>2. heldMsgs' \in [ActorId -> Seq(Nat)]
      <3>1. emits + 1 \in Nat /\ heldMsgs \in [ActorId -> Seq(Nat)]
        BY DEF TypeOK
      <3>2. heldMsgs' = Hold(heldMsgs, roomIds, actors[r], emits + 1)
        BY <1>3 DEF Broadcast, EmitMessage
      <3> QED
        BY ONLY <3>1, <3>2, HoldType
    <2> QED
      BY <1>3, <2>1, <2>2 DEF Broadcast, TypeOK, roomVars, connVars, loopVars,
         frameVars
  <1>4. CASE TeardownEmpty(r)
    <2>1. Tail(jobs) \in Seq(Job)
      BY <1>4, RunningType DEF TeardownEmpty
    <2>2. /\ RoomPart'
          /\ sock' \in [Conn -> {"none", "open", "closing", "closed"}]
      <3>1. CASE Destroy({r})
        BY <3>1, DestroyType
      <3>2. CASE UNCHANGED <<roomVars, layerVars, sock, emitVars>>
        BY <3>2 DEF TypeOK, RoomPart, roomVars, layerVars, emitVars
      <3> QED
        BY <1>4, <3>1, <3>2 DEF TeardownEmpty
    <2> QED
      BY <1>4, <2>1, <2>2
         DEF TeardownEmpty, RoomPart, TypeOK, closeVars, frameVars
  <1> QED
    BY <1>1, <1>2, <1>3, <1>4

LEMMA TypeStep == TypeOK /\ [Next]_vars => TypeOK'
  <1> SUFFICES ASSUME TypeOK, [Next]_vars PROVE TypeOK'
    OBVIOUS
  <1>1. CASE \E r \in Room : CreateRoom(r) \/ DestroyRoom(r) \/ Broadcast(r)
    BY <1>1, RoomActionType
  <1>2. CASE \E r \in Room, a \in ActorId : KickActor(r, a)
    BY <1>2, ClosingType DEF KickActor, EmitKick, TypeOK, roomVars, closeVars,
       loopVars, emitVars, frameVars
  <1>3. CASE \E c \in Conn : Connect(c) \/ SocketCloses(c) \/ FrameArrives(c)
    BY <1>3, ConnectType, SocketClosesType, FrameType
  <1>4. CASE \E k \in awaiting : Settle(k)
    <2>1. PICK k \in awaiting : Settle(k)
      BY <1>4
    <2>2. jobs' \in Seq(Job)
      BY <2>1, JobsAppend DEF Settle, TypeOK
    <2> QED
      BY <2>1, <2>2 DEF Settle, TypeOK, roomVars, layerVars, connVars,
         emitVars, frameVars
  <1>5. CASE RunJob
    BY <1>5, ConnectType, AuthenticatedType, GrantedType, FrameType,
       RoomActionType DEF RunJob
  <1>6. CASE Shutdown
    <2>1. /\ actors' \in [Room -> SUBSET ActorId]
          /\ heldKick' \subseteq ActorId
          /\ sock' \in [Conn -> {"none", "open", "closing", "closed"}]
      BY <1>6, ClosingType DEF Shutdown, Dispose, Cleared, TypeOK
    <2> QED
      BY <1>6, <2>1 DEF Shutdown, Dispose, TypeOK, closeVars, loopVars,
         emitVars, frameVars
  <1>7. CASE UNCHANGED vars
    BY <1>7 DEF vars, TypeOK, roomVars, layerVars, connVars, loopVars,
       emitVars, frameVars
  <1> QED
    BY <1>1, <1>2, <1>3, <1>4, <1>5, <1>6, <1>7 DEF Next

\* Every variable keeps its type, for all constants: in particular the
\* microtask queue only ever holds continuations the handlers know.
THEOREM TypeCorrect == Spec => []TypeOK
  BY TypeInit, TypeStep, PTL DEF Spec

-----------------------------------------------------------------------------
(* The rooms' actor maps agree with TLayer.roomIds.  With TypeOK the       *)
(* invariant is inductive: every handler that touches one map either       *)
(* touches the other for the same id or acts where no actor can be.        *)

LEMMA AgreeDestroy ==
    ASSUME TypeOK, MembershipAgrees, NEW R \in SUBSET Room, Destroy(R)
    PROVE  MembershipAgrees'
  BY DEF TypeOK, MembershipAgrees, Destroy, Cleared

\* handleClose looks in the room of roomIds[a] only.  By the invariant that is
\* the one room that can have a, so it leaves none behind.
LEMMA CloseLeaves ==
    ASSUME TypeOK, MembershipAgrees, NEW a \in ActorId, NEW q,
           HandleClose(a, q)
    PROVE  \A r \in Room : actors'[r] = actors[r] \ {a}
  <1>1. CASE InRoom(a)
    <2>1. actors' = [actors EXCEPT ![roomIds[a]] = actors[roomIds[a]] \ {a}]
      BY <1>1 DEF HandleClose, HandleLeave
    <2>2. \A r \in Room : r # roomIds[a] => a \notin actors[r]
      BY DEF MembershipAgrees
    <2> QED
      BY <2>1, <2>2 DEF TypeOK
  <1>2. CASE ~InRoom(a)
    <2>1. actors' = actors
      BY <1>2 DEF HandleClose
    <2>2. \A r \in Room : a \notin actors[r]
      BY <1>2 DEF MembershipAgrees, InRoom
    <2> QED
      BY <2>1, <2>2
  <1> QED
    BY <1>1, <1>2

LEMMA AgreeHandleClose ==
    ASSUME TypeOK, MembershipAgrees, NEW a \in ActorId, NEW q,
           HandleClose(a, q)
    PROVE  MembershipAgrees'
  <1>1. exists' = exists /\ roomIds' = [roomIds EXCEPT ![a] = NoRoom]
    BY DEF HandleClose, Unregistered
  <1>2. \A r \in Room : actors'[r] = actors[r] \ {a}
    BY CloseLeaves
  <1> QED
    BY <1>1, <1>2 DEF TypeOK, MembershipAgrees

LEMMA AgreeAuthenticated ==
    ASSUME TypeOK, MembershipAgrees, NEW c \in Conn, Authenticated(c)
    PROVE  MembershipAgrees'
  <1>1. CASE \E r \in Room, a \in Allocatable(c), greet, kick \in BOOLEAN :
                Join(c, r, a, greet, kick)
    <2>1. PICK r \in Room, a \in Allocatable(c) :
             /\ r \in exists
             /\ exists' = exists
             /\ roomIds' = [roomIds EXCEPT ![a] = r]
             /\ actors' = [actors EXCEPT ![r] = actors[r] \cup {a}]
      BY <1>1, JoinMembership
    <2>2. a \in ActorId /\ roomIds[a] = NoRoom
      BY AllocatableType
    <2>3. \A s \in Room : a \notin actors[s]
      BY <2>2, IdsAssumption DEF MembershipAgrees
    <2> QED
      BY <2>1, <2>2, <2>3 DEF TypeOK, MembershipAgrees
  <1>2. CASE UNCHANGED <<exists, actors, roomIds>>
    BY <1>2 DEF MembershipAgrees
  <1> QED
    BY <1>1, <1>2 DEF Authenticated, JoinThrows, JoinRefused, roomVars,
       layerVars

LEMMA AgreeStep ==
    TypeOK /\ MembershipAgrees /\ [Next]_vars => MembershipAgrees'
  <1> SUFFICES ASSUME TypeOK, MembershipAgrees, [Next]_vars
               PROVE  MembershipAgrees'
    OBVIOUS
  <1>1. ASSUME NEW r \in Room, CreateRoom(r)
        PROVE  MembershipAgrees'
    BY <1>1 DEF CreateRoom, MembershipAgrees, TypeOK, layerVars
  <1>2. ASSUME NEW r \in Room, DestroyRoom(r) \/ TeardownEmpty(r)
        PROVE  MembershipAgrees'
    <2>1. CASE Destroy({r})
      BY <2>1, AgreeDestroy
    <2>2. CASE UNCHANGED <<roomVars, layerVars, sock, emitVars>>
      BY <2>2 DEF MembershipAgrees, roomVars, layerVars
    <2> QED
      BY <1>2, <2>1, <2>2 DEF DestroyRoom, TeardownEmpty
  <1>3. ASSUME NEW c \in Conn, Granted(c) \/ SocketCloses(c)
        PROVE  MembershipAgrees'
    <2>1. CASE \E q : HandleClose(aid[c], q)
      BY <2>1, AgreeHandleClose DEF TypeOK
    <2>2. CASE UNCHANGED <<exists, actors, roomIds>>
      BY <2>2 DEF MembershipAgrees
    <2> QED
      BY <1>3, <2>1, <2>2 DEF Granted, SocketCloses, roomVars, layerVars
  <1>4. ASSUME NEW c \in Conn, Checked(c)
        PROVE  MembershipAgrees'
    <2>1. CASE roomIds' = Unregistered(aid[c]) /\ roomIds[aid[c]] \notin exists
      \* the room is gone, so nobody is in it
      <3>1. \A r \in Room : aid[c] \notin actors[r]
        BY <2>1 DEF MembershipAgrees
      <3> QED
        BY <1>4, <2>1, <3>1
           DEF Checked, Unregistered, MembershipAgrees, TypeOK, roomVars
    <2>2. CASE roomIds' = roomIds
      BY <1>4, <2>2 DEF Checked, MembershipAgrees, roomVars
    <2> QED
      BY <1>4, <2>1, <2>2 DEF Checked
  <1>5. CASE Shutdown
    BY <1>5 DEF Shutdown, Cleared, MembershipAgrees, TypeOK
  <1>6. CASE UNCHANGED <<exists, actors, roomIds>>
    BY <1>6 DEF MembershipAgrees
  <1>7. ASSUME NEW c \in Conn,
               Connect(c) \/ Limited(c) \/ Refused(c) \/ FrameArrives(c)
        PROVE  UNCHANGED <<exists, actors, roomIds>>
    BY <1>7 DEF Connect, Limited, Refused, FrameArrives, roomVars, layerVars
  <1>8. ASSUME \/ \E r \in Room : Broadcast(r)
               \/ \E r \in Room, a \in ActorId : KickActor(r, a)
               \/ \E k \in awaiting : Settle(k)
               \/ UNCHANGED vars
        PROVE  UNCHANGED <<exists, actors, roomIds>>
    BY <1>8 DEF Broadcast, KickActor, Settle, vars, roomVars, layerVars
  <1> QED
    BY <1>1, <1>2, <1>3, <1>4, <1>5, <1>6, <1>7, <1>8, AgreeAuthenticated
       DEF Next, RunJob

\* An id in a room's actor map is registered for that very room and the room
\* exists, whatever joins, closes, kicks and destructions interleave: TLayer
\* and the rooms never disagree, and no actor is in two rooms.
THEOREM Agreement == Spec => []MembershipAgrees
  <1>1. Init => MembershipAgrees
    BY DEF Init, MembershipAgrees
  <1> QED
    BY <1>1, AgreeStep, TypeCorrect, PTL DEF Spec

-----------------------------------------------------------------------------
(* Capacity.                                                               *)

\* CapacityRespected says nothing of an infinite set; with finiteness it is
\* inductive.
CapacityInv ==
    \A r \in Room : /\ IsFiniteSet(actors[r])
                    /\ Cardinality(actors[r]) <= MaxActors

LEMMA CapacityShrinks ==
    ASSUME TypeOK, CapacityInv,
           \A r \in Room : actors'[r] \subseteq actors[r]
    PROVE  CapacityInv'
  <1> SUFFICES ASSUME NEW r \in Room
               PROVE  /\ IsFiniteSet(actors'[r])
                      /\ Cardinality(actors'[r]) <= MaxActors
    BY DEF CapacityInv
  <1>1. /\ IsFiniteSet(actors[r])
        /\ Cardinality(actors[r]) <= MaxActors
        /\ actors'[r] \subseteq actors[r]
    BY DEF CapacityInv
  <1>2. /\ IsFiniteSet(actors'[r])
        /\ Cardinality(actors'[r]) <= Cardinality(actors[r])
    BY <1>1, FS_Subset
  <1>3. Cardinality(actors'[r]) \in Nat /\ Cardinality(actors[r]) \in Nat
    BY <1>1, <1>2, FS_CardinalityType
  <1> QED
    BY <1>1, <1>2, <1>3, BoundsAssumption

LEMMA CapacityAuthenticated ==
    ASSUME TypeOK, CapacityInv, NEW c \in Conn, Authenticated(c)
    PROVE  CapacityInv'
  <1>1. CASE \E r \in Room, a \in Allocatable(c), greet, kick \in BOOLEAN :
                Join(c, r, a, greet, kick)
    <2>1. PICK r \in Room, a \in Allocatable(c) :
             /\ Cardinality(actors[r]) < MaxActors
             /\ actors' = [actors EXCEPT ![r] = actors[r] \cup {a}]
      BY <1>1, JoinMembership
    <2>2. IsFiniteSet(actors[r])
      BY DEF CapacityInv
    <2>3. /\ IsFiniteSet(actors[r] \cup {a})
          /\ \/ Cardinality(actors[r] \cup {a}) = Cardinality(actors[r])
             \/ Cardinality(actors[r] \cup {a}) = Cardinality(actors[r]) + 1
      BY <2>2, FS_AddElement
    <2>4. Cardinality(actors[r]) \in Nat
      BY <2>2, FS_CardinalityType
    <2>5. Cardinality(actors[r] \cup {a}) <= MaxActors
      BY <2>1, <2>3, <2>4, BoundsAssumption
    <2> QED
      BY <2>1, <2>3, <2>5 DEF TypeOK, CapacityInv
  <1>2. CASE UNCHANGED actors
    BY <1>2 DEF CapacityInv
  <1> QED
    BY <1>1, <1>2 DEF Authenticated, JoinThrows, JoinRefused, roomVars

LEMMA CapacityStep == TypeOK /\ CapacityInv /\ [Next]_vars => CapacityInv'
  <1> SUFFICES ASSUME TypeOK, CapacityInv, [Next]_vars
               PROVE  CapacityInv'
    OBVIOUS
  <1>1. CASE \E c \in Conn : Authenticated(c)
    BY <1>1, CapacityAuthenticated
  <1>2. CASE \A r \in Room : actors'[r] \subseteq actors[r]
    BY <1>2, CapacityShrinks
  <1>3. ASSUME NEW r \in Room,
               \/ CreateRoom(r) \/ DestroyRoom(r) \/ Broadcast(r)
               \/ TeardownEmpty(r)
        PROVE  \A s \in Room : actors'[s] \subseteq actors[s]
    BY <1>3 DEF CreateRoom, DestroyRoom, Broadcast, TeardownEmpty, Destroy,
       Cleared, roomVars, TypeOK
  <1>4. ASSUME NEW c \in Conn, Granted(c) \/ SocketCloses(c)
        PROVE  \A s \in Room : actors'[s] \subseteq actors[s]
    <2>1. \/ actors' = actors
          \/ \E r \in Room :
                actors' = [actors EXCEPT ![r] = actors[r] \ {aid[c]}]
      BY <1>4 DEF Granted, SocketCloses, HandleClose, HandleLeave, InRoom,
         roomVars, TypeOK
    <2> QED
      BY <2>1 DEF TypeOK
  <1>5. ASSUME Shutdown
        PROVE  \A s \in Room : actors'[s] \subseteq actors[s]
    BY <1>5 DEF Shutdown, Cleared
  <1>6. ASSUME NEW c \in Conn,
               \/ Connect(c) \/ Limited(c) \/ Refused(c) \/ FrameArrives(c)
               \/ Checked(c)
        PROVE  actors' = actors
    BY <1>6 DEF Connect, Limited, Refused, FrameArrives, Checked, roomVars
  <1>7. ASSUME \/ \E r \in Room, a \in ActorId : KickActor(r, a)
               \/ \E k \in awaiting : Settle(k)
               \/ UNCHANGED vars
        PROVE  actors' = actors
    BY <1>7 DEF KickActor, Settle, vars, roomVars
  <1> QED
    BY <1>1, <1>2, <1>3, <1>4, <1>5, <1>6, <1>7 DEF Next, RunJob

\* No interleaving of handshakes puts more than maxActors actors in a room.
THEOREM Capacity == Spec => []CapacityRespected
  <1>1. Init => CapacityInv
    BY FS_EmptySet, BoundsAssumption DEF Init, CapacityInv
  <1>2. CapacityInv => CapacityRespected
    BY DEF CapacityInv, CapacityRespected
  <1> QED
    BY <1>1, <1>2, CapacityStep, TypeCorrect, PTL DEF Spec

-----------------------------------------------------------------------------
(* Emptied rooms.  The teardown job of a room names the room object by its *)
(* generation, and a room no actor has joined since it was created is not  *)
(* to go: so the invariant needs to know that a room that was destroyed is *)
(* no longer one that has been visited.                                    *)

Teardown(r) == <<"empty", r, gen[r]>>

EmptyInv == visited \subseteq exists /\ EmptiedRoomScheduled

LEMMA ScheduledIs == \A r : EmptyDestroyScheduled(r) <=> Teardown(r) \in Elems(jobs)
  BY DEF EmptyDestroyScheduled, Teardown, Elems

\* handleClose takes no job off the queue it is given.
LEMMA CloseKeepsJobs ==
    ASSUME TypeOK, NEW a \in ActorId, NEW q \in Seq(Job), HandleClose(a, q)
    PROVE  Elems(q) \subseteq Elems(jobs')
  <1>1. \/ jobs' = q
        \/ \E r \in Room : jobs' = Append(q, <<"empty", r, gen[r]>>)
    BY DEF TypeOK, HandleClose, HandleLeave, InRoom
  <1>2. \A r \in Room : <<"empty", r, gen[r]>> \in Job
    BY EmptyJob DEF TypeOK
  <1> QED
    BY <1>1, <1>2, ElemsOfAppend

\* Only its own turn takes a teardown off the queue.
LEMMA TeardownWaits ==
    ASSUME TypeOK, [Next]_vars, NEW k \in Elems(jobs), k[1] = "empty",
           ~\E r \in Room : TeardownEmpty(r)
    PROVE  k \in Elems(jobs')
  <1>1. jobs \in Seq(Job)
    BY DEF TypeOK
  <1>2. ASSUME NEW kind, NEW c, kind # "empty", Running(kind, c)
        PROVE  Tail(jobs) \in Seq(Job) /\ k \in Elems(Tail(jobs))
    BY <1>1, <1>2, ElemsOfTail, RunningType DEF Running, Quiet
  <1>3. ASSUME NEW c \in Conn, Limited(c) \/ Refused(c) \/ Checked(c)
        PROVE  k \in Elems(jobs')
    BY <1>2, <1>3 DEF Limited, Refused, Checked
  <1>4. ASSUME NEW c \in Conn, Authenticated(c)
        PROVE  k \in Elems(jobs')
    <2>1. PICK kind \in {"granted", "refused"} :
             jobs' = Append(Tail(jobs), <<kind, c, 0>>)
      BY <1>4 DEF Authenticated
    <2>2. <<kind, c, 0>> \in Job
      BY JobOf DEF Kinds
    <2>3. Tail(jobs) \in Seq(Job) /\ k \in Elems(Tail(jobs))
      BY <1>2, <1>4 DEF Authenticated
    <2> QED
      BY <2>1, <2>2, <2>3, ElemsOfAppend
  <1>5. ASSUME NEW c \in Conn, Granted(c)
        PROVE  k \in Elems(jobs')
    <2>1. Tail(jobs) \in Seq(Job) /\ k \in Elems(Tail(jobs))
      BY <1>2, <1>5 DEF Granted
    <2>2. HandleClose(aid[c], Tail(jobs)) \/ jobs' = Tail(jobs)
      BY <1>5 DEF Granted
    <2>3. aid[c] \in ActorId
      BY DEF TypeOK
    <2> QED
      BY <2>1, <2>2, <2>3, CloseKeepsJobs
  <1>6. ASSUME NEW c \in Conn, SocketCloses(c)
        PROVE  k \in Elems(jobs')
    <2>1. HandleClose(aid[c], jobs) \/ jobs' = jobs
      BY <1>6 DEF SocketCloses
    <2>2. aid[c] \in ActorId
      BY DEF TypeOK
    <2> QED
      BY <1>1, <2>1, <2>2, CloseKeepsJobs
  <1>7. ASSUME NEW c \in Conn, FrameArrives(c)
        PROVE  k \in Elems(jobs')
    <2>1. <<"checked", c, frames[c] + 1>> \in Job
      <3>1. frames[c] + 1 \in Nat
        BY DEF TypeOK
      <3> QED
        BY <3>1, JobOf DEF Kinds
    <2>2. jobs' = jobs \/ jobs' = Append(jobs, <<"checked", c, frames[c] + 1>>)
      BY <1>7 DEF FrameArrives, loopVars
    <2> QED
      BY <1>1, <2>1, <2>2, ElemsOfAppend
  <1>8. ASSUME NEW j \in awaiting, Settle(j)
        PROVE  k \in Elems(jobs')
    BY <1>1, <1>8, ElemsOfAppend DEF Settle, TypeOK
  <1>9. ASSUME \/ \E r \in Room : CreateRoom(r) \/ DestroyRoom(r) \/ Broadcast(r)
               \/ \E r \in Room, a \in ActorId : KickActor(r, a)
               \/ \E c \in Conn : Connect(c)
               \/ Shutdown \/ UNCHANGED vars
        PROVE  k \in Elems(jobs')
    BY <1>9 DEF CreateRoom, DestroyRoom, Broadcast, KickActor, Connect, Shutdown,
       vars, loopVars
  <1> QED
    BY <1>3, <1>4, <1>5, <1>6, <1>7, <1>8, <1>9 DEF Next, RunJob

\* A room that loses members to a step has its teardown queued by that step,
\* or had it already.
LEMMA EmptyClose ==
    ASSUME TypeOK, MembershipAgrees, EmptyInv, [Next]_vars,
           ~\E r \in Room : TeardownEmpty(r), NEW a \in ActorId,
           NEW q \in Seq(Job), HandleClose(a, q)
    PROVE  EmptyInv'
  <1>1. UNCHANGED <<exists, gen, visited>>
    BY DEF HandleClose
  <1>2. ASSUME NEW r \in exists \cap visited \cap DestroyOnEmpty, actors'[r] = {}
        PROVE  Teardown(r) \in Elems(jobs')
    <2>1. r \in Room /\ Teardown(r) \in Job
      BY EmptyJob DEF TypeOK, Teardown
    <2>2. Teardown(r) \in Elems(jobs) => Teardown(r) \in Elems(jobs')
      BY TeardownWaits DEF Teardown
    <2>3. CASE a \notin actors[r]
      <3>1. actors[r] = {}
        BY <1>2, <2>1, <2>3, CloseLeaves
      <3> QED
        BY <2>2, <3>1, ScheduledIs DEF EmptyInv, EmptiedRoomScheduled
    <2>4. CASE a \in actors[r] /\ Teardown(r) \notin Elems(jobs)
      <3>1. roomIds[a] = r /\ InRoom(a)
        BY <2>1, <2>4 DEF MembershipAgrees, InRoom
      <3>2. actors[r] \ {a} = {}
        BY <1>2, <2>1, CloseLeaves
      <3>3. jobs' = Append(q, Teardown(r))
        BY <2>4, <3>1, <3>2, ScheduledIs
           DEF HandleClose, HandleLeave, LastOneOut, Teardown
      <3> QED
        BY <2>1, <3>3, ElemsOfAppend
    <2> QED
      BY <2>2, <2>3, <2>4
  <1>3. \A r \in Room : Teardown(r)' = Teardown(r)
    BY <1>1 DEF Teardown
  <1> QED
    BY <1>1, <1>2, <1>3
       DEF EmptyInv, EmptiedRoomScheduled, EmptyDestroyScheduled, Elems, Teardown

\* A step that empties no room, and opens or visits none.
LEMMA EmptyStays ==
    ASSUME TypeOK, EmptyInv, [Next]_vars, ~\E r \in Room : TeardownEmpty(r),
           UNCHANGED gen, exists' \subseteq exists, visited' \subseteq visited \cap exists',
           \A r \in exists' \cap visited' : actors'[r] = actors[r]
    PROVE  EmptyInv'
  <1>1. ASSUME NEW r \in exists' \cap visited' \cap DestroyOnEmpty, actors'[r] = {}
        PROVE  EmptyDestroyScheduled(r)'
    <2>1. Teardown(r) \in Elems(jobs)
      BY <1>1, ScheduledIs DEF EmptyInv, EmptiedRoomScheduled
    <2>2. Teardown(r) \in Elems(jobs')
      BY <2>1, TeardownWaits DEF Teardown
    <2> QED
      BY <2>2 DEF Teardown, Elems, EmptyDestroyScheduled
  <1> QED
    BY <1>1 DEF EmptyInv, EmptiedRoomScheduled

\* The teardown that runs destroys its room, or is of an earlier room object,
\* or finds somebody in the room; the teardowns of other objects stay queued.
LEMMA EmptyTeardown ==
    ASSUME TypeOK, EmptyInv, NEW r \in Room, TeardownEmpty(r)
    PROVE  EmptyInv'
  <1>1. /\ jobs \in Seq(Job) /\ jobs # <<>>
        /\ jobs' = Tail(jobs)
        /\ Head(jobs)[1] = "empty" /\ Head(jobs)[2] = r
    BY DEF TeardownEmpty, Running, Quiet, TypeOK
  <1>2. ASSUME NEW s \in Room, s # r \/ Head(jobs)[3] # gen[r],
               Teardown(s) \in Elems(jobs)
        PROVE  Teardown(s) \in Elems(jobs')
    <2>1. Teardown(s) # Head(jobs)
      BY <1>1, <1>2 DEF Teardown
    <2> QED
      BY <1>1, <1>2, <2>1, ElemsOfTail
  <1>3. \A s \in Room : gen'[s] = gen[s]
    BY DEF TeardownEmpty, Destroy, roomVars
  <1>4. ASSUME NEW s \in exists' \cap visited' \cap DestroyOnEmpty, actors'[s] = {}
        PROVE  Teardown(s) \in Elems(jobs')
    <2>1. CASE StillEmpty(r, Head(jobs)[3])
      <3>1. s # r /\ s \in exists \cap visited /\ actors[s] = {} /\ s \in Room
        BY <1>4, <2>1 DEF TeardownEmpty, Destroy, Cleared, TypeOK
      <3>2. Teardown(s) \in Elems(jobs)
        BY <1>4, <3>1, ScheduledIs DEF EmptyInv, EmptiedRoomScheduled
      <3> QED
        BY <1>2, <3>1, <3>2
    <2>2. CASE ~StillEmpty(r, Head(jobs)[3])
      <3>1. s \in exists \cap visited /\ actors[s] = {} /\ s \in Room
        BY <1>4, <2>2 DEF TeardownEmpty, roomVars, TypeOK
      <3>2. Teardown(s) \in Elems(jobs)
        BY <1>4, <3>1, ScheduledIs DEF EmptyInv, EmptiedRoomScheduled
      <3>3. s # r \/ Head(jobs)[3] # gen[r]
        BY <2>2, <3>1 DEF StillEmpty
      <3> QED
        BY <1>2, <3>1, <3>2, <3>3
    <2> QED
      BY <2>1, <2>2
  <1>5. visited' \subseteq exists'
    BY DEF EmptyInv, TeardownEmpty, Destroy, roomVars
  <1>6. ASSUME NEW s \in exists' \cap visited' \cap DestroyOnEmpty, actors'[s] = {}
        PROVE  EmptyDestroyScheduled(s)'
    <2>1. s \in Room
      BY BoundsAssumption
    <2>2. <<"empty", s, gen'[s]>> \in Elems(jobs')
      BY <1>3, <1>4, <1>6, <2>1 DEF Teardown
    <2> QED
      BY <2>2 DEF Elems, EmptyDestroyScheduled
  <1> QED
    BY <1>5, <1>6 DEF EmptyInv, EmptiedRoomScheduled

LEMMA EmptyStep ==
    TypeOK /\ MembershipAgrees /\ EmptyInv /\ [Next]_vars => EmptyInv'
  <1> SUFFICES ASSUME TypeOK, MembershipAgrees, EmptyInv, [Next]_vars,
                      ~\E r \in Room : TeardownEmpty(r)
               PROVE  EmptyInv'
    BY EmptyTeardown
  <1>1. ASSUME NEW r \in Room, CreateRoom(r)
        PROVE  EmptyInv'
    <2>1. r \notin visited /\ UNCHANGED <<actors, visited, jobs>>
      BY <1>1 DEF CreateRoom, EmptyInv, loopVars
    <2>2. /\ exists' = exists \cup {r}
          /\ \A s \in Room : s # r => gen'[s] = gen[s]
      BY <1>1 DEF CreateRoom, TypeOK
    <2>3. ASSUME NEW s \in exists' \cap visited' \cap DestroyOnEmpty, actors'[s] = {}
          PROVE  EmptyDestroyScheduled(s)'
      <3>1. s # r /\ s \in exists \cap visited /\ s \in Room
        BY <2>1, <2>2, <2>3, BoundsAssumption
      <3>2. EmptyDestroyScheduled(s)
        BY <2>1, <2>3, <3>1 DEF EmptyInv, EmptiedRoomScheduled
      <3> QED
        BY <2>1, <2>2, <3>1, <3>2 DEF EmptyDestroyScheduled
    <2> QED
      BY <2>1, <2>2, <2>3 DEF EmptyInv, EmptiedRoomScheduled
  <1>2. ASSUME NEW c \in Conn, Authenticated(c)
        PROVE  EmptyInv'
    <2>1. CASE \E r \in Room, a \in Allocatable(c), greet, kick \in BOOLEAN :
                  Join(c, r, a, greet, kick)
      <3>1. PICK r \in Room, a \in Allocatable(c), greet \in BOOLEAN, kick \in BOOLEAN :
               Join(c, r, a, greet, kick)
        BY <2>1
      <3>2. /\ r \in exists /\ UNCHANGED <<exists, gen>>
            /\ actors' = [actors EXCEPT ![r] = actors[r] \cup {a}]
            /\ visited' = visited \cup {r}
        BY <3>1 DEF Join, CanJoin
      <3>3. ASSUME NEW s \in exists' \cap visited' \cap DestroyOnEmpty, actors'[s] = {}
            PROVE  EmptyDestroyScheduled(s)'
        <4>1. s # r /\ s \in exists \cap visited /\ actors[s] = {} /\ s \in Room
          BY <3>2, <3>3 DEF TypeOK
        <4>2. Teardown(s) \in Elems(jobs)
          BY <3>3, <4>1, ScheduledIs DEF EmptyInv, EmptiedRoomScheduled
        <4>3. Teardown(s) \in Elems(jobs')
          BY <4>2, TeardownWaits DEF Teardown
        <4> QED
          BY <3>2, <4>3 DEF Teardown, Elems, EmptyDestroyScheduled
      <3> QED
        BY <3>2, <3>3 DEF EmptyInv, EmptiedRoomScheduled
    <2>2. CASE UNCHANGED roomVars
      BY <2>2, EmptyStays DEF EmptyInv, roomVars
    <2> QED
      BY <1>2, <2>1, <2>2 DEF Authenticated, JoinThrows, JoinRefused
  <1>3. ASSUME NEW c \in Conn, Granted(c) \/ SocketCloses(c)
        PROVE  EmptyInv'
    <2>1. aid[c] \in ActorId /\ jobs \in Seq(Job)
      BY DEF TypeOK
    <2>2. Granted(c) => Tail(jobs) \in Seq(Job)
      BY RunningType DEF Granted
    <2>3. CASE UNCHANGED roomVars
      BY <2>3, EmptyStays DEF EmptyInv, roomVars
    <2> QED
      BY <1>3, <2>1, <2>2, <2>3, EmptyClose DEF Granted, SocketCloses
  <1>4. ASSUME \/ \E r \in Room : DestroyRoom(r) \/ Broadcast(r)
               \/ \E r \in Room, a \in ActorId : KickActor(r, a)
               \/ \E c \in Conn : \/ Connect(c) \/ Limited(c) \/ Refused(c)
                                  \/ FrameArrives(c) \/ Checked(c)
               \/ \E k \in awaiting : Settle(k)
               \/ Shutdown \/ UNCHANGED vars
        PROVE  EmptyInv'
    <2>1. CASE \E r \in Room : DestroyRoom(r)
      BY <2>1, EmptyStays DEF DestroyRoom, Destroy, Cleared, EmptyInv, TypeOK
    <2>2. CASE Shutdown
      BY <2>2, EmptyStays DEF Shutdown
    <2>3. CASE UNCHANGED roomVars
      BY <2>3, EmptyStays DEF EmptyInv, roomVars
    <2> QED
      BY <1>4, <2>1, <2>2, <2>3 DEF Broadcast, KickActor, Connect, Limited,
         Refused, FrameArrives, Checked, Settle, vars
  <1> QED
    BY <1>1, <1>2, <1>3, <1>4 DEF Next, RunJob

\* However leaves, failed joins, destruction and re-creation interleave, a room
\* with destroyOnEmpty that had actors and has none has the teardown of that very
\* room object in the microtask queue (Room.scheduleDestroyOnEmpty).
THEOREM EmptiedRoomsGo == Spec => []EmptiedRoomScheduled
  <1>1. Init => EmptyInv
    BY DEF Init, EmptyInv, EmptiedRoomScheduled
  <1>2. EmptyInv => EmptiedRoomScheduled
    BY DEF EmptyInv
  <1> QED
    BY <1>1, <1>2, EmptyStep, TypeCorrect, Agreement, PTL DEF Spec

-----------------------------------------------------------------------------
(* The connections.                                                        *)

NoReuse == StableId = {} \/ MaxFrames = 0

-----------------------------------------------------------------------------
(* A handleConnect call has one continuation at most, wherever it waits,   *)
(* and it is where its phase says.                                         *)

Resumes(k) == k[1] \in {"limited", "authenticated", "granted", "refused"}

Stage(kind) == IF kind = "limited" THEN "limiting"
               ELSE IF kind = "authenticated" THEN "authenticating"
               ELSE IF kind = "granted" THEN "joined"
               ELSE "refused"

Steps(q) == {i \in 1..Len(q) : Resumes(q[i])}

\* W waits for promises, q is the queue, ph the phase of each connection.
OneStepEach(W, q, ph) ==
    /\ \A k \in W : Resumes(k) => ph[k[2]] = Stage(k[1]) /\ k[3] = 0
    /\ \A i \in Steps(q) : ph[q[i][2]] = Stage(q[i][1])
    /\ \A i, j \in Steps(q) : q[i][2] = q[j][2] => i = j
    /\ \A k \in W, i \in Steps(q) : Resumes(k) => k[2] # q[i][2]

\* Connection c has no continuation.
Rests(c, W, q) ==
    /\ \A k \in W : Resumes(k) => k[2] # c
    /\ \A i \in Steps(q) : q[i][2] # c

Handshakes == OneStepEach(awaiting, jobs, phase)

LEMMA StepsOfTail ==
    ASSUME NEW q \in Seq(Job), q # <<>>
    PROVE  \A i \in Steps(Tail(q)) : i + 1 \in Steps(q) /\ Tail(q)[i] = q[i + 1]
  BY DEF Steps

LEMMA StepsOfAppend ==
    ASSUME NEW q \in Seq(Job), NEW k \in Job
    PROVE  \A i \in Steps(Append(q, k)) :
              \/ i \in Steps(q) /\ Append(q, k)[i] = q[i]
              \/ i = Len(q) + 1 /\ Append(q, k)[i] = k /\ Resumes(k)
  BY DEF Steps

\* The head of the queue is taken off; if it resumed a call, the call is at rest.
LEMMA TakeHead ==
    ASSUME NEW W, NEW q \in Seq(Job), NEW ph, q # <<>>, OneStepEach(W, q, ph)
    PROVE  /\ OneStepEach(W, Tail(q), ph)
           /\ Resumes(Head(q)) => /\ Rests(Head(q)[2], W, Tail(q))
                                  /\ ph[Head(q)[2]] = Stage(Head(q)[1])
<1> DEFINE t == Tail(q)
<1>1. \A i \in Steps(t) : i + 1 \in Steps(q) /\ t[i] = q[i + 1] /\ i \in Nat \ {0}
  BY StepsOfTail DEF Steps
<1> HIDE DEF t
<1>2. Resumes(Head(q)) => 1 \in Steps(q) /\ q[1] = Head(q)
  BY DEF Steps
<1>3. OneStepEach(W, t, ph)
  <2>1. \A i \in Steps(t) : ph[t[i][2]] = Stage(t[i][1])
    BY <1>1 DEF OneStepEach
  <2>2. ASSUME NEW i \in Steps(t), NEW j \in Steps(t), t[i][2] = t[j][2]
        PROVE  i = j
    <3>1. i + 1 = j + 1
      BY <1>1, <2>2 DEF OneStepEach
    <3> QED
      BY <1>1, <3>1
  <2>3. \A k \in W, i \in Steps(t) : Resumes(k) => k[2] # t[i][2]
    BY <1>1 DEF OneStepEach
  <2> QED
    BY <2>1, <2>2, <2>3 DEF OneStepEach
<1>4. ASSUME Resumes(Head(q)), NEW i \in Steps(t), t[i][2] = Head(q)[2]
      PROVE  FALSE
  <2>1. i + 1 = 1
    BY <1>1, <1>2, <1>4 DEF OneStepEach
  <2> QED
    BY <1>1, <2>1
<1>5. Resumes(Head(q)) => /\ \A k \in W : Resumes(k) => k[2] # Head(q)[2]
                          /\ ph[Head(q)[2]] = Stage(Head(q)[1])
  BY <1>2 DEF OneStepEach
<1> QED
  BY <1>3, <1>4, <1>5 DEF Rests, t

\* A call at rest may go anywhere.
LEMMA RestMoves ==
    ASSUME NEW W \in SUBSET Job, NEW q \in Seq(Job), NEW ph \in [Conn -> Phases], NEW c \in Conn, NEW p,
           OneStepEach(W, q, ph), Rests(c, W, q)
    PROVE  OneStepEach(W, q, [ph EXCEPT ![c] = p])
<1>1. \A k \in W : Resumes(k) => k[2] \in Conn
  BY DEF Job, Resumes
<1>2. \A i \in Steps(q) : q[i][2] \in Conn
  <2>1. \A i \in Steps(q) : q[i] \in Job /\ Resumes(q[i])
    BY DEF Steps
  <2> QED
    BY <2>1 DEF Job, Resumes
<1> QED
  BY <1>1, <1>2 DEF OneStepEach, Rests

\* The queue grows by a job that resumes no call, or the step of a call at rest.
LEMMA QueueGrows ==
    ASSUME NEW W, NEW q \in Seq(Job), NEW ph, NEW k \in Job, OneStepEach(W, q, ph),
           Resumes(k) => Rests(k[2], W, q) /\ ph[k[2]] = Stage(k[1])
    PROVE  OneStepEach(W, Append(q, k), ph)
<1> DEFINE s == Append(q, k)
<1>1. \A i \in Steps(s) : \/ i \in Steps(q) /\ s[i] = q[i]
                          \/ i = Len(q) + 1 /\ s[i] = k /\ Resumes(k)
  BY StepsOfAppend
<1> HIDE DEF s
<1>2. \A i \in Steps(s) : ph[s[i][2]] = Stage(s[i][1])
  BY <1>1 DEF OneStepEach
<1>3. \A i, j \in Steps(s) : s[i][2] = s[j][2] => i = j
  BY <1>1 DEF OneStepEach, Rests
<1>4. \A l \in W, i \in Steps(s) : Resumes(l) => l[2] # s[i][2]
  BY <1>1 DEF OneStepEach, Rests
<1> QED
  BY <1>2, <1>3, <1>4 DEF OneStepEach, s

LEMMA WaitsGrow ==
    ASSUME NEW W, NEW q, NEW ph, NEW k \in Job, OneStepEach(W, q, ph),
           Resumes(k) => Rests(k[2], W, q) /\ ph[k[2]] = Stage(k[1]) /\ k[3] = 0
    PROVE  OneStepEach(W \cup {k}, q, ph)
  BY DEF OneStepEach, Rests

\* A promise settles.
LEMMA SettleKeeps ==
    ASSUME NEW W \in SUBSET Job, NEW q \in Seq(Job), NEW ph, NEW k \in W, OneStepEach(W, q, ph)
    PROVE  OneStepEach(W \ {k}, Append(q, k), ph)
<1>1. OneStepEach(W \ {k}, q, ph)
  BY DEF OneStepEach
<1>2. Resumes(k) => Rests(k[2], W \ {k}, q) /\ ph[k[2]] = Stage(k[1])
  <2> SUFFICES ASSUME Resumes(k) PROVE Rests(k[2], W \ {k}, q)
    BY DEF OneStepEach
  <2>1. ASSUME NEW l \in W, Resumes(l), l[2] = k[2] PROVE l = k
    <3>1. Stage(l[1]) = Stage(k[1]) /\ l[3] = k[3]
      BY <2>1 DEF OneStepEach
    <3>2. l[1] = k[1]
      BY <2>1, <3>1 DEF Stage, Resumes
    <3> QED
      BY <2>1, <3>1, <3>2 DEF Job
  <2> QED
    BY <2>1 DEF OneStepEach, Rests
<1> QED
  BY <1>1, <1>2, QueueGrows

\* A call whose phase is none of the four stages has no continuation.
LEMMA NoStageRests ==
    ASSUME NEW W, NEW q, NEW ph, NEW c, OneStepEach(W, q, ph),
           ph[c] \notin {"limiting", "authenticating", "joined", "refused"}
    PROVE  Rests(c, W, q)
<1>1. \A kind : Stage(kind) \in {"limiting", "authenticating", "joined", "refused"}
  BY DEF Stage
<1> QED
  BY <1>1 DEF OneStepEach, Rests

\* The job that runs: its call was where it should be, and is now at rest.
LEMMA RunningStep ==
    ASSUME TypeOK, Handshakes, NEW kind, NEW x, Running(kind, x)
    PROVE  /\ Tail(jobs) \in Seq(Job)
           /\ OneStepEach(awaiting, Tail(jobs), phase)
           /\ kind \in {"limited", "authenticated", "granted", "refused"} =>
                 phase[x] = Stage(kind) /\ Rests(x, awaiting, Tail(jobs))
<1>1. /\ jobs \in Seq(Job) /\ jobs # <<>> /\ OneStepEach(awaiting, jobs, phase)
      /\ Head(jobs)[1] = kind /\ Head(jobs)[2] = x
  BY DEF TypeOK, Handshakes, Running, Quiet
<1>2. kind \in {"limited", "authenticated", "granted", "refused"} => Resumes(Head(jobs))
  BY <1>1 DEF Resumes
<1>3. Tail(jobs) \in Seq(Job)
  BY <1>1
<1> QED
  BY <1>1, <1>2, <1>3, TakeHead

\* What handleClose does to the queue it is given.
LEMMA CloseQueues ==
    ASSUME TypeOK, NEW a \in ActorId, NEW q \in Seq(Job), NEW ph, HandleClose(a, q),
           OneStepEach(awaiting, q, ph)
    PROVE  OneStepEach(awaiting, jobs', ph)
<1>1. \/ jobs' = q
      \/ \E r \in Room : jobs' = Append(q, <<"empty", r, gen[r]>>)
  BY DEF TypeOK, HandleClose, HandleLeave, InRoom
<1>2. CASE jobs' = q
  BY <1>2
<1>3. ASSUME NEW r \in Room, jobs' = Append(q, <<"empty", r, gen[r]>>)
      PROVE  OneStepEach(awaiting, jobs', ph)
  <2>1. <<"empty", r, gen[r]>> \in Job /\ ~Resumes(<<"empty", r, gen[r]>>)
    BY EmptyJob DEF TypeOK, Resumes
  <2> QED
    BY <1>3, <2>1, QueueGrows
<1> QED
  BY <1>1, <1>2, <1>3

LEMMA HandshakeConnect ==
    ASSUME TypeOK, Handshakes, NEW c \in Conn, Connect(c)
    PROVE  Handshakes'
<1> DEFINE Moved(p) == [phase EXCEPT ![c] = p]
<1>1. Rests(c, awaiting, jobs)
  BY NoStageRests DEF Connect, Handshakes
<1>2. \A p : OneStepEach(awaiting, jobs, Moved(p))
  BY <1>1, RestMoves DEF TypeOK, Handshakes
<1>3. jobs' = jobs
  BY DEF Connect
<1>4. ASSUME NEW kind \in {"limited", "authenticated"}, phase' = Moved(Stage(kind)),
             awaiting' = awaiting \cup {<<kind, c, 0>>}
      PROVE  Handshakes'
  <2>1. <<kind, c, 0>> \in Job
    BY JobOf DEF Kinds
  <2>2. phase'[c] = Stage(kind)
    BY <1>4 DEF TypeOK
  <2> QED
    BY <1>1, <1>2, <1>3, <1>4, <2>1, <2>2, WaitsGrow DEF Handshakes
<1>5. CASE phase' = Moved("over") /\ awaiting' = awaiting
  BY <1>2, <1>3, <1>5 DEF Handshakes
<1> QED
  BY <1>4, <1>5 DEF Connect, BeginAuth, Stage

LEMMA HandshakeResumes ==
    ASSUME TypeOK, Handshakes, NEW c \in Conn,
           Limited(c) \/ Authenticated(c) \/ Refused(c) \/ Granted(c)
    PROVE  Handshakes'
<1> DEFINE Moved(p) == [phase EXCEPT ![c] = p]
<1> DEFINE q == Tail(jobs)
<1>1. /\ q \in Seq(Job)
      /\ OneStepEach(awaiting, q, phase)
      /\ Rests(c, awaiting, q)
  BY RunningStep DEF Limited, Authenticated, Refused, Granted
<1>2. \A p : OneStepEach(awaiting, q, Moved(p))
  BY <1>1, RestMoves DEF TypeOK
<1>3. \A p : Moved(p)[c] = p
  BY DEF TypeOK
<1> HIDE DEF q, Moved
<1>4. ASSUME phase' = Moved("over"), jobs' = q, awaiting' = awaiting
      PROVE  Handshakes'
  BY <1>2, <1>4 DEF Handshakes
<1>5. CASE Limited(c)
  <2>1. CASE BeginAuth(c)
    <3>1. <<"authenticated", c, 0>> \in Job
      BY JobOf DEF Kinds
    <3>2. phase' = Moved("authenticating") /\ phase'[c] = Stage("authenticated")
      BY <1>3, <2>1 DEF BeginAuth, Moved, Stage
    <3>3. OneStepEach(awaiting \cup {<<"authenticated", c, 0>>}, q, phase')
      BY <1>1, <1>2, <3>1, <3>2, WaitsGrow
    <3> QED
      BY <1>5, <2>1, <3>3 DEF Limited, BeginAuth, Handshakes, q
  <2> QED
    BY <1>4, <1>5, <2>1 DEF Limited, Moved, q
<1>6. CASE Authenticated(c)
  <2>1. PICK kind \in {"granted", "refused"} :
           phase' = Moved(Stage(kind)) /\ jobs' = Append(q, <<kind, c, 0>>)
    <3>1. \/ phase' = Moved("joined") /\ jobs' = Append(q, <<"granted", c, 0>>)
          \/ phase' = Moved("refused") /\ jobs' = Append(q, <<"refused", c, 0>>)
      <4>1. \A r, a, greet, kick : Join(c, r, a, greet, kick) => phase' = Moved("joined")
        BY DEF Join, Moved
      <4>2. \A r, a, greet : JoinThrows(c, r, a, greet) => phase' = Moved("refused")
        BY DEF JoinThrows, Moved
      <4> QED
        BY <1>6, <4>1, <4>2 DEF Authenticated, JoinRefused, Moved, q
    <3> QED
      BY <3>1 DEF Stage
  <2>2. <<kind, c, 0>> \in Job
    BY JobOf DEF Kinds
  <2>3. OneStepEach(awaiting, Append(q, <<kind, c, 0>>), Moved(Stage(kind)))
    BY <1>1, <1>2, <1>3, <2>2, QueueGrows
  <2> QED
    BY <1>6, <2>1, <2>3 DEF Authenticated, Handshakes
<1>7. CASE Refused(c)
  BY <1>4, <1>7 DEF Refused, Moved, q
<1>8. CASE Granted(c)
  <2>1. CASE c \in closedEarly
    <3>1. HandleClose(aid[c], q) /\ phase' = Moved("over") /\ awaiting' = awaiting
      BY <1>8, <2>1 DEF Granted, Moved, q
    <3> QED
      BY <1>1, <1>2, <3>1, CloseQueues DEF Handshakes, TypeOK
  <2>2. CASE c \notin closedEarly
    <3>1. phase' = Moved("attached") /\ jobs' = q /\ awaiting' = awaiting
      BY <1>8, <2>2 DEF Granted, Moved, q
    <3> QED
      BY <1>2, <3>1 DEF Handshakes
  <2> QED
    BY <2>1, <2>2
<1> QED
  BY <1>5, <1>6, <1>7, <1>8

LEMMA HandshakeStep == TypeOK /\ Handshakes /\ [Next]_vars => Handshakes'
<1> SUFFICES ASSUME TypeOK, Handshakes, [Next]_vars
             PROVE  Handshakes'
  OBVIOUS
<1>1. CASE UNCHANGED <<awaiting, jobs, phase>>
  BY <1>1 DEF Handshakes
<1>2. ASSUME NEW c \in Conn, SocketCloses(c)
      PROVE  Handshakes'
  <2>1. CASE phase[c] = "attached"
    BY <1>2, <2>1, CloseQueues DEF SocketCloses, Handshakes, TypeOK
  <2>2. CASE phase[c] # "attached"
    BY <1>1, <1>2, <2>2 DEF SocketCloses
  <2> QED
    BY <2>1, <2>2
<1>3. ASSUME NEW c \in Conn, FrameArrives(c)
      PROVE  Handshakes'
  <2> DEFINE k == <<"checked", c, frames[c] + 1>>
  <2>1. k \in Job /\ ~Resumes(k)
    <3>1. frames[c] + 1 \in Nat
      BY DEF TypeOK
    <3>2. k \in Job
      BY <3>1, JobOf DEF Kinds
    <3> QED
      BY <3>2 DEF Resumes
  <2>2. /\ phase' = phase
        /\ \/ UNCHANGED loopVars
           \/ awaiting' = awaiting \cup {k} /\ UNCHANGED jobs
           \/ jobs' = Append(jobs, k) /\ UNCHANGED awaiting
    BY <1>3 DEF FrameArrives, loopVars
  <2> HIDE DEF k
  <2>3. OneStepEach(awaiting \cup {k}, jobs, phase) /\ OneStepEach(awaiting, Append(jobs, k), phase)
    BY <2>1, WaitsGrow, QueueGrows DEF Handshakes, TypeOK
  <2> QED
    BY <2>2, <2>3 DEF Handshakes, loopVars
<1>4. ASSUME NEW k \in awaiting, Settle(k)
      PROVE  Handshakes'
  BY <1>4, SettleKeeps DEF Settle, Handshakes, TypeOK, connVars
<1>5. ASSUME \/ \E c \in Conn : Checked(c)
             \/ \E r \in Room : TeardownEmpty(r)
      PROVE  Handshakes'
  BY <1>5, RunningStep DEF Checked, TeardownEmpty, Handshakes
<1>6. ASSUME \/ \E r \in Room : CreateRoom(r) \/ DestroyRoom(r) \/ Broadcast(r)
             \/ \E r \in Room, a \in ActorId : KickActor(r, a)
             \/ Shutdown
             \/ UNCHANGED vars
      PROVE  UNCHANGED <<awaiting, jobs, phase>>
  BY <1>6 DEF CreateRoom, DestroyRoom, Broadcast, KickActor, Shutdown, vars, loopVars, connVars
<1> QED
  BY <1>1, <1>2, <1>3, <1>4, <1>5, <1>6, HandshakeConnect, HandshakeResumes DEF Next, RunJob

-----------------------------------------------------------------------------
(* The life of a connection, whatever happens to rooms and ids.            *)

\* A socket changes only from open to closing.
Dims == \A d \in Conn : sock'[d] = sock[d] \/ (sock[d] = "open" /\ sock'[d] = "closing")

Goes(c, from, to) ==
    /\ phase[c] = from
    /\ phase' = [phase EXCEPT ![c] = to]
    /\ UNCHANGED closeVars

Connects(c) ==
    /\ \E to \in {"limiting", "authenticating", "over"} : Goes(c, "idle", to)
    /\ \E s \in {"open", "closing"} : sock' = [sock EXCEPT ![c] = s]
    /\ UNCHANGED aid

Joins(c, a) ==
    /\ Goes(c, "authenticating", "joined")
    /\ aid' = [aid EXCEPT ![c] = a]
    /\ Dims

\* It goes on without joining, attaches its listeners, or is found closed.
GoesOn(c) ==
    /\ \/ Goes(c, "limiting", "authenticating") \/ Goes(c, "limiting", "over")
       \/ Goes(c, "authenticating", "refused") \/ Goes(c, "refused", "over")
    /\ Dims /\ UNCHANGED aid

Attaches(c) == c \notin closedEarly /\ Goes(c, "joined", "attached") /\ Dims /\ UNCHANGED aid

Drains(c) == c \in closedEarly /\ Goes(c, "joined", "over") /\ UNCHANGED <<sock, aid>>

Closes(c) ==
    /\ sock[c] \in {"open", "closing"}
    /\ sock' = [sock EXCEPT ![c] = "closed"]
    /\ closedEarly' = IF FlagsEarlyClose(c) THEN closedEarly \cup {c} ELSE closedEarly
    /\ unheard' = IF phase[c] = "limiting" THEN unheard \cup {c} ELSE unheard
    /\ UNCHANGED <<phase, aid>>

Lives ==
    \/ Dims /\ UNCHANGED <<phase, closeVars, aid>>
    \/ \E c \in Conn : \/ Connects(c) \/ GoesOn(c) \/ Attaches(c) \/ Drains(c) \/ Closes(c)
                       \/ \E a \in Allocatable(c) : Joins(c, a)

LEMMA ClosingDims == ASSUME NEW C, sock' = Closing(C) PROVE Dims
  BY DEF Dims, Closing

LEMMA SameDims == ASSUME sock' = sock PROVE Dims
  BY DEF Dims

\* What grantAccess does to its connection, whether onJoin throws or not.
LEMMA AuthenticatedLives ==
    ASSUME TypeOK, Handshakes, NEW c \in Conn, Authenticated(c)
    PROVE  \/ \E r \in Room, a \in Allocatable(c), greet, kick \in BOOLEAN :
                Join(c, r, a, greet, kick) /\ Joins(c, a)
           \/ /\ GoesOn(c)
              /\ \/ \E r \in Room, a \in Allocatable(c), greet \in BOOLEAN : JoinThrows(c, r, a, greet)
                 \/ JoinRefused(c)
<1>1. phase[c] = "authenticating"
  BY RunningStep DEF Authenticated, Stage
<1>2. ASSUME NEW r \in Room, NEW a \in Allocatable(c), NEW greet \in BOOLEAN, NEW kick \in BOOLEAN,
             Join(c, r, a, greet, kick)
      PROVE  Joins(c, a)
  <2>1. Dims
    BY <1>2, ClosingDims, SameDims DEF Join
  <2>2. /\ aid' = [aid EXCEPT ![c] = a]
        /\ phase' = [phase EXCEPT ![c] = "joined"]
        /\ UNCHANGED closeVars
    BY <1>2 DEF Join
  <2> QED
    BY <1>1, <2>1, <2>2 DEF Joins, Goes
<1>3. ASSUME NEW r \in Room, NEW a \in Allocatable(c), NEW greet \in BOOLEAN,
             JoinThrows(c, r, a, greet)
      PROVE  GoesOn(c)
  BY <1>1, <1>3, SameDims DEF JoinThrows, GoesOn, Goes
<1>4. ASSUME JoinRefused(c)
      PROVE  GoesOn(c)
  BY <1>1, <1>4, SameDims DEF JoinRefused, GoesOn, Goes
<1> QED
  BY <1>2, <1>3, <1>4 DEF Authenticated

LEMMA GrantedLives ==
    ASSUME TypeOK, Handshakes, NEW c \in Conn, Granted(c)
    PROVE  \/ Drains(c) /\ HandleClose(aid[c], Tail(jobs))
           \/ Attaches(c)
<1>1. phase[c] = "joined"
  BY RunningStep DEF Granted, Stage
<1>2. CASE c \in closedEarly
  BY <1>1, <1>2 DEF Granted, Drains, Goes
<1>3. CASE c \notin closedEarly
  BY <1>1, <1>3, ClosingDims, SameDims DEF Granted, Attaches, Goes
<1> QED
  BY <1>2, <1>3

LEMMA ResumedLives ==
    ASSUME TypeOK, Handshakes, NEW c \in Conn, Limited(c) \/ Refused(c)
    PROVE  GoesOn(c)
<1>1. CASE Limited(c)
  <2>1. phase[c] = "limiting"
    BY <1>1, RunningStep DEF Limited, Stage
  <2> QED
    BY <1>1, <2>1, ClosingDims, SameDims DEF Limited, BeginAuth, GoesOn, Goes
<1>2. CASE Refused(c)
  <2>1. phase[c] = "refused"
    BY <1>2, RunningStep DEF Refused, Stage
  <2> QED
    BY <1>2, <2>1, ClosingDims DEF Refused, GoesOn, Goes
<1> QED
  BY <1>1, <1>2

\* The steps of the rooms, of frames and of the queue are no steps of a connection.
LEMMA Bystanders ==
    ASSUME \/ \E r \in Room : CreateRoom(r) \/ DestroyRoom(r) \/ Broadcast(r) \/ TeardownEmpty(r)
           \/ \E r \in Room, a \in ActorId : KickActor(r, a)
           \/ \E c \in Conn : FrameArrives(c) \/ Checked(c)
           \/ \E k \in awaiting : Settle(k)
           \/ Shutdown
           \/ UNCHANGED vars
    PROVE  Dims /\ UNCHANGED <<phase, closeVars, aid>>
<1>1. ASSUME NEW S, EmitKick(S) PROVE Dims
  BY <1>1, ClosingDims DEF EmitKick
<1>2. ASSUME NEW R, Destroy(R) PROVE Dims
  BY <1>1, <1>2 DEF Destroy
<1>3. CASE \E r \in Room : CreateRoom(r) \/ DestroyRoom(r) \/ Broadcast(r) \/ TeardownEmpty(r)
  BY <1>2, <1>3, SameDims DEF CreateRoom, DestroyRoom, Broadcast, TeardownEmpty, connVars, closeVars
<1>4. CASE \E r \in Room, a \in ActorId : KickActor(r, a)
  BY <1>1, <1>4 DEF KickActor
<1>5. CASE \E c \in Conn : FrameArrives(c)
  BY <1>1, <1>5, SameDims, ClosingDims DEF FrameArrives
<1>6. CASE \E c \in Conn : Checked(c)
  BY <1>1, <1>6, SameDims DEF Checked
<1>7. CASE \/ \E k \in awaiting : Settle(k)
           \/ UNCHANGED vars
  BY <1>7, SameDims DEF Settle, vars, connVars, closeVars
<1>8. CASE Shutdown
  BY <1>8, ClosingDims DEF Shutdown, Dispose
<1> QED
  BY <1>3, <1>4, <1>5, <1>6, <1>7, <1>8

LEMMA LivesStep ==
    ASSUME TypeOK, Handshakes, [Next]_vars
    PROVE  Lives
<1>1. ASSUME NEW c \in Conn, Connect(c)
      PROVE  Connects(c)
  BY <1>1 DEF Connect, BeginAuth, Connects, Goes
<1>2. ASSUME NEW c \in Conn, SocketCloses(c)
      PROVE  Closes(c)
  BY <1>2 DEF SocketCloses, Closes
<1> QED
  BY <1>1, <1>2, AuthenticatedLives, GrantedLives, ResumedLives, Bystanders DEF Next, RunJob, Lives

\* A close that comes before handleConnect is through is noticed, or goes unheard.
ClosesNoticed ==
    /\ \A c \in Conn : phase[c] = "idle" => sock[c] = "none"
    /\ \A c \in Conn : /\ sock[c] = "closed"
                       /\ phase[c] \in {"limiting", "authenticating", "joined", "refused"}
                       => c \in closedEarly \cup unheard
    /\ \A c \in closedEarly : sock[c] = "closed" /\ phase[c] \notin {"idle", "limiting", "attached"}
    /\ \A c \in unheard : sock[c] = "closed" /\ phase[c] # "idle"

LEMMA NoticedStep ==
    ASSUME TypeOK, ClosesNoticed, Lives
    PROVE  ClosesNoticed'
<1> USE DEF ClosesNoticed, closeVars
<1>1. CASE Dims /\ UNCHANGED <<phase, closeVars, aid>>
  BY <1>1 DEF Dims, TypeOK
<1>2. ASSUME NEW c \in Conn, Connects(c) PROVE ClosesNoticed'
  BY <1>2 DEF Connects, Goes, TypeOK
<1>3. ASSUME NEW c \in Conn, GoesOn(c) PROVE ClosesNoticed'
  <2>1. PICK from \in {"limiting", "authenticating", "refused"}, to \in {"authenticating", "refused", "over"} :
            Goes(c, from, to) /\ from # to /\ (from = "limiting" => to # "refused")
    BY <1>3 DEF GoesOn
  <2>2. /\ Dims /\ phase[c] = from /\ UNCHANGED <<closedEarly, unheard>>
        /\ phase'[c] = to /\ \A d \in Conn : d # c => phase'[d] = phase[d]
    BY <1>3, <2>1 DEF GoesOn, Goes, TypeOK
  <2> QED
    BY <2>1, <2>2 DEF Dims, TypeOK
<1>4. ASSUME NEW c \in Conn, Attaches(c) PROVE ClosesNoticed'
  BY <1>4 DEF Attaches, Goes, Dims, TypeOK
<1>5. ASSUME NEW c \in Conn, Drains(c) PROVE ClosesNoticed'
  BY <1>5 DEF Drains, Goes, TypeOK
<1>6. ASSUME NEW c \in Conn, Closes(c) PROVE ClosesNoticed'
  BY <1>6 DEF Closes, FlagsEarlyClose, TypeOK
<1>7. ASSUME NEW c \in Conn, NEW a, Joins(c, a) PROVE ClosesNoticed'
  BY <1>7 DEF Joins, Goes, Dims, TypeOK
<1> QED
  BY <1>1, <1>2, <1>3, <1>4, <1>5, <1>6, <1>7 DEF Lives

-----------------------------------------------------------------------------
(* Who keeps an id.                                                        *)

Keeps(c) == \/ phase[c] = "joined"
            \/ phase[c] = "attached" /\ (sock[c] # "closed" \/ c \in unheard)

LEMMA KeepersKeep == \A a : Keepers(a) = {c \in Conn : aid[c] = a /\ Keeps(c)}
  BY DEF Keepers, Keeps

\* Only a join makes a keeper, and only a close that is heard ends one.
LEMMA KeepersMove ==
    ASSUME TypeOK, ClosesNoticed, Lives, NEW a
    PROVE  \/ Keepers(a)' = Keepers(a)
           \/ \E c \in Conn : /\ a \in Allocatable(c) /\ Joins(c, a) /\ ~Keeps(c)
                            /\ Keepers(a)' = Keepers(a) \cup {c}
           \/ \E c \in Keepers(a) : /\ \/ Drains(c)
                                       \/ Closes(c) /\ phase[c] = "attached"
                                   /\ Keepers(a)' = Keepers(a) \ {c}
<1> USE KeepersKeep
<1>1. \A b : Keepers(b)' = {c \in Conn : aid'[c] = b /\ Keeps(c)'}
  BY DEF Keepers, Keeps
<1>2. CASE \A c \in Conn : aid'[c] = aid[c] /\ (Keeps(c)' <=> Keeps(c))
  BY <1>1, <1>2
<1>3. ASSUME NEW c \in Conn, Drains(c) \/ (Closes(c) /\ phase[c] = "attached")
      PROVE  /\ ~Keeps(c)' /\ aid' = aid
             /\ \A d \in Conn \ {c} : Keeps(d)' <=> Keeps(d)
  BY <1>3 DEF Drains, Closes, Goes, Keeps, TypeOK, closeVars, ClosesNoticed, FlagsEarlyClose
<1>4. CASE \E c \in Conn : Drains(c) \/ (Closes(c) /\ phase[c] = "attached")
  <2>1. PICK c \in Conn : Drains(c) \/ (Closes(c) /\ phase[c] = "attached")
    BY <1>4
  <2>2. Keepers(a)' = Keepers(a) \ {c}
    BY <1>1, <1>3, <2>1
  <2>3. CASE c \in Keepers(a)
    BY <2>1, <2>2, <2>3
  <2>4. CASE c \notin Keepers(a)
    BY <2>2, <2>4
  <2> QED
    BY <2>3, <2>4
<1>5. ASSUME NEW c \in Conn, NEW b \in Allocatable(c), Joins(c, b)
      PROVE  \/ Keepers(a)' = Keepers(a)
             \/ b = a /\ ~Keeps(c) /\ Keepers(a)' = Keepers(a) \cup {c}
  <2>1. /\ ~Keeps(c) /\ Keeps(c)' /\ aid'[c] = b
        /\ \A d \in Conn \ {c} : aid'[d] = aid[d] /\ (Keeps(d)' <=> Keeps(d))
    BY <1>5 DEF Joins, Goes, Dims, Keeps, TypeOK, closeVars
  <2> QED
    BY <1>1, <2>1
<1>6. ASSUME NEW c \in Conn, Connects(c) \/ GoesOn(c) \/ Attaches(c)
      PROVE  \A d \in Conn : aid'[d] = aid[d] /\ (Keeps(d)' <=> Keeps(d))
  BY <1>6 DEF Connects, GoesOn, Attaches, Goes, Dims, Keeps, TypeOK, closeVars, ClosesNoticed
<1>7. ASSUME NEW c \in Conn, Closes(c), phase[c] # "attached"
      PROVE  \A d \in Conn : aid'[d] = aid[d] /\ (Keeps(d)' <=> Keeps(d))
  BY <1>7 DEF Closes, Keeps, TypeOK
<1>8. ASSUME Dims /\ UNCHANGED <<phase, closeVars, aid>>
      PROVE  \A d \in Conn : aid'[d] = aid[d] /\ (Keeps(d)' <=> Keeps(d))
  BY <1>8 DEF Dims, Keeps, TypeOK, closeVars
<1> QED
  BY <1>2, <1>4, <1>5, <1>6, <1>7, <1>8 DEF Lives

-----------------------------------------------------------------------------
(* What the layer holds of an id.                                          *)

Trace(a) ==
    \/ \E r \in Room : a \in actors[r]
    \/ roomIds[a] # NoRoom
    \/ listeners[a] # {}
    \/ heldMsgs[a] # <<>>
    \/ a \in heldKick
    \/ a \in buckets

LEMMA LeaksAreTraces == NothingLeaks <=> \A a \in ActorId : Trace(a) => Keepers(a) # {}
  BY DEF NothingLeaks, Trace

\* Frames are held only for registered ids.
LEMMA HoldsRegistered ==
    ASSUME NEW held, NEW ids, NEW S, NEW n, NEW a \in ActorId, ids[a] = NoRoom
    PROVE  Hold(held, ids, S, n)[a] = held[a]
  BY DEF Hold

NoNewTraces == \A a \in ActorId : Trace(a)' => Trace(a)

LEMMA DestroyTraces ==
    ASSUME TypeOK, NEW R \in SUBSET Room, Destroy(R)
    PROVE  NoNewTraces
  BY DEF TypeOK, Destroy, EmitKick, Cleared, Trace, NoNewTraces

\* Once handleClose is through, nothing of the id is left, and nothing is new.
LEMMA CloseTraces ==
    ASSUME TypeOK, MembershipAgrees, NEW a \in ActorId, NEW q, HandleClose(a, q)
    PROVE  ~Trace(a)' /\ NoNewTraces
<1>1. /\ roomIds' = [roomIds EXCEPT ![a] = NoRoom]
      /\ listeners' = [listeners EXCEPT ![a] = {}]
      /\ heldKick' = heldKick \ {a}
      /\ buckets' = buckets \ {a}
  BY DEF HandleClose, Unregistered
<1>2. \A r \in Room : actors'[r] = actors[r] \ {a}
  BY CloseLeaves
<1>3. heldMsgs'[a] = <<>>
  <2>1. \E h \in [ActorId -> Seq(Nat)] : heldMsgs' = [h EXCEPT ![a] = <<>>]
    <3>1. heldMsgs \in [ActorId -> Seq(Nat)] /\ emits + 1 \in Nat
      BY DEF TypeOK
    <3>2. \A S : Hold(heldMsgs, roomIds, S, emits + 1) \in [ActorId -> Seq(Nat)]
      BY ONLY <3>1, HoldType
    <3> QED
      BY <3>1, <3>2 DEF HandleClose, HandleLeave
  <2> QED
    BY <2>1
<1>4. ASSUME NEW b \in ActorId, b # a, roomIds[b] = NoRoom
      PROVE  heldMsgs'[b] = heldMsgs[b]
  <2>1. \E h : /\ h[b] = heldMsgs[b] /\ DOMAIN h = ActorId
               /\ heldMsgs' = [h EXCEPT ![a] = <<>>]
    <3>1. DOMAIN heldMsgs = ActorId
      BY DEF TypeOK
    <3>2. \A S : /\ Hold(heldMsgs, roomIds, S, emits + 1)[b] = heldMsgs[b]
                 /\ DOMAIN Hold(heldMsgs, roomIds, S, emits + 1) = ActorId
      BY <1>4 DEF Hold
    <3> QED
      BY <3>1, <3>2 DEF HandleClose, HandleLeave
  <2> QED
    BY <1>4, <2>1
<1>5. ~Trace(a)'
  BY <1>1, <1>2, <1>3 DEF Trace, TypeOK
<1>6. ASSUME NEW b \in ActorId, b # a, Trace(b)'
      PROVE  Trace(b)
  BY <1>1, <1>2, <1>4, <1>6 DEF Trace, TypeOK
<1> QED
  BY <1>5, <1>6 DEF NoNewTraces

\* A join leaves traces of its own id only.
LEMMA JoinTraces ==
    ASSUME TypeOK, NEW c \in Conn, NEW r \in Room, NEW a \in Allocatable(c),
           NEW greet \in BOOLEAN, NEW kick \in BOOLEAN, Join(c, r, a, greet, kick)
    PROVE  \A b \in ActorId \ {a} : Trace(b)' => Trace(b)
<1> SUFFICES ASSUME NEW b \in ActorId, b # a, Trace(b)' PROVE Trace(b)
  OBVIOUS
<1> DEFINE ids == [roomIds EXCEPT ![a] = r]
           n == emits + (IF greet THEN 1 ELSE 0)
           heldG == IF greet THEN Hold(heldMsgs, ids, {a}, n) ELSE heldMsgs
<1>1. /\ roomIds' = ids
      /\ actors' = [actors EXCEPT ![r] = actors[r] \cup {a}]
      /\ heldKick' \in {heldKick, heldKick \cup {a}}
      /\ UNCHANGED <<listeners, buckets>>
  BY DEF Join
<1>2. ASSUME roomIds[b] = NoRoom
      PROVE  heldMsgs'[b] = heldMsgs[b]
  <2>1. ids[b] = NoRoom
    BY <1>2 DEF TypeOK
  <2>2. heldMsgs' = IF Presence THEN Hold(heldG, ids, actors[r] \cup {a}, n + 1) ELSE heldG
    BY DEF Join
  <2> HIDE DEF ids, n
  <2> QED
    BY <2>1, <2>2, HoldsRegistered
<1> QED
  BY <1>1, <1>2 DEF Trace, TypeOK

LEMMA JoinThrowsTraces ==
    ASSUME TypeOK, NEW c \in Conn, NEW r \in Room, NEW a \in Allocatable(c),
           NEW greet \in BOOLEAN, JoinThrows(c, r, a, greet)
    PROVE  NoNewTraces
<1> SUFFICES ASSUME NEW b \in ActorId, Trace(b)' PROVE Trace(b)
  BY DEF NoNewTraces
<1> DEFINE ids == [roomIds EXCEPT ![a] = r]
           sent == IF greet THEN Hold(heldMsgs, ids, {a}, emits + 1) ELSE heldMsgs
<1>1. /\ a \in ActorId
      /\ heldMsgs' = [sent EXCEPT ![a] = <<>>]
      /\ heldKick' = heldKick \ {a}
      /\ listeners' = [listeners EXCEPT ![a] = {}]
      /\ UNCHANGED <<actors, roomIds, buckets>>
  BY AllocatableType DEF JoinThrows, roomVars
<1>2. ASSUME roomIds[b] = NoRoom
      PROVE  heldMsgs'[b] \in {<<>>, heldMsgs[b]}
  <2>1. b # a => sent[b] = heldMsgs[b]
    BY DEF Hold
  <2>2. DOMAIN sent = ActorId
    BY DEF Hold, TypeOK
  <2> HIDE DEF sent
  <2> QED
    BY <1>1, <2>1, <2>2
<1> QED
  BY <1>1, <1>2 DEF Trace, TypeOK

\* Everything else only emits: to registered ids, or to connections.
LEMMA OtherTraces ==
    ASSUME TypeOK,
           \/ \E r \in Room : CreateRoom(r) \/ DestroyRoom(r) \/ Broadcast(r) \/ TeardownEmpty(r)
           \/ \E r \in Room, a \in ActorId : KickActor(r, a)
           \/ \E c \in Conn : \/ Connect(c) \/ Limited(c) \/ Refused(c) \/ JoinRefused(c)
                              \/ FrameArrives(c) \/ Checked(c)
           \/ \E k \in awaiting : Settle(k)
           \/ Shutdown
           \/ UNCHANGED vars
    PROVE  NoNewTraces
<1>1. CASE \E r \in Room : DestroyRoom(r) \/ TeardownEmpty(r)
  <2>1. \/ \E r \in Room : Destroy({r})
        \/ UNCHANGED <<roomVars, layerVars>>
    BY <1>1 DEF DestroyRoom, TeardownEmpty
  <2> QED
    BY <2>1, DestroyTraces DEF NoNewTraces, Trace, roomVars, layerVars
<1>2. ASSUME NEW r \in Room, Broadcast(r)
      PROVE  NoNewTraces
  <2>1. heldMsgs' = Hold(heldMsgs, roomIds, actors[r], emits + 1)
    BY <1>2 DEF Broadcast, EmitMessage
  <2> QED
    BY <1>2, <2>1, HoldsRegistered DEF Broadcast, NoNewTraces, Trace, roomVars
<1>3. CASE \E r \in Room, a \in ActorId : KickActor(r, a)
  BY <1>3 DEF KickActor, EmitKick, NoNewTraces, Trace, roomVars
<1>4. ASSUME NEW c \in Conn, FrameArrives(c)
      PROVE  NoNewTraces
  BY <1>4 DEF FrameArrives, EmitKick, NoNewTraces, Trace, roomVars
<1>5. ASSUME NEW c \in Conn, Checked(c)
      PROVE  NoNewTraces
  BY <1>5 DEF Checked, EmitKick, Unregistered, NoNewTraces, Trace, roomVars, TypeOK
<1>6. CASE Shutdown
  BY <1>6 DEF Shutdown, Cleared, NoNewTraces, Trace, TypeOK
<1>7. CASE \/ \E r \in Room : CreateRoom(r)
           \/ \E c \in Conn : Connect(c) \/ Limited(c) \/ Refused(c) \/ JoinRefused(c)
           \/ \E k \in awaiting : Settle(k)
           \/ UNCHANGED vars
  BY <1>7 DEF CreateRoom, Connect, Limited, Refused, JoinRefused, Settle, vars,
              roomVars, layerVars, NoNewTraces, Trace
<1> QED
  BY <1>1, <1>2, <1>3, <1>4, <1>5, <1>6, <1>7

\* Attaching listens, and empties the buffers.
LEMMA AttachTraces ==
    ASSUME TypeOK, NEW c \in Conn, Granted(c), c \notin closedEarly
    PROVE  \A b \in ActorId \ {aid[c]} : Trace(b)' => Trace(b)
<1>1. /\ aid[c] \in ActorId
      /\ heldMsgs' = [heldMsgs EXCEPT ![aid[c]] = <<>>]
      /\ listeners' = [listeners EXCEPT ![aid[c]] = @ \cup {c}]
      /\ heldKick' = heldKick \ {aid[c]}
      /\ UNCHANGED <<actors, roomIds, buckets>>
  BY DEF Granted, roomVars, TypeOK
<1> QED
  BY <1>1 DEF Trace, TypeOK

LEMMA LeaksStep ==
    ASSUME TypeOK, MembershipAgrees, Handshakes, ClosesNoticed, NothingLeaks, [Next]_vars
    PROVE  NothingLeaks'
<1> USE LeaksAreTraces
<1>1. Lives
  BY LivesStep
<1>2. (\A a \in ActorId : Trace(a)' => Keepers(a)' # {}) => NothingLeaks'
  BY DEF NothingLeaks, Trace
<1>3. ASSUME NoNewTraces, ~\E c \in Conn : Drains(c) \/ (Closes(c) /\ phase[c] = "attached")
      PROVE  NothingLeaks'
  <2> SUFFICES ASSUME NEW a \in ActorId, Trace(a)' PROVE Keepers(a)' # {}
    BY <1>2
  <2>1. Keepers(a) # {}
    BY <1>3 DEF NoNewTraces
  <2>2. Keepers(a)' = Keepers(a) \/ \E c \in Conn : Keepers(a)' = Keepers(a) \cup {c}
    BY <1>1, <1>3, KeepersMove, KeepersKeep
  <2> QED
    BY <2>1, <2>2
<1>4. ASSUME NEW c \in Conn, HandleClose(aid[c], jobs) \/ HandleClose(aid[c], Tail(jobs)),
             Drains(c) \/ Closes(c)
      PROVE  NothingLeaks'
  <2>1. \A a \in ActorId : a = aid[c] => ~Trace(a)' /\ NoNewTraces
    BY <1>4, CloseTraces
  <2>4. aid[c] \in ActorId
    BY DEF TypeOK
  <2>2. ASSUME NEW a \in ActorId, a # aid[c]
        PROVE  Keepers(a) \subseteq Keepers(a)'
    <3>1. \A d \in Keepers(a) : d # c /\ aid[d] = a /\ Keeps(d)
      BY <2>2, KeepersKeep
    <3>2. \A d \in Conn \ {c} : aid'[d] = aid[d] /\ (Keeps(d) => Keeps(d)')
      BY <1>4 DEF Drains, Closes, Goes, Keeps, TypeOK, closeVars, ClosesNoticed
    <3> QED
      BY <3>1, <3>2 DEF Keepers, Keeps
  <2> SUFFICES ASSUME NEW a \in ActorId, Trace(a)' PROVE Keepers(a)' # {}
    BY <1>2
  <2>3. a # aid[c] /\ Trace(a)
    BY <2>1, <2>4 DEF NoNewTraces
  <2> QED
    BY <2>2, <2>3
<1>5. ASSUME NEW c \in Conn, Granted(c)
      PROVE  NothingLeaks'
  <2>1. CASE Attaches(c)
    <3>1. \A a : Keepers(a) = Keepers(a)'
      BY <2>1 DEF Attaches, Goes, Dims, Keepers, TypeOK, closeVars, ClosesNoticed
    <3>2. aid[c] \in ActorId /\ Keepers(aid[c]) # {}
      BY <2>1 DEF Attaches, Goes, Keepers, TypeOK
    <3>3. \A b \in ActorId \ {aid[c]} : Trace(b)' => Trace(b)
      BY <1>5, <2>1, AttachTraces DEF Attaches
    <3> QED
      BY <1>2, <3>1, <3>2, <3>3
  <2> QED
    BY <1>4, <1>5, <2>1, GrantedLives
<1>6. ASSUME NEW c \in Conn, Authenticated(c)
      PROVE  NothingLeaks'
  <2>1. ASSUME NEW r \in Room, NEW a \in Allocatable(c), NEW greet \in BOOLEAN, NEW kick \in BOOLEAN,
               Join(c, r, a, greet, kick), Joins(c, a)
        PROVE  NothingLeaks'
    <3>1. c \in Keepers(a)'
      BY <2>1 DEF Joins, Goes, Keepers, TypeOK
    <3>2. \A b : Keepers(b) \subseteq Keepers(b)'
      BY <2>1 DEF Joins, Goes, Dims, Keepers, TypeOK, closeVars
    <3>3. \A b \in ActorId \ {a} : Trace(b)' => Trace(b)
      BY <2>1, JoinTraces
    <3> QED
      BY <1>2, <3>1, <3>2, <3>3
  <2>2. ASSUME GoesOn(c), NoNewTraces
        PROVE  NothingLeaks'
    <3>1. ~\E d \in Conn : Drains(d) \/ Closes(d)
      BY <2>2 DEF GoesOn, Drains, Closes, Goes, Dims, TypeOK
    <3> QED
      BY <1>3, <2>2, <3>1
  <2>3. JoinRefused(c) => NoNewTraces
    BY OtherTraces
  <2> QED
    BY <1>6, <2>1, <2>2, <2>3, AuthenticatedLives, JoinThrowsTraces
<1>7. ASSUME NEW c \in Conn, SocketCloses(c)
      PROVE  NothingLeaks'
  <2>1. Closes(c)
    BY <1>7 DEF SocketCloses, Closes
  <2>2. CASE phase[c] = "attached"
    BY <1>4, <1>7, <2>1, <2>2 DEF SocketCloses
  <2>3. CASE phase[c] # "attached"
    <3>1. NoNewTraces
      BY <1>7, <2>3 DEF SocketCloses, NoNewTraces, Trace, roomVars, layerVars
    <3>2. ~\E d \in Conn : Drains(d) \/ (Closes(d) /\ phase[d] = "attached")
      BY <2>1, <2>3 DEF Drains, Closes, Goes, TypeOK
    <3> QED
      BY <1>3, <3>1, <3>2
  <2> QED
    BY <2>2, <2>3
<1>8. ASSUME \/ \E r \in Room : CreateRoom(r) \/ DestroyRoom(r) \/ Broadcast(r) \/ TeardownEmpty(r)
             \/ \E r \in Room, a \in ActorId : KickActor(r, a)
             \/ \E c \in Conn : FrameArrives(c) \/ Checked(c)
             \/ \E k \in awaiting : Settle(k)
             \/ Shutdown
             \/ UNCHANGED vars
      PROVE  NothingLeaks'
  <2>1. NoNewTraces
    BY <1>8, OtherTraces
  <2>2. Dims /\ UNCHANGED phase
    BY <1>8, Bystanders
  <2>3. ~\E d \in Conn : Drains(d) \/ Closes(d)
    BY <2>2 DEF Drains, Closes, Goes, Dims, TypeOK
  <2> QED
    BY <1>3, <2>1, <2>3
<1>9. ASSUME NEW c \in Conn, Connect(c) \/ Limited(c) \/ Refused(c)
      PROVE  NothingLeaks'
  <2>1. NoNewTraces
    BY <1>9, OtherTraces
  <2>2. Connects(c) \/ GoesOn(c)
    BY <1>9, ResumedLives DEF Connect, BeginAuth, Connects, Goes
  <2>3. ~\E d \in Conn : Drains(d) \/ (Closes(d) /\ phase[d] = "attached")
    BY <2>2 DEF Connects, GoesOn, Drains, Closes, Goes, Dims, TypeOK
  <2> QED
    BY <1>3, <2>1, <2>3
<1> QED
  BY <1>5, <1>6, <1>7, <1>8, <1>9 DEF Next, RunJob

LifeInv == TypeOK /\ MembershipAgrees /\ Handshakes /\ ClosesNoticed /\ NothingLeaks

LEMMA LifeStep == LifeInv /\ [Next]_vars => LifeInv'
  BY TypeStep, AgreeStep, HandshakeStep, LivesStep, NoticedStep, LeaksStep DEF LifeInv

LEMMA LifeInit == Init => LifeInv
<1> SUFFICES ASSUME Init PROVE LifeInv
  OBVIOUS
<1>1. TypeOK
  BY TypeInit
<1>2. MembershipAgrees /\ ClosesNoticed
  BY DEF Init, MembershipAgrees, ClosesNoticed
<1>3. Handshakes
  BY DEF Init, Handshakes, OneStepEach, Steps
<1>4. NothingLeaks
  BY DEF Init, NothingLeaks
<1> QED
  BY <1>1, <1>2, <1>3, <1>4 DEF LifeInv

\* Whatever interleaves with the handshake, the close of a connection takes away every
\* trace of its actor, and nothing is left of an actor without a connection: its seat,
\* registration, listeners, buffers and rate limiter state (TLayer.handleClose,
\* grantAccess, WSTransport.handleConnect).
THEOREM Clean == Spec => []NothingLeaks
<1>1. LifeInv => NothingLeaks
  BY DEF LifeInv
<1> QED
  BY <1>1, LifeInit, LifeStep, PTL DEF Spec

-----------------------------------------------------------------------------
(* Frames under way.                                                       *)

\* A frame that waits for the rate limiter is one of a connection that has attached,
\* and whose close will be heard.
Awaited(k) == k[1] = "checked" => /\ phase[k[2]] = "attached"
                                  /\ k[2] \notin unheard
                                  /\ MaxFrames # 0

Queued == awaiting \cup Elems(jobs)

FramesAttached == \A k \in Queued : Awaited(k)

\* A step adds no frame to those that wait, but for the one that arrives.
LEMMA FramesQueued ==
    ASSUME TypeOK, [Next]_vars
    PROVE  \/ \A k \in Queued' : k \in Queued \/ k[1] # "checked"
           \/ \E c \in Conn : /\ FrameArrives(c)
                              /\ Queued' \subseteq Queued \cup {<<"checked", c, frames[c] + 1>>}
<1> DEFINE Old(W, q) == \A k \in W \cup Elems(q) : k \in Queued \/ k[1] # "checked"
<1>1. /\ jobs \in Seq(Job) /\ Old(awaiting, jobs)
      /\ jobs # <<>> => Tail(jobs) \in Seq(Job) /\ Old(awaiting, Tail(jobs))
  BY ElemsOfTail DEF TypeOK, Queued
<1>2. ASSUME NEW q \in Seq(Job), NEW k \in Job, Old(awaiting, q), k[1] # "checked"
      PROVE  Old(awaiting, Append(q, k))
  BY <1>2, ElemsOfAppend
<1>3. ASSUME NEW a \in ActorId, NEW q \in Seq(Job), HandleClose(a, q), Old(awaiting, q)
      PROVE  Old(awaiting, jobs')
  <2>1. \/ jobs' = q
        \/ \E r \in Room : jobs' = Append(q, <<"empty", r, gen[r]>>)
    BY <1>3 DEF TypeOK, HandleClose, HandleLeave, InRoom
  <2>2. \A r \in Room : <<"empty", r, gen[r]>> \in Job
    BY EmptyJob DEF TypeOK
  <2> QED
    BY <1>2, <1>3, <2>1, <2>2
<1>4. ASSUME NEW kind \in {"limited", "authenticated", "granted", "refused"}, NEW c \in Conn
      PROVE  <<kind, c, 0>> \in Job
  BY JobOf DEF Kinds
<1>5. Old(awaiting', jobs') => \A k \in Queued' : k \in Queued \/ k[1] # "checked"
  BY DEF Queued
<1> HIDE DEF Old
<1>6. ASSUME NEW c \in Conn, Connect(c)
      PROVE  Old(awaiting', jobs')
  <2>1. /\ jobs' = jobs
        /\ \A k \in awaiting' : k \in awaiting \/ k[1] # "checked"
    BY <1>6 DEF Connect, BeginAuth
  <2> QED
    BY <1>1, <2>1 DEF Old
<1>7. ASSUME NEW c \in Conn, Limited(c)
      PROVE  Old(awaiting', jobs')
  <2>1. /\ jobs # <<>> /\ jobs' = Tail(jobs)
        /\ \A k \in awaiting' : k \in awaiting \/ k[1] # "checked"
    BY <1>7 DEF Limited, BeginAuth, Running, Quiet
  <2> QED
    BY <1>1, <2>1 DEF Old
<1>8. ASSUME NEW c \in Conn, Authenticated(c)
      PROVE  Old(awaiting', jobs')
  <2>1. /\ jobs # <<>> /\ awaiting' = awaiting
        /\ \E kind \in {"granted", "refused"} : jobs' = Append(Tail(jobs), <<kind, c, 0>>)
    BY <1>8 DEF Authenticated, Running, Quiet
  <2> QED
    BY <1>1, <1>2, <1>4, <2>1
<1>9. ASSUME NEW c \in Conn, Refused(c) \/ Checked(c)
      PROVE  Old(awaiting', jobs')
  BY <1>1, <1>9 DEF Refused, Checked, Running, Quiet
<1>10. ASSUME NEW c \in Conn, Granted(c)
       PROVE  Old(awaiting', jobs')
  <2>1. jobs # <<>> /\ awaiting' = awaiting /\ aid[c] \in ActorId
    BY <1>10 DEF Granted, Running, Quiet, TypeOK
  <2>2. HandleClose(aid[c], Tail(jobs)) \/ jobs' = Tail(jobs)
    BY <1>10 DEF Granted
  <2> QED
    BY <1>1, <1>3, <2>1, <2>2
<1>11. ASSUME NEW c \in Conn, SocketCloses(c)
       PROVE  Old(awaiting', jobs')
  <2>1. awaiting' = awaiting /\ aid[c] \in ActorId
    BY <1>11 DEF SocketCloses, TypeOK
  <2>2. HandleClose(aid[c], jobs) \/ jobs' = jobs
    BY <1>11 DEF SocketCloses
  <2> QED
    BY <1>1, <1>3, <2>1, <2>2
<1>12. ASSUME NEW r \in Room, TeardownEmpty(r)
       PROVE  Old(awaiting', jobs')
  BY <1>1, <1>12 DEF TeardownEmpty, Running, Quiet
<1>13. ASSUME NEW k \in awaiting, Settle(k)
       PROVE  Old(awaiting', jobs')
  <2>1. awaiting' = awaiting \ {k} /\ jobs' = Append(jobs, k) /\ k \in Job
    BY <1>13 DEF Settle, TypeOK
  <2>2. Elems(Append(jobs, k)) \subseteq Elems(jobs) \cup {k}
    BY <1>1, <2>1, ElemsOfAppend
  <2> QED
    BY <2>1, <2>2 DEF Old, Queued
<1>14. ASSUME NEW c \in Conn, FrameArrives(c)
       PROVE  Queued' \subseteq Queued \cup {<<"checked", c, frames[c] + 1>>}
  <2> DEFINE k == <<"checked", c, frames[c] + 1>>
  <2>1. k \in Job
    <3>1. frames[c] + 1 \in Nat
      BY DEF TypeOK
    <3> QED
      BY <3>1, JobOf DEF Kinds
  <2>2. \/ UNCHANGED loopVars
        \/ awaiting' = awaiting \cup {k} /\ UNCHANGED jobs
        \/ jobs' = Append(jobs, k) /\ UNCHANGED awaiting
    BY <1>14 DEF FrameArrives, loopVars
  <2> HIDE DEF k
  <2>3. Elems(Append(jobs, k)) \subseteq Elems(jobs) \cup {k}
    BY <1>1, <2>1, ElemsOfAppend
  <2>4. Queued' \subseteq Queued \cup {k}
    BY <2>2, <2>3 DEF Queued, loopVars
  <2> QED
    BY <2>4 DEF k
<1>15. ASSUME \/ \E r \in Room : CreateRoom(r) \/ DestroyRoom(r) \/ Broadcast(r)
              \/ \E r \in Room, a \in ActorId : KickActor(r, a)
              \/ Shutdown
              \/ UNCHANGED vars
       PROVE  Old(awaiting', jobs')
  <2>1. UNCHANGED <<awaiting, jobs>>
    BY <1>15 DEF CreateRoom, DestroyRoom, Broadcast, KickActor, Shutdown, vars, loopVars
  <2> QED
    BY <1>1, <2>1
<1> QED
  BY <1>5, <1>6, <1>7, <1>8, <1>9, <1>10, <1>11, <1>12, <1>13, <1>14, <1>15 DEF Next, RunJob

LEMMA FramesStep ==
    ASSUME TypeOK, ClosesNoticed, Lives, FramesAttached, [Next]_vars
    PROVE  FramesAttached'
<1>1. ASSUME NEW c \in Conn, phase[c] = "attached", c \notin unheard
      PROVE  phase'[c] = "attached" /\ c \notin unheard'
  BY <1>1 DEF Lives, Connects, GoesOn, Attaches, Drains, Closes, Joins, Goes, TypeOK, closeVars
<1>2. Queued \subseteq Job
  BY DEF Queued, Elems, TypeOK
<1>3. ASSUME NEW k \in Queued
      PROVE  Awaited(k)'
  <2>1. k[1] = "checked" => k[2] \in Conn
    BY <1>2 DEF Job
  <2> QED
    BY <1>1, <2>1 DEF FramesAttached, Awaited
<1>4. ASSUME NEW c \in Conn, FrameArrives(c), NEW k, k = <<"checked", c, frames[c] + 1>>
      PROVE  Awaited(k)'
  <2>1. phase[c] = "attached" /\ c \notin unheard /\ MaxFrames # 0
    BY <1>4, BoundsAssumption DEF FrameArrives, ClosesNoticed, TypeOK
  <2> QED
    BY <1>1, <1>4, <2>1 DEF Awaited
<1>5. CASE \A k \in Queued' : k \in Queued \/ k[1] # "checked"
  BY <1>3, <1>5 DEF FramesAttached, Awaited
<1>6. CASE \E c \in Conn : /\ FrameArrives(c)
                         /\ Queued' \subseteq Queued \cup {<<"checked", c, frames[c] + 1>>}
  BY <1>3, <1>4, <1>6 DEF FramesAttached
<1> QED
  BY <1>5, <1>6, FramesQueued

-----------------------------------------------------------------------------
(* Under NoReuse an id has one connection.                                 *)

OwnIds == \A c \in Conn : aid[c] \in StableId \cup {c}

LEMMA OwnStep == ASSUME TypeOK, OwnIds, Lives PROVE OwnIds'
<1>1. ASSUME NEW c \in Conn, NEW a \in Allocatable(c), Joins(c, a)
      PROVE  OwnIds'
  BY <1>1 DEF OwnIds, Joins, Allocatable, TypeOK
<1>2. CASE UNCHANGED aid
  BY <1>2 DEF OwnIds
<1> QED
  BY <1>1, <1>2 DEF Lives, Connects, GoesOn, Attaches, Drains, Closes

Alone == \A a \in ActorId : \A c, d \in Keepers(a) : c = d

\* No frame, no room found gone: an id is registered until its connection is over.
Registered == MaxFrames = 0 => \A a \in ActorId : Keepers(a) # {} => roomIds[a] # NoRoom

\* An id that is free to a connection without one is kept by nobody.
LEMMA FreeIds ==
    ASSUME NoReuse, OwnIds, Registered, NEW c \in Conn, NEW a \in Allocatable(c), ~Keeps(c)
    PROVE  Keepers(a) = {}
<1>1. CASE a \in StableId
  BY <1>1, AllocatableType DEF NoReuse, Registered
<1>2. CASE a \notin StableId
  <2>1. a = c
    BY <1>2 DEF Allocatable
  <2>2. \A d \in Keepers(a) : aid[d] = a /\ d \in Conn /\ Keeps(d)
    BY KeepersKeep
  <2>3. \A d \in Keepers(a) : d = c
    BY <1>2, <2>1, <2>2 DEF OwnIds
  <2> QED
    BY <2>2, <2>3
<1> QED
  BY <1>1, <1>2

LEMMA SameKeeper ==
    ASSUME TypeOK, Alone, NEW c \in Conn, NEW d \in Conn, Keeps(c), Keeps(d), aid[c] = aid[d]
    PROVE  c = d
<1>1. aid[c] \in ActorId /\ c \in Keepers(aid[c]) /\ d \in Keepers(aid[c])
  BY KeepersKeep DEF TypeOK
<1> QED
  BY <1>1 DEF Alone

LEMMA AloneStep ==
    ASSUME NoReuse, TypeOK, ClosesNoticed, OwnIds, Alone, Registered, Lives
    PROVE  Alone'
<1> SUFFICES ASSUME NEW a \in ActorId
             PROVE  \A c, d \in Keepers(a)' : c = d
  BY DEF Alone
<1>1. CASE Keepers(a)' \subseteq Keepers(a)
  BY <1>1 DEF Alone
<1> QED
  BY <1>1, FreeIds, KeepersMove

LEMMA RegisteredStep ==
    ASSUME TypeOK, Handshakes, ClosesNoticed, Alone, Registered, FramesAttached, [Next]_vars
    PROVE  Registered'
<1> SUFFICES ASSUME MaxFrames = 0, NEW a \in ActorId, Keepers(a)' # {}
             PROVE  roomIds'[a] # NoRoom
  BY DEF Registered
<1>1. Lives
  BY LivesStep
<1>2. CASE roomIds' = roomIds /\ ~\E c \in Conn : a \in Allocatable(c) /\ Joins(c, a)
  <2>1. Keepers(a) # {}
    BY <1>1, <1>2, KeepersMove
  <2> QED
    BY <1>2, <2>1 DEF Registered
<1>3. ASSUME NEW c \in Conn, HandleClose(aid[c], jobs) \/ HandleClose(aid[c], Tail(jobs)),
             Drains(c) \/ (Closes(c) /\ phase[c] = "attached")
      PROVE  roomIds'[a] # NoRoom
  <2>1. Keeps(c) /\ c \in Keepers(aid[c])
    BY <1>3, KeepersKeep DEF Drains, Closes, Goes, Keeps
  <2>2. aid' = aid /\ ~Keeps(c)' /\ \A d \in Conn \ {c} : Keeps(d)' => Keeps(d)
    BY <1>3 DEF Drains, Closes, Goes, Keeps, TypeOK, closeVars, ClosesNoticed, FlagsEarlyClose
  <2>3. PICK d \in Conn : aid[d] = a /\ d # c /\ Keeps(d)
    BY <2>2 DEF Keepers, Keeps
  <2>4. a # aid[c]
    BY <2>1, <2>3, KeepersKeep DEF Alone
  <2>5. roomIds'[a] = roomIds[a]
    BY <1>3, <2>4 DEF HandleClose, Unregistered, TypeOK
  <2>6. d \in Keepers(a)
    BY <2>3, KeepersKeep
  <2> QED
    BY <2>5, <2>6 DEF Registered
<1>4. ASSUME NEW c \in Conn, Granted(c) \/ SocketCloses(c)
      PROVE  roomIds'[a] # NoRoom
  <2>1. CASE Granted(c) /\ ~Attaches(c)
    BY <1>3, <2>1, GrantedLives
  <2>2. CASE Granted(c) /\ Attaches(c)
    <3>1. c \notin closedEarly
      BY <2>2 DEF Attaches
    <3>2. roomIds' = roomIds
      BY <2>2, <3>1 DEF Granted
    <3>3. ~\E d \in Conn : Joins(d, a)
      BY <2>2 DEF Attaches, Joins, Goes, TypeOK
    <3> QED
      BY <1>2, <3>2, <3>3
  <2>3. CASE SocketCloses(c) /\ phase[c] = "attached"
    BY <1>3, <2>3 DEF SocketCloses, Closes
  <2>4. CASE SocketCloses(c) /\ phase[c] # "attached"
    <3>1. roomIds' = roomIds /\ phase' = phase
      BY <2>4 DEF SocketCloses, layerVars
    <3>2. ~\E d \in Conn : Joins(d, a)
      BY <3>1 DEF Joins, Goes, TypeOK
    <3> QED
      BY <1>2, <3>1, <3>2
  <2> QED
    BY <1>4, <2>1, <2>2, <2>3, <2>4
<1>5. ASSUME NEW c \in Conn, Authenticated(c)
      PROVE  roomIds'[a] # NoRoom
  <2>1. ASSUME NEW r \in Room, NEW b \in Allocatable(c), NEW greet \in BOOLEAN, NEW kick \in BOOLEAN,
               Join(c, r, b, greet, kick), Joins(c, b)
        PROVE  roomIds'[a] # NoRoom
    <3>1. roomIds' = [roomIds EXCEPT ![b] = r]
      BY <2>1, JoinMembership
    <3>2. CASE a = b
      BY <3>1, <3>2, IdsAssumption DEF TypeOK
    <3>3. CASE a # b
      <4>1. \A d \in Keepers(a)' : d # c
        BY <2>1, <3>3 DEF Joins, Keepers, TypeOK
      <4>2. Keepers(a) # {}
        BY <2>1, <4>1 DEF Joins, Goes, Dims, Keepers, TypeOK, closeVars
      <4> QED
        BY <3>1, <3>3, <4>2 DEF Registered, TypeOK
    <3> QED
      BY <3>2, <3>3
  <2>2. ASSUME GoesOn(c), roomIds' = roomIds
        PROVE  roomIds'[a] # NoRoom
    <3>1. ~\E d \in Conn : Joins(d, a)
      BY <2>2 DEF GoesOn, Joins, Goes, TypeOK
    <3> QED
      BY <1>2, <2>2, <3>1
  <2> QED
    BY <1>5, <2>1, <2>2, AuthenticatedLives DEF JoinThrows, JoinRefused, layerVars
<1>6. ASSUME NEW c \in Conn, Checked(c)
      PROVE  FALSE
  <2>1. Head(jobs) \in Queued /\ Head(jobs)[1] = "checked"
    BY <1>6, ElemsOfTail DEF Checked, Running, Quiet, Queued, TypeOK
  <2> QED
    BY <2>1 DEF FramesAttached, Awaited
<1>7. ASSUME NEW c \in Conn, Connect(c) \/ Limited(c) \/ Refused(c)
      PROVE  roomIds'[a] # NoRoom
  <2>1. roomIds' = roomIds
    BY <1>7 DEF Connect, Limited, Refused, layerVars
  <2>2. Connects(c) \/ GoesOn(c)
    BY <1>7, ResumedLives DEF Connect, BeginAuth, Connects, Goes
  <2>3. ~\E d \in Conn : Joins(d, a)
    BY <2>2 DEF Connects, GoesOn, Joins, Goes, TypeOK
  <2> QED
    BY <1>2, <2>1, <2>3
<1>8. ASSUME \/ \E r \in Room : CreateRoom(r) \/ DestroyRoom(r) \/ Broadcast(r) \/ TeardownEmpty(r)
             \/ \E r \in Room, b \in ActorId : KickActor(r, b)
             \/ \E c \in Conn : FrameArrives(c)
             \/ \E k \in awaiting : Settle(k)
             \/ Shutdown
             \/ UNCHANGED vars
      PROVE  roomIds'[a] # NoRoom
  <2>1. roomIds' = roomIds
    BY <1>8 DEF CreateRoom, DestroyRoom, Broadcast, TeardownEmpty, Destroy, KickActor,
                FrameArrives, Settle, Shutdown, vars, layerVars
  <2>2. UNCHANGED phase
    BY <1>8, Bystanders
  <2>3. ~\E d \in Conn : Joins(d, a)
    BY <2>2 DEF Joins, Goes, TypeOK
  <2> QED
    BY <1>2, <2>1, <2>3
<1> QED
  BY <1>4, <1>5, <1>6, <1>7, <1>8 DEF Next, RunJob

IdInv == NoReuse /\ LifeInv /\ FramesAttached /\ OwnIds /\ Alone /\ Registered

LEMMA IdStep == IdInv /\ [Next]_vars => IdInv'
<1> SUFFICES ASSUME IdInv, [Next]_vars PROVE IdInv'
  OBVIOUS
<1>1. Lives
  BY LivesStep DEF IdInv, LifeInv
<1>2. LifeInv' /\ NoReuse'
  BY LifeStep DEF IdInv, NoReuse
<1>3. FramesAttached'
  BY <1>1, FramesStep DEF IdInv, LifeInv
<1>4. OwnIds' /\ Alone'
  BY <1>1, OwnStep, AloneStep DEF IdInv, LifeInv
<1>5. Registered'
  BY RegisteredStep DEF IdInv, LifeInv
<1> QED
  BY <1>2, <1>3, <1>4, <1>5 DEF IdInv

LEMMA IdInit == NoReuse /\ Init => IdInv
<1> SUFFICES ASSUME NoReuse, Init PROVE IdInv
  OBVIOUS
<1>1. FramesAttached
  BY DEF Init, FramesAttached, Queued, Elems
<1>2. OwnIds
  BY DEF Init, OwnIds
<1>3. \A a : Keepers(a) = {}
  BY DEF Init, Keepers
<1> QED
  BY <1>1, <1>2, <1>3, LifeInit DEF IdInv, Alone, Registered

LEMMA HeardOpen ==
    ASSUME IdInv, NEW c \in Conn, [Next]_vars, handled'[c] # handled[c]
    PROVE  sock[c] # "closed"
<1>1. Checked(c) /\ InRoom(aid[c])
  <2>1. PICK d \in Conn : /\ Checked(d) /\ InRoom(aid[d])
                          /\ handled' = [handled EXCEPT ![d] = Append(@, Head(jobs)[3])]
    <3>1. CASE \E d \in Conn : Checked(d)
      BY <3>1 DEF Checked, StillJoined
    <3>2. CASE ~\E d \in Conn : Checked(d)
      <4>1. handled' = handled
        <5>1. ASSUME NEW d \in Conn, Connect(d) \/ SocketCloses(d) \/ Limited(d) \/ Authenticated(d)
                                     \/ Refused(d) \/ Granted(d) \/ FrameArrives(d)
              PROVE  handled' = handled
          BY <5>1 DEF Connect, SocketCloses, Limited, Authenticated, Refused, Granted, FrameArrives, frameVars
        <5>2. ASSUME \/ \E r \in Room : \/ CreateRoom(r) \/ DestroyRoom(r) \/ Broadcast(r)
                                        \/ TeardownEmpty(r)
                     \/ \E r \in Room, a \in ActorId : KickActor(r, a)
                     \/ \E k \in awaiting : Settle(k)
                     \/ Shutdown \/ UNCHANGED vars
              PROVE  handled' = handled
          BY <5>2 DEF CreateRoom, DestroyRoom, Broadcast, TeardownEmpty, KickActor, Settle, Shutdown,
                      vars, frameVars
        <5> QED
          BY <3>2, <5>1, <5>2 DEF Next, RunJob
      <4> QED
        BY <4>1
    <3> QED
      BY <3>1, <3>2
  <2>2. d = c
    BY <2>1 DEF IdInv, LifeInv, TypeOK
  <2> QED
    BY <2>1, <2>2
<1>2. Head(jobs) \in Queued /\ Head(jobs)[1] = "checked" /\ Head(jobs)[2] = c
  BY <1>1, ElemsOfTail DEF Checked, Running, Quiet, Queued, IdInv, LifeInv, TypeOK
<1>3. phase[c] = "attached" /\ c \notin unheard /\ StableId = {}
  BY <1>2 DEF IdInv, FramesAttached, Awaited, NoReuse
<1>4. aid[c] = c /\ c \in ActorId
  BY <1>3 DEF IdInv, OwnIds, ActorId
<1>5. Trace(c)
  BY <1>1, <1>4 DEF InRoom, Trace, IdInv, LifeInv, TypeOK
<1>6. PICK d \in Conn : aid[d] = c /\ Keeps(d)
  BY <1>4, <1>5, LeaksAreTraces, KeepersKeep DEF IdInv, LifeInv
<1>7. d = c
  BY <1>3, <1>6 DEF IdInv, OwnIds
<1> QED
  BY <1>3, <1>6, <1>7 DEF Keeps

\* A frame that waited for the rate limiter reaches a room only while its client is
\* connected (TLayer.handleMessage looks the membership up again after the await), as
\* long as ids are not used again.
THEOREM HeardNoMore == Spec /\ NoReuse => NoFrameAfterClose
<1>1. IdInv /\ [Next]_vars => [\A c \in Conn : handled'[c] # handled[c] => sock[c] # "closed"]_vars
  BY HeardOpen
<1> QED
  BY <1>1, IdInit, IdStep, PTL DEF Spec, NoFrameAfterClose

-----------------------------------------------------------------------------
(* TransportLayer implements Membership.                                   *)

Early(c) == phase[c] \in {"idle", "limiting", "authenticating"}

\* The seat of a connection that is early or not, keeps its id or not, and whose id is in
\* the rooms of R.
SeatAt(early, keeps, R) ==
    IF early THEN Outside ELSE IF keeps /\ R # {} THEN CHOOSE r \in R : TRUE ELSE Left

LEMMA SeatsAre ==
    ASSUME NEW c \in Conn
    PROVE  /\ seatOf[c] = SeatAt(Early(c), Keeps(c), RoomsOf(c))
           /\ seatOf'[c] = SeatAt(Early(c)', Keeps(c)', RoomsOf(c)')
<1>1. c \in Keepers(aid[c]) <=> Keeps(c)
  BY DEF Keepers, Keeps
<1>2. (c \in Keepers(aid[c]))' <=> Keeps(c)'
  BY DEF Keepers, Keeps
<1>3. seatOf[c] = SeatAt(Early(c), Keeps(c), RoomsOf(c))
  BY <1>1 DEF seatOf, SeatAt, Early
<1>4. seatOf'[c] = SeatAt(Early(c)', Keeps(c)', RoomsOf(c)')
  BY <1>2 DEF seatOf, SeatAt, Early
<1> QED
  BY <1>3, <1>4

\* Where c sits, in rooms that agree with the registrations.
LEMMA SeatedAre ==
    ASSUME TypeOK, MembershipAgrees, NEW c \in Conn
    PROVE  /\ Early(c) <=> seatOf[c] = Outside
           /\ ~Early(c) /\ ~Keeps(c) => seatOf[c] = Left
           /\ \A r \in Room : seatOf[c] = r <=> ~Early(c) /\ Keeps(c) /\ aid[c] \in actors[r]
           /\ seatOf[c] \in exists \cup {Outside, Left}
<1>1. /\ \A r \in RoomsOf(c) : r \in exists /\ RoomsOf(c) = {r}
      /\ \A r \in Room : r \in RoomsOf(c) <=> aid[c] \in actors[r]
      /\ exists \subseteq Room
  BY DEF RoomsOf, MembershipAgrees, TypeOK
<1>2. RoomsOf(c) # {} => (CHOOSE r \in RoomsOf(c) : TRUE) \in RoomsOf(c)
  OBVIOUS
<1>3. /\ Early(c) => seatOf[c] = Outside
      /\ ~Early(c) /\ (~Keeps(c) \/ RoomsOf(c) = {}) => seatOf[c] = Left
      /\ ~Early(c) /\ Keeps(c) /\ RoomsOf(c) # {} => seatOf[c] = CHOOSE r \in RoomsOf(c) : TRUE
  BY SeatsAre DEF SeatAt
<1> HIDE DEF Early, Keeps, RoomsOf
<1>4. CASE ~Early(c) /\ Keeps(c) /\ RoomsOf(c) # {}
  <2>1. PICK r \in RoomsOf(c) : seatOf[c] = r
    BY <1>2, <1>3, <1>4
  <2>2. r \in exists /\ r \in Room /\ RoomsOf(c) = {r}
    BY <1>1, <2>1
  <2> QED
    BY <1>1, <1>4, <2>1, <2>2, SeatAssumption
<1>5. CASE Early(c) \/ ~Keeps(c) \/ RoomsOf(c) = {}
  <2>1. seatOf[c] \in {Outside, Left}
    BY <1>3, <1>5
  <2>2. \A r \in Room : seatOf[c] # r
    BY <2>1, SeatAssumption
  <2> QED
    BY <1>1, <1>3, <1>5, <2>1, <2>2, SeatAssumption
<1> QED
  BY <1>4, <1>5

LEMMA SeatStays ==
    ASSUME NEW c \in Conn, Early(c)' <=> Early(c),
           \/ Early(c)
           \/ ~Keeps(c) /\ ~Keeps(c)'
           \/ Keeps(c) /\ Keeps(c)' /\ RoomsOf(c)' = RoomsOf(c)
    PROVE  seatOf'[c] = seatOf[c]
  BY SeatsAre DEF SeatAt

\* A connection that is past the handshake and keeps no id has left.
LEMMA SeatLeft ==
    ASSUME NEW c \in Conn, ~Early(c)', \/ ~Keeps(c)'
                                       \/ RoomsOf(c)' = {}
    PROVE  seatOf'[c] = Left
  BY SeatsAre DEF SeatAt

LEMMA SeatsTable ==
    /\ seatOf = [c \in Conn |-> seatOf[c]]
    /\ seatOf' = [c \in Conn |-> seatOf'[c]]
  BY DEF seatOf

Down == {c \in Conn : sock[c] = "closed"}

LEMMA DimsDown == ASSUME Dims PROVE Down' = Down
  BY DEF Dims, Down

\* What the abstract step is about, in the words of this module.
LEMMA SeatVars == Seats!seatVars = <<exists, seatOf, Down>>
  BY DEF Seats!seatVars, Down

\* A step that moves no connection moves it neither into the handshake nor out of it.
LEMMA NobodyMoves ==
    ASSUME TypeOK, Dims, UNCHANGED <<phase, closeVars, aid>>, NEW c \in Conn
    PROVE  (Early(c)' <=> Early(c)) /\ (Keeps(c)' <=> Keeps(c))
  BY DEF Dims, Early, Keeps, TypeOK, closeVars

LEMMA SeatsKept ==
    ASSUME TypeOK, Dims, UNCHANGED <<phase, closeVars, aid, exists, actors>>
    PROVE  UNCHANGED <<exists, seatOf, Down>>
<1>1. ASSUME NEW c \in Conn PROVE seatOf'[c] = seatOf[c]
  <2>1. RoomsOf(c)' = RoomsOf(c)
    BY DEF RoomsOf
  <2> QED
    BY <2>1, NobodyMoves, SeatStays
<1> QED
  BY <1>1, SeatsTable, DimsDown

LEMMA RoomsClose ==
    ASSUME TypeOK, MembershipAgrees, Dims, UNCHANGED <<phase, closeVars, aid>>,
           NEW R \in SUBSET exists, exists' = exists \ R, actors' = Cleared(R)
    PROVE  Seats!CloseRooms(R)
<1>1. ASSUME NEW c \in Conn
      PROVE  seatOf'[c] = IF seatOf[c] \in R THEN Left ELSE seatOf[c]
  <2>1. (Early(c)' <=> Early(c)) /\ (Keeps(c)' <=> Keeps(c))
    BY NobodyMoves
  <2>2. RoomsOf(c)' = RoomsOf(c) \ R
    BY DEF RoomsOf, Cleared, TypeOK
  <2>3. R \subseteq Room /\ \A r \in RoomsOf(c) : r \in Room /\ aid[c] \in actors[r]
    BY DEF TypeOK, RoomsOf
  <2>4. CASE seatOf[c] \in R
    <3>1. ~Early(c) /\ RoomsOf(c) = {seatOf[c]}
      BY <2>3, <2>4, SeatedAre DEF RoomsOf, MembershipAgrees
    <3> QED
      BY <2>1, <2>2, <2>4, <3>1, SeatLeft
  <2>5. CASE seatOf[c] \notin R
    <3>1. ~Early(c) /\ Keeps(c) => RoomsOf(c) \ R = RoomsOf(c)
      BY <2>3, <2>5, SeatedAre
    <3> QED
      BY <2>1, <2>2, <2>5, <3>1, SeatStays
  <2> QED
    BY <2>4, <2>5
<1> QED
  BY <1>1, SeatsTable, DimsDown DEF Seats!CloseRooms, Down

LEMMA RoomOpens ==
    ASSUME TypeOK, NEW r \in Room, CreateRoom(r)
    PROVE  Seats!OpenRoom(r)
<1>1. ASSUME NEW c \in Conn PROVE seatOf'[c] = seatOf[c]
  <2>1. Dims /\ UNCHANGED <<phase, closeVars, aid, actors>>
    BY SameDims DEF CreateRoom, connVars, closeVars
  <2>2. RoomsOf(c)' = RoomsOf(c)
    BY <2>1 DEF RoomsOf
  <2> QED
    BY <2>1, <2>2, NobodyMoves, SeatStays
<1>2. r \notin exists /\ exists' = exists \cup {r} /\ sock' = sock
  BY DEF CreateRoom, connVars
<1> QED
  BY <1>1, <1>2, SeatsTable DEF Seats!OpenRoom

\* A connection goes on without joining: it is turned away once it is through.
LEMMA ComesToNothing ==
    ASSUME TypeOK, ClosesNoticed, NEW c \in Conn, Connects(c) \/ GoesOn(c),
           UNCHANGED <<exists, actors>>
    PROVE  Seats!TurnAway(c) \/ UNCHANGED <<exists, seatOf, Down>>
<1>1. Down' = Down /\ aid' = aid
  BY DEF Connects, GoesOn, Goes, Dims, Down, TypeOK, ClosesNoticed
<1>2. ASSUME NEW d \in Conn \ {c} PROVE seatOf'[d] = seatOf[d]
  <2>1. (Early(d)' <=> Early(d)) /\ (Keeps(d)' <=> Keeps(d))
    BY DEF Connects, GoesOn, Goes, Dims, Early, Keeps, TypeOK, closeVars
  <2>2. RoomsOf(d)' = RoomsOf(d)
    BY <1>1 DEF RoomsOf
  <2> QED
    BY <2>1, <2>2, SeatStays
<1>3. ~Keeps(c) /\ ~Keeps(c)'
  BY DEF Connects, GoesOn, Goes, Keeps, TypeOK
<1>4. CASE Early(c)' <=> Early(c)
  BY <1>1, <1>2, <1>3, <1>4, SeatStays, SeatsTable
<1>5. CASE Early(c) /\ ~Early(c)'
  <2>1. seatOf[c] = Outside /\ seatOf'[c] = Left
    BY <1>3, <1>5, SeatLeft, SeatsAre DEF SeatAt
  <2> QED
    BY <1>1, <1>2, <2>1, SeatsTable DEF Seats!TurnAway, Down
<1>6. Early(c)' => Early(c)
  BY DEF Connects, GoesOn, Goes, Early, TypeOK
<1> QED
  BY <1>4, <1>5, <1>6

LEMMA SameCount == \A S : Seats!Cardinality(S) = Cardinality(S)
  BY DEF Seats!Cardinality, Cardinality

\* The connections that sit in a room are no more than the room's actors.
LEMMA SeatsAreMembers ==
    ASSUME TypeOK, MembershipAgrees, Alone, NEW r \in Room, IsFiniteSet(actors[r])
    PROVE  IsFiniteSet(Seats!Seated(r)) /\ Cardinality(Seats!Seated(r)) <= Cardinality(actors[r])
<1> DEFINE S == Seats!Seated(r)
<1> DEFINE f == [c \in S |-> aid[c]]
<1>1. \A c \in S : c \in Conn /\ Keeps(c) /\ aid[c] \in actors[r] /\ aid[c] \in ActorId
  BY SeatedAre DEF Seats!Seated, TypeOK
<1>2. \A c, d \in S : aid[c] = aid[d] => c = d
  BY <1>1, KeepersKeep DEF Alone
<1> HIDE DEF S
<1>3. f \in Injection(S, actors[r])
  BY <1>1, <1>2 DEF Injection, IsInjective
<1>4. IsFiniteSet(S) /\ Cardinality(S) <= Cardinality(actors[r])
  BY <1>3, FS_Injection
<1> QED
  BY <1>4 DEF S

LEMMA JoinSeats ==
    ASSUME IdInv, CapacityInv, NEW c \in Conn, NEW r \in Room, NEW a \in Allocatable(c),
           NEW greet \in BOOLEAN, NEW kick \in BOOLEAN, Join(c, r, a, greet, kick), Joins(c, a)
    PROVE  Seats!TakeSeat(c, r)
<1> USE DEF IdInv, LifeInv
<1>1. /\ r \in exists /\ Cardinality(actors[r]) < MaxActors /\ exists' = exists
      /\ actors' = [actors EXCEPT ![r] = actors[r] \cup {a}]
  BY JoinMembership
<1>2. /\ aid' = [aid EXCEPT ![c] = a] /\ phase[c] = "authenticating" /\ ~Keeps(c)
      /\ phase' = [phase EXCEPT ![c] = "joined"]
      /\ Early(c) /\ ~Early(c)' /\ Keeps(c)' /\ Down' = Down
  BY DimsDown DEF Joins, Goes, Keeps, Early, TypeOK
<1>3. Keepers(a) = {} /\ a \in ActorId /\ roomIds[a] = NoRoom
  BY <1>2, FreeIds, AllocatableType
<1>4. ASSUME NEW d \in Conn \ {c} PROVE seatOf'[d] = seatOf[d]
  <2>1. (Early(d)' <=> Early(d)) /\ (Keeps(d)' <=> Keeps(d)) /\ aid'[d] = aid[d]
    BY <1>2 DEF Joins, Goes, Dims, Early, Keeps, TypeOK, closeVars
  <2>2. Keeps(d) => aid[d] # a
    BY <1>3, KeepersKeep
  <2>3. aid[d] # a => RoomsOf(d)' = RoomsOf(d)
    BY <1>1, <2>1 DEF RoomsOf, TypeOK
  <2> QED
    BY <2>1, <2>2, <2>3, SeatStays
<1>5. seatOf[c] = Outside /\ seatOf'[c] = r
  <2>1. \A s \in Room : a \notin actors[s]
    BY <1>3, IdsAssumption DEF MembershipAgrees
  <2>2. RoomsOf(c)' = {r}
    BY <1>1, <1>2, <2>1 DEF RoomsOf, TypeOK
  <2> QED
    BY <1>2, <2>2, SeatsAre DEF SeatAt
<1>6. Cardinality(Seats!Seated(r)) < MaxActors
  <2>1. IsFiniteSet(actors[r])
    BY DEF CapacityInv
  <2>2. IsFiniteSet(Seats!Seated(r)) /\ Cardinality(Seats!Seated(r)) <= Cardinality(actors[r])
    BY <2>1, SeatsAreMembers
  <2>3. Cardinality(Seats!Seated(r)) \in Nat /\ Cardinality(actors[r]) \in Nat
    BY <2>1, <2>2, FS_CardinalityType
  <2> QED
    BY <1>1, <2>2, <2>3, BoundsAssumption
<1> QED
  BY <1>1, <1>2, <1>4, <1>5, <1>6, SeatsTable, SameCount DEF Seats!TakeSeat, Down

\* handleClose takes the seat of its connection, and of no other.
LEMMA CloseSeats ==
    ASSUME IdInv, NEW c \in Conn, NEW q, HandleClose(aid[c], q),
           Drains(c) \/ (Closes(c) /\ phase[c] = "attached")
    PROVE  /\ exists' = exists
           /\ seatOf[c] \in Room \cup {Left}
           /\ seatOf' = [seatOf EXCEPT ![c] = Left]
<1> USE DEF IdInv, LifeInv
<1>1. aid' = aid /\ Keeps(c) /\ ~Keeps(c)' /\ ~Early(c) /\ ~Early(c)'
  BY DEF Drains, Closes, Goes, Keeps, Early, TypeOK, ClosesNoticed, FlagsEarlyClose, closeVars
<1>2. exists' = exists
  BY DEF HandleClose
<1>3. ASSUME NEW d \in Conn \ {c} PROVE seatOf'[d] = seatOf[d]
  <2>1. (Early(d)' <=> Early(d)) /\ (Keeps(d)' <=> Keeps(d))
    BY DEF Drains, Closes, Goes, Keeps, Early, TypeOK, closeVars
  <2>2. Keeps(d) => aid[d] # aid[c]
    BY <1>1, KeepersKeep DEF Alone, TypeOK
  <2>3. aid[c] \in ActorId
    BY DEF TypeOK
  <2>4. \A a \in ActorId : a = aid[c] => \A r \in Room : actors'[r] = actors[r] \ {a}
    BY CloseLeaves
  <2>5. Keeps(d) => RoomsOf(d)' = RoomsOf(d)
    BY <1>1, <2>2, <2>3, <2>4 DEF RoomsOf
  <2> QED
    BY <2>1, <2>5, SeatStays
<1>4. seatOf'[c] = Left
  BY <1>1, SeatLeft
<1>5. seatOf[c] \in Room \cup {Left}
  BY <1>1, SeatedAre DEF TypeOK
<1> QED
  BY <1>2, <1>3, <1>4, <1>5, SeatsTable

LEMMA GrantedSeats ==
    ASSUME IdInv, NEW c \in Conn, Granted(c)
    PROVE  Seats!LeaveSeat(c) \/ UNCHANGED <<exists, seatOf, Down>>
<1> USE DEF IdInv, LifeInv
<1>1. CASE Drains(c) /\ HandleClose(aid[c], Tail(jobs))
  <2>1. c \in Down /\ sock' = sock /\ Down' = Down
    BY <1>1 DEF Drains, ClosesNoticed, Down
  <2>2. /\ exists' = exists
        /\ seatOf[c] \in Room \cup {Left}
        /\ seatOf' = [seatOf EXCEPT ![c] = Left]
    BY <1>1, CloseSeats
  <2>3. CASE seatOf[c] \in Room
    BY <2>1, <2>2, <2>3 DEF Seats!LeaveSeat, Down
  <2>4. CASE seatOf[c] = Left
    BY <2>1, <2>2, <2>4, SeatsTable
  <2> QED
    BY <2>2, <2>3, <2>4
<1>2. CASE Attaches(c)
  <2>1. UNCHANGED <<exists, actors>>
    BY <1>2 DEF Granted, Attaches, roomVars
  <2>2. Dims /\ aid' = aid
    BY <1>2 DEF Attaches
  <2>3. ASSUME NEW d \in Conn PROVE seatOf'[d] = seatOf[d]
    <3>1. (Early(d)' <=> Early(d)) /\ (Keeps(d)' <=> Keeps(d))
      BY <1>2 DEF Attaches, Goes, Dims, Early, Keeps, TypeOK, ClosesNoticed, closeVars
    <3>2. RoomsOf(d)' = RoomsOf(d)
      BY <2>1, <2>2 DEF RoomsOf
    <3> QED
      BY <3>1, <3>2, SeatStays
  <2> QED
    BY <2>1, <2>2, <2>3, SeatsTable, DimsDown
<1> QED
  BY <1>1, <1>2, GrantedLives

LEMMA SocketClosesSeats ==
    ASSUME IdInv, NEW c \in Conn, SocketCloses(c)
    PROVE  Seats!HangUp(c)
<1> USE DEF IdInv, LifeInv
<1>1. Closes(c) /\ c \notin Down /\ Down' = Down \cup {c}
  BY DEF SocketCloses, Closes, Down, TypeOK
<1>2. CASE phase[c] = "attached"
  <2>1. HandleClose(aid[c], jobs)
    BY <1>2 DEF SocketCloses
  <2>2. /\ exists' = exists
        /\ seatOf[c] \in Room \cup {Left}
        /\ seatOf' = [seatOf EXCEPT ![c] = Left]
    BY <1>1, <1>2, <2>1, CloseSeats
  <2>3. CASE seatOf[c] \in Room
    BY <1>1, <2>2, <2>3 DEF Seats!HangUp, Down
  <2>4. CASE seatOf[c] = Left
    BY <1>1, <2>2, <2>4, SeatsTable DEF Seats!HangUp, Down
  <2> QED
    BY <2>2, <2>3, <2>4
<1>3. CASE phase[c] # "attached"
  <2>1. UNCHANGED <<exists, actors, aid>>
    BY <1>3 DEF SocketCloses, roomVars
  <2>2. ASSUME NEW d \in Conn PROVE seatOf'[d] = seatOf[d]
    <3>1. (Early(d)' <=> Early(d)) /\ (Keeps(d)' <=> Keeps(d))
      BY <1>1, <1>3 DEF Closes, Early, Keeps, TypeOK
    <3>2. RoomsOf(d)' = RoomsOf(d)
      BY <2>1 DEF RoomsOf
    <3> QED
      BY <3>1, <3>2, SeatStays
  <2> QED
    BY <1>1, <2>1, <2>2, SeatsTable DEF Seats!HangUp, Down
<1> QED
  BY <1>2, <1>3

LEMMA AuthenticatedSeats ==
    ASSUME IdInv, CapacityInv, NEW c \in Conn, Authenticated(c)
    PROVE  \/ \E r \in Room : Seats!TakeSeat(c, r)
           \/ Seats!TurnAway(c)
           \/ UNCHANGED <<exists, seatOf, Down>>
<1> USE DEF IdInv, LifeInv
<1>1. CASE \E r \in Room, a \in Allocatable(c), greet, kick \in BOOLEAN :
              Join(c, r, a, greet, kick) /\ Joins(c, a)
  BY <1>1, JoinSeats
<1>2. ASSUME GoesOn(c), \/ \E r \in Room, a \in Allocatable(c), greet \in BOOLEAN :
                              JoinThrows(c, r, a, greet)
                        \/ JoinRefused(c)
      PROVE  Seats!TurnAway(c) \/ UNCHANGED <<exists, seatOf, Down>>
  <2>1. UNCHANGED <<exists, actors>>
    BY <1>2 DEF JoinThrows, JoinRefused, roomVars
  <2> QED
    BY <1>2, <2>1, ComesToNothing
<1> QED
  BY <1>1, <1>2, AuthenticatedLives

LEMMA SeatsInit == Init => Seats!SeatInit
<1> SUFFICES ASSUME Init PROVE Seats!SeatInit
  OBVIOUS
<1>1. \A c \in Conn : seatOf[c] = Outside
  BY DEF Init, seatOf
<1>2. exists = {} /\ Down = {}
  BY DEF Init, Down
<1> QED
  BY <1>1, <1>2, SeatsTable DEF Seats!SeatInit, Down

LEMMA SeatsStep ==
    ASSUME IdInv, CapacityInv, [Next]_vars
    PROVE  [Seats!SeatNext]_(Seats!seatVars)
<1> USE DEF IdInv, LifeInv
<1> SUFFICES Seats!SeatNext \/ UNCHANGED <<exists, seatOf, Down>>
  BY SeatVars DEF Seats!seatVars, Down
<1>1. ASSUME NEW r \in Room, CreateRoom(r)
      PROVE  Seats!SeatNext
  BY <1>1, RoomOpens DEF Seats!SeatNext
<1>2. ASSUME NEW R \in SUBSET exists, exists' = exists \ R, actors' = Cleared(R),
             Dims, UNCHANGED <<phase, closeVars, aid>>
      PROVE  Seats!SeatNext
  BY <1>2, RoomsClose DEF Seats!SeatNext
<1>3. ASSUME NEW r \in Room, DestroyRoom(r) \/ TeardownEmpty(r)
      PROVE  Seats!SeatNext \/ UNCHANGED <<exists, seatOf, Down>>
  <2>1. Dims /\ UNCHANGED <<phase, closeVars, aid>>
    BY <1>3, Bystanders
  <2>2. \/ r \in exists /\ exists' = exists \ {r} /\ actors' = Cleared({r})
        \/ UNCHANGED <<exists, actors>>
    BY <1>3 DEF DestroyRoom, TeardownEmpty, StillEmpty, Destroy, roomVars
  <2> QED
    BY <1>2, <2>1, <2>2, SeatsKept
<1>4. CASE Shutdown
  <2>1. Dims /\ UNCHANGED <<phase, closeVars, aid>>
    BY <1>4, Bystanders
  <2>2. exists' = exists \ exists /\ actors' = Cleared(exists)
    BY <1>4 DEF Shutdown
  <2> QED
    BY <1>2, <2>1, <2>2
<1>5. ASSUME NEW c \in Conn, Connect(c) \/ Limited(c) \/ Refused(c)
      PROVE  Seats!SeatNext \/ UNCHANGED <<exists, seatOf, Down>>
  <2>1. UNCHANGED <<exists, actors>>
    BY <1>5 DEF Connect, Limited, Refused, roomVars
  <2>2. Connects(c) \/ GoesOn(c)
    BY <1>5, ResumedLives DEF Connect, BeginAuth, Connects, Goes
  <2> QED
    BY <2>1, <2>2, ComesToNothing DEF Seats!SeatNext
<1>6. ASSUME NEW c \in Conn, Authenticated(c) \/ Granted(c) \/ SocketCloses(c)
      PROVE  Seats!SeatNext \/ UNCHANGED <<exists, seatOf, Down>>
  BY <1>6, AuthenticatedSeats, GrantedSeats, SocketClosesSeats DEF Seats!SeatNext
<1>7. ASSUME \/ \E r \in Room : Broadcast(r)
             \/ \E r \in Room, a \in ActorId : KickActor(r, a)
             \/ \E c \in Conn : FrameArrives(c) \/ Checked(c)
             \/ \E k \in awaiting : Settle(k)
             \/ UNCHANGED vars
      PROVE  UNCHANGED <<exists, seatOf, Down>>
  <2>1. Dims /\ UNCHANGED <<phase, closeVars, aid>>
    BY <1>7, Bystanders
  <2>2. UNCHANGED <<exists, actors>>
    BY <1>7 DEF Broadcast, KickActor, FrameArrives, Checked, Settle, vars, roomVars
  <2> QED
    BY <2>1, <2>2, SeatsKept
<1> QED
  BY <1>1, <1>3, <1>4, <1>5, <1>6, <1>7 DEF Next, RunJob

\* For any number of connections, rooms and members: a connection takes one seat at most,
\* in a room that exists and has a free one, and loses it only to its own close or to the
\* end of the room.  Ids that are not used again are needed: the seat is the id's.
THEOREM Refinement == Spec /\ NoReuse => ImplementsMembership
<1>1. CapacityInv /\ IdInv /\ [Next]_vars => CapacityInv'
  BY CapacityStep DEF IdInv, LifeInv
<1>2. Init => CapacityInv
  BY FS_EmptySet, BoundsAssumption DEF Init, CapacityInv
<1>3. CapacityInv /\ IdInv /\ [Next]_vars => [Seats!SeatNext]_(Seats!seatVars)
  BY SeatsStep
<1> QED
  BY <1>1, <1>2, <1>3, IdInit, IdStep, SeatsInit, PTL
     DEF Spec, ImplementsMembership, Seats!SeatSpec

-----------------------------------------------------------------------------
(* Messages.                                                               *)

\* Who listens for an id is attached with it; and who is attached with an open socket
\* listens.
Ears ==
    /\ \A a \in ActorId : \A c \in listeners[a] : aid[c] = a /\ phase[c] = "attached" /\ Keeps(c)
    /\ \A c \in Conn : phase[c] = "attached" /\ sock[c] = "open" => c \in listeners[aid[c]]

LEMMA EarsStay ==
    ASSUME TypeOK, ClosesNoticed, Ears, listeners' = listeners,
           \/ Dims /\ UNCHANGED <<phase, closeVars, aid>>
           \/ \E c \in Conn : \/ Connects(c)
                              \/ GoesOn(c)
                              \/ Closes(c) /\ phase[c] # "attached"
                              \/ \E a : Joins(c, a)
    PROVE  Ears'
<1>1. CASE Dims /\ UNCHANGED <<phase, closeVars, aid>>
  BY <1>1 DEF Ears, Dims, Keeps, TypeOK, closeVars
<1>2. ASSUME NEW c \in Conn, Connects(c) \/ GoesOn(c)
      PROVE  Ears'
  <2>1. /\ aid' = aid /\ phase[c] # "attached" /\ phase'[c] # "attached"
        /\ \A d \in Conn \ {c} : phase'[d] = phase[d] /\ (sock'[d] = "open" => sock[d] = "open")
        /\ \A d \in Conn \ {c} : Keeps(d) => Keeps(d)'
    BY <1>2 DEF Connects, GoesOn, Goes, Dims, Keeps, TypeOK, closeVars
  <2>2. \A a \in ActorId : c \notin listeners[a]
    BY <2>1 DEF Ears
  <2>3. \A a \in ActorId : listeners[a] \subseteq Conn
    BY DEF TypeOK
  <2> QED
    BY <2>1, <2>2, <2>3 DEF Ears
<1>3. ASSUME NEW c \in Conn, NEW a, Joins(c, a)
      PROVE  Ears'
  BY <1>3 DEF Ears, Joins, Goes, Dims, Keeps, TypeOK, closeVars
<1>4. ASSUME NEW c \in Conn, Closes(c), phase[c] # "attached"
      PROVE  Ears'
  BY <1>4 DEF Ears, Closes, Keeps, TypeOK
<1> QED
  BY <1>1, <1>2, <1>3, <1>4

LEMMA EarsClose ==
    ASSUME IdInv, Ears, NEW c \in Conn, NEW q, HandleClose(aid[c], q),
           Drains(c) \/ (Closes(c) /\ phase[c] = "attached")
    PROVE  Ears'
<1> USE DEF IdInv, LifeInv
<1>1. /\ aid' = aid /\ Keeps(c) /\ listeners' = [listeners EXCEPT ![aid[c]] = {}]
      /\ phase'[c] = "attached" => sock'[c] # "open"
      /\ \A d \in Conn \ {c} : phase'[d] = phase[d] /\ sock'[d] = sock[d] /\ (Keeps(d)' <=> Keeps(d))
  BY DEF HandleClose, Drains, Closes, Goes, Keeps, TypeOK, ClosesNoticed, FlagsEarlyClose, closeVars
<1>2. \A d \in Conn \ {c} : Keeps(d) => aid[d] # aid[c]
  BY <1>1, KeepersKeep DEF Alone, TypeOK
<1>3. ASSUME NEW a \in ActorId, NEW d \in listeners'[a]
      PROVE  aid'[d] = a /\ phase'[d] = "attached" /\ Keeps(d)'
  <2>1. a # aid[c] /\ d \in listeners[a]
    BY <1>1, <1>3 DEF TypeOK
  <2> QED
    BY <1>1, <2>1 DEF Ears, TypeOK
<1>4. ASSUME NEW d \in Conn, phase'[d] = "attached", sock'[d] = "open"
      PROVE  d \in listeners'[aid'[d]]
  <2>1. d # c /\ Keeps(d) /\ d \in listeners[aid[d]]
    BY <1>1, <1>4 DEF Ears, Keeps
  <2> QED
    BY <1>1, <1>2, <2>1 DEF TypeOK
<1> QED
  BY <1>3, <1>4 DEF Ears

\* Nobody listens for an id that is free, and nothing is held for it.
LEMMA FreeMeansQuiet ==
    ASSUME IdInv, Ears, NEW c \in Conn, NEW a \in Allocatable(c), ~Keeps(c)
    PROVE  /\ a \in ActorId /\ roomIds[a] = NoRoom
           /\ listeners[a] = {} /\ heldMsgs[a] = <<>>
           /\ \A d \in Conn : aid[d] = a => ~Keeps(d)
<1>1. a \in ActorId /\ roomIds[a] = NoRoom /\ Keepers(a) = {}
  BY FreeIds, AllocatableType DEF IdInv
<1> QED
  BY <1>1, KeepersKeep DEF IdInv, LifeInv, NothingLeaks

LEMMA EarsStep ==
    ASSUME IdInv, Ears, [Next]_vars
    PROVE  Ears'
<1> USE DEF IdInv, LifeInv
<1>1. ASSUME NEW c \in Conn, Authenticated(c)
      PROVE  Ears'
  <2>1. ASSUME NEW r \in Room, NEW a \in Allocatable(c), NEW greet \in BOOLEAN, NEW kick \in BOOLEAN,
               Join(c, r, a, greet, kick), Joins(c, a)
        PROVE  Ears'
    <3>1. listeners' = listeners
      BY <2>1 DEF Join
    <3> QED
      BY <2>1, <3>1, EarsStay
  <2>2. ASSUME GoesOn(c), NEW r \in Room, NEW a \in Allocatable(c), NEW greet \in BOOLEAN,
               JoinThrows(c, r, a, greet)
        PROVE  Ears'
    <3>1. ~Keeps(c)
      BY <2>2 DEF GoesOn, Goes, Keeps
    <3>2. listeners' = listeners
      BY <2>2, <3>1, FreeMeansQuiet DEF JoinThrows, TypeOK
    <3> QED
      BY <2>2, <3>2, EarsStay
  <2>3. ASSUME GoesOn(c), JoinRefused(c)
        PROVE  Ears'
    BY <2>3, EarsStay DEF JoinRefused, layerVars
  <2> QED
    BY <1>1, <2>1, <2>2, <2>3, AuthenticatedLives
<1>2. ASSUME NEW c \in Conn, Granted(c)
      PROVE  Ears'
  <2>1. CASE Attaches(c)
    <3>1. listeners' = [listeners EXCEPT ![aid[c]] = @ \cup {c}]
      BY <1>2, <2>1 DEF Granted, Attaches
    <3>2. Keeps(c)'
      BY <2>1 DEF Attaches, Goes, Dims, Keeps, TypeOK, ClosesNoticed, closeVars
    <3> QED
      BY <2>1, <3>1, <3>2 DEF Ears, Attaches, Goes, Dims, Keeps, TypeOK, closeVars
  <2> QED
    BY <1>2, <2>1, GrantedLives, EarsClose
<1>3. ASSUME NEW c \in Conn, SocketCloses(c)
      PROVE  Ears'
  <2>1. Closes(c)
    BY <1>3 DEF SocketCloses, Closes
  <2>2. CASE phase[c] = "attached"
    BY <1>3, <2>1, <2>2, EarsClose DEF SocketCloses
  <2>3. CASE phase[c] # "attached"
    BY <1>3, <2>1, <2>3, EarsStay DEF SocketCloses, layerVars
  <2> QED
    BY <2>2, <2>3
<1>4. ASSUME NEW c \in Conn, Connect(c) \/ Limited(c) \/ Refused(c)
      PROVE  Ears'
  <2>1. Connects(c) \/ GoesOn(c)
    BY <1>4, ResumedLives DEF Connect, BeginAuth, Connects, Goes
  <2> QED
    BY <1>4, <2>1, EarsStay DEF Connect, Limited, Refused, layerVars
<1>5. ASSUME \/ \E r \in Room : CreateRoom(r) \/ DestroyRoom(r) \/ Broadcast(r) \/ TeardownEmpty(r)
             \/ \E r \in Room, a \in ActorId : KickActor(r, a)
             \/ \E c \in Conn : FrameArrives(c) \/ Checked(c)
             \/ \E k \in awaiting : Settle(k)
             \/ Shutdown
             \/ UNCHANGED vars
      PROVE  Ears'
  <2>1. listeners' = listeners
    BY <1>5 DEF CreateRoom, DestroyRoom, Broadcast, TeardownEmpty, Destroy, KickActor,
                FrameArrives, Checked, Settle, Shutdown, vars, layerVars
  <2> QED
    BY <1>5, <2>1, EarsStay, Bystanders
<1> QED
  BY <1>1, <1>2, <1>3, <1>4, <1>5 DEF Next, RunJob

Begins(s, t) == Len(s) <= Len(t) /\ s = SubSeq(t, 1, Len(s))

\* What the client of a connection in phase p with a socket in state s has been sent (o),
\* of what its actor was to get (l), when h is held for the actor.
ServedAt(p, s, h, o, l) ==
    /\ p \in {"idle", "limiting", "authenticating"} => o = <<>> /\ l = <<>>
    /\ p = "joined" => o = <<>> /\ l = h
    /\ p = "attached" => Begins(o, l) /\ (s = "open" => o = l)

Served == \A c \in Conn : ServedAt(phase[c], sock[c], heldMsgs[aid[c]], delivered[c], expected[c])

LEMMA BeginsSelf == ASSUME NEW s \in Seq(Nat) PROVE Begins(s, s) /\ Begins(<<>>, s)
  BY DEF Begins

\* TLayer drops no frame.
NeverFull == \A a \in ActorId : Len(heldMsgs[a]) < MaxPending

\* Sets of ids, and that all ids of one are registered: kept folded in the leaves,
\* where the provers do not guess which set a lemma is about.
IdSets == SUBSET ActorId
Known(S, ids) == \A a \in S : ids[a] # NoRoom

\* The three parts of an emission, as one connection sees them.
LEMMA WritesTo ==
    ASSUME TypeOK, Ears, NEW c \in Conn, NEW S \in IdSets, NEW out, NEW n
    PROVE  Write(out, S, n)[c] = IF phase[c] = "attached" /\ sock[c] = "open" /\ aid[c] \in S
                                 THEN Append(out[c], n) ELSE out[c]
<1>1. c \in Listening(S) /\ sock[c] = "open" <=>
         phase[c] = "attached" /\ sock[c] = "open" /\ aid[c] \in S
  BY DEF Listening, Ears, TypeOK, IdSets
<1> QED
  BY <1>1 DEF Write

LEMMA ExpectsOf ==
    ASSUME NEW c \in Conn, NEW S, NEW log, NEW n
    PROVE  Expect(log, Owners(S), n)[c] =
             IF /\ aid[c] \in S
                /\ phase[c] = "joined" \/ (phase[c] = "attached" /\ sock[c] = "open")
             THEN Append(log[c], n) ELSE log[c]
  BY DEF Expect, Owners

LEMMA HoldsFor ==
    ASSUME TypeOK, Ears, Alone, NEW c \in Conn, phase[c] = "joined",
           NEW S \in IdSets, NEW ids, Known(S, ids),
           NEW held, Len(held[aid[c]]) < MaxPending, NEW n
    PROVE  Hold(held, ids, S, n)[aid[c]] = IF aid[c] \in S THEN Append(held[aid[c]], n)
                                           ELSE held[aid[c]]
<1>1. aid[c] \in ActorId /\ Keeps(c)
  BY DEF TypeOK, Keeps
<1>2. \A d \in listeners[aid[c]] : d \in Conn /\ d # c /\ aid[d] = aid[c] /\ Keeps(d)
  BY <1>1 DEF Ears, TypeOK
<1>3. listeners[aid[c]] = {}
  BY <1>1, <1>2, SameKeeper
<1> QED
  BY <1>1, <1>3 DEF Hold, Known

LEMMA EmissionServes ==
    ASSUME TypeOK, Ears, Alone, NEW c \in Conn, NEW S \in IdSets,
           NEW ids, Known(S, ids), NEW n \in Nat,
           NEW held \in [ActorId -> Seq(Nat)], NEW out \in [Conn -> Seq(Nat)],
           NEW log \in [Conn -> Seq(Nat)],
           phase[c] = "joined" => Len(held[aid[c]]) < MaxPending,
           ServedAt(phase[c], sock[c], held[aid[c]], out[c], log[c])
    PROVE  ServedAt(phase[c], sock[c], Hold(held, ids, S, n)[aid[c]],
                    Write(out, S, n)[c], Expect(log, Owners(S), n)[c])
<1> DEFINE o == Write(out, S, n)[c]
           l == Expect(log, Owners(S), n)[c]
           h == Hold(held, ids, S, n)[aid[c]]
<1> SUFFICES ServedAt(phase[c], sock[c], h, o, l)
  OBVIOUS
<1>1. o = IF phase[c] = "attached" /\ sock[c] = "open" /\ aid[c] \in S
          THEN Append(out[c], n) ELSE out[c]
  BY WritesTo
<1>2. l = IF /\ aid[c] \in S
             /\ phase[c] = "joined" \/ (phase[c] = "attached" /\ sock[c] = "open")
          THEN Append(log[c], n) ELSE log[c]
  BY ExpectsOf
<1>3. phase[c] = "joined" => h = IF aid[c] \in S THEN Append(held[aid[c]], n) ELSE held[aid[c]]
  BY HoldsFor
<1>4. l \in Seq(Nat)
  <2>1. log[c] \in Seq(Nat) /\ Append(log[c], n) \in Seq(Nat)
    OBVIOUS
  <2> QED
    BY <1>2, <2>1
<1> HIDE DEF o, l, h
<1>5. CASE phase[c] = "attached" /\ sock[c] = "open"
  <2>1. o = l
    BY <1>1, <1>2, <1>5 DEF ServedAt
  <2> QED
    BY <1>4, <1>5, <2>1, BeginsSelf DEF ServedAt
<1>6. CASE ~(phase[c] = "attached" /\ sock[c] = "open")
  BY <1>1, <1>2, <1>3, <1>6 DEF ServedAt
<1> QED
  BY <1>5, <1>6

LEMMA MembersKnown ==
    ASSUME TypeOK, MembershipAgrees, NEW r \in Room, NEW S \in SUBSET actors[r]
    PROVE  S \in IdSets /\ Known(S, roomIds)
  BY IdsAssumption DEF TypeOK, MembershipAgrees, IdSets, Known

\* Room.broadcast, and the presence broadcast of a leave.
LEMMA SendServes ==
    ASSUME TypeOK, Ears, Alone, Served, NeverFull, NEW S \in IdSets, Known(S, roomIds), Send(S),
           NEW c \in Conn
    PROVE  ServedAt(phase[c], sock[c], Hold(heldMsgs, roomIds, S, emits + 1)[aid[c]],
                    delivered'[c], expected'[c])
<1>1. /\ heldMsgs \in [ActorId -> Seq(Nat)] /\ emits + 1 \in Nat /\ aid[c] \in ActorId
      /\ delivered \in [Conn -> Seq(Nat)] /\ expected \in [Conn -> Seq(Nat)]
  BY DEF TypeOK
<1>2. Len(heldMsgs[aid[c]]) < MaxPending
  BY <1>1 DEF NeverFull
<1>3. ServedAt(phase[c], sock[c], heldMsgs[aid[c]], delivered[c], expected[c])
  BY DEF Served
<1>4. /\ delivered' = Write(delivered, S, emits + 1)
      /\ expected' = Expect(expected, Owners(S), emits + 1)
  BY DEF Send
<1> QED
  BY <1>1, <1>2, <1>3, <1>4, EmissionServes

\* handleClose serves everybody but the connection that joined and now leaves.
LEMMA CloseServes ==
    ASSUME TypeOK, MembershipAgrees, Ears, Alone, Served, NeverFull,
           NEW a \in ActorId, NEW q, HandleClose(a, q),
           NEW c \in Conn, phase[c] = "joined" => aid[c] # a
    PROVE  ServedAt(phase[c], sock[c], heldMsgs'[aid[c]], delivered'[c], expected'[c])
<1>1. ASSUME NEW h, DOMAIN h = ActorId, heldMsgs' = [h EXCEPT ![a] = <<>>],
             ServedAt(phase[c], sock[c], h[aid[c]], delivered'[c], expected'[c])
      PROVE  ServedAt(phase[c], sock[c], heldMsgs'[aid[c]], delivered'[c], expected'[c])
  <2>1. phase[c] = "joined" => heldMsgs'[aid[c]] = h[aid[c]]
    BY <1>1 DEF TypeOK
  <2> QED
    BY <1>1, <2>1 DEF ServedAt
<1>2. CASE InRoom(a) /\ Presence
  <2> DEFINE S == actors[roomIds[a]] \ {a}
             h == Hold(heldMsgs, roomIds, S, emits + 1)
  <2>1. Send(S) /\ heldMsgs' = [h EXCEPT ![a] = <<>>]
    BY <1>2 DEF HandleClose, HandleLeave
  <2>2. roomIds[a] \in Room
    BY <1>2 DEF InRoom, TypeOK
  <2>3. S \in IdSets /\ Known(S, roomIds)
    BY <2>2, MembersKnown
  <2>4. DOMAIN h = ActorId
    BY DEF Hold
  <2> HIDE DEF S
  <2>5. ServedAt(phase[c], sock[c], h[aid[c]], delivered'[c], expected'[c])
    BY <2>1, <2>3, SendServes
  <2> QED
    BY <1>1, <2>1, <2>4, <2>5
<1>3. CASE ~(InRoom(a) /\ Presence)
  <2>1. heldMsgs' = [heldMsgs EXCEPT ![a] = <<>>] /\ UNCHANGED emitVars
    BY <1>3 DEF HandleClose, HandleLeave
  <2>2. DOMAIN heldMsgs = ActorId
    BY DEF TypeOK
  <2>3. ServedAt(phase[c], sock[c], heldMsgs[aid[c]], delivered'[c], expected'[c])
    BY <2>1 DEF Served, emitVars
  <2> QED
    BY <1>1, <2>1, <2>2, <2>3
<1> QED
  BY <1>2, <1>3

\* A connection that does not join, attach or leave is served as before.
LEMMA ServedStays ==
    ASSUME NEW c \in Conn,
           ServedAt(phase[c], sock[c], heldMsgs'[aid[c]], delivered'[c], expected'[c]),
           aid'[c] = aid[c], sock'[c] = "open" => sock[c] = "open",
           \/ phase'[c] = phase[c]
           \/ phase[c] \in {"idle", "limiting", "authenticating"} /\ phase'[c] \in
                 {"idle", "limiting", "authenticating", "refused", "over"}
           \/ phase'[c] = "over"
    PROVE  ServedAt(phase[c], sock[c], heldMsgs[aid[c]], delivered[c], expected[c])'
  BY DEF ServedAt

\* Nor is any other, by a step that serves it where it is and lets nobody in or out.
LEMMA NobodyJoins ==
    ASSUME TypeOK, ClosesNoticed,
           \A c \in Conn : ServedAt(phase[c], sock[c], heldMsgs'[aid[c]], delivered'[c], expected'[c]),
           \/ Dims /\ UNCHANGED <<phase, closeVars, aid>>
           \/ \E c \in Conn : Connects(c) \/ GoesOn(c) \/ Closes(c)
    PROVE  Served'
<1>1. ASSUME NEW c \in Conn
      PROVE  ServedAt(phase[c], sock[c], heldMsgs'[aid[c]], delivered'[c], expected'[c])
  OBVIOUS
<1>2. CASE Dims /\ UNCHANGED <<phase, closeVars, aid>>
  BY <1>1, <1>2, ServedStays DEF Served, Dims
<1>3. ASSUME NEW c \in Conn, Connects(c)
      PROVE  Served'
  <2>1. /\ aid' = aid /\ phase[c] = "idle" /\ phase'[c] \in {"limiting", "authenticating", "over"}
        /\ \A d \in Conn \ {c} : phase'[d] = phase[d] /\ sock'[d] = sock[d]
    BY <1>3 DEF Connects, Goes, TypeOK
  <2>2. \A d \in Conn \ {c} : ServedAt(phase[d], sock[d], heldMsgs[aid[d]], delivered[d], expected[d])'
    BY <1>1, <2>1, ServedStays
  <2>3. ServedAt(phase[c], sock[c], heldMsgs[aid[c]], delivered[c], expected[c])'
    BY <1>1, <2>1 DEF ServedAt
  <2> QED
    BY <2>2, <2>3 DEF Served
<1>4. ASSUME NEW c \in Conn, GoesOn(c)
      PROVE  Served'
  <2>1. /\ aid' = aid
        /\ \/ phase[c] \in {"limiting", "authenticating"} /\
                 phase'[c] \in {"authenticating", "refused", "over"}
           \/ phase'[c] = "over"
        /\ \A d \in Conn \ {c} : phase'[d] = phase[d]
        /\ \A d \in Conn : sock'[d] = "open" => sock[d] = "open"
    BY <1>4 DEF GoesOn, Goes, Dims, TypeOK
  <2> QED
    BY <1>1, <2>1, ServedStays DEF Served
<1>5. ASSUME NEW c \in Conn, Closes(c)
      PROVE  Served'
  <2>1. UNCHANGED <<aid, phase>> /\ \A d \in Conn : sock'[d] = "open" => sock[d] = "open"
    BY <1>5 DEF Closes, TypeOK
  <2> QED
    BY <1>1, <2>1, ServedStays DEF Served
<1> QED
  BY <1>2, <1>3, <1>4, <1>5

\* grantAccess: the greeting and the presence message wait for the one that joins, and
\* everybody else in the room gets the presence message.
LEMMA JoinServes ==
    ASSUME IdInv, Ears, Served, NeverFull, NeverFull', NEW c \in Conn, NEW r \in Room,
           NEW a \in Allocatable(c), NEW greet \in BOOLEAN, NEW kick \in BOOLEAN,
           Join(c, r, a, greet, kick), Joins(c, a)
    PROVE  Served'
<1> USE DEF IdInv, LifeInv
<1> DEFINE ids     == [roomIds EXCEPT ![a] = r]
           members == actors[r] \cup {a}
           n       == emits + (IF greet THEN 1 ELSE 0)
           heldG   == IF greet THEN Hold(heldMsgs, ids, {a}, n) ELSE heldMsgs
           outG    == IF greet THEN Write(delivered, {a}, n) ELSE delivered
           expG    == IF greet THEN Expect(expected, {c}, n) ELSE expected
<1>1. /\ heldMsgs' = IF Presence THEN Hold(heldG, ids, members, n + 1) ELSE heldG
      /\ delivered' = IF Presence THEN Write(outG, members, n + 1) ELSE outG
      /\ expected' = IF Presence THEN Expect(expG, Owners(members) \cup {c}, n + 1) ELSE expG
  BY DEF Join
<1>2. /\ ~Keeps(c) /\ phase[c] = "authenticating" /\ phase' = [phase EXCEPT ![c] = "joined"]
      /\ aid' = [aid EXCEPT ![c] = a] /\ \A d \in Conn : sock'[d] = "open" => sock[d] = "open"
  BY DEF Joins, Goes, Dims, Keeps, TypeOK
<1>3. /\ a \in ActorId /\ roomIds[a] = NoRoom /\ listeners[a] = {} /\ heldMsgs[a] = <<>>
      /\ \A d \in Conn : aid[d] = a => ~Keeps(d)
  BY <1>2, FreeMeansQuiet
<1>4. n \in Nat /\ n + 1 \in Nat
  BY DEF TypeOK
<1>5. /\ members \in IdSets /\ Known(members, ids)
      /\ \A s \in Room : a \notin actors[s]
  BY <1>3, IdsAssumption DEF TypeOK, MembershipAgrees, IdSets, Known
<1>6. heldG \in [ActorId -> Seq(Nat)] /\ outG \in [Conn -> Seq(Nat)] /\ expG \in [Conn -> Seq(Nat)]
  <2>1. /\ heldMsgs \in [ActorId -> Seq(Nat)]
        /\ delivered \in [Conn -> Seq(Nat)] /\ expected \in [Conn -> Seq(Nat)]
    BY DEF TypeOK
  <2> HIDE DEF n, ids
  <2> QED
    BY ONLY <1>4, <2>1, HoldType, WriteType, ExpectType
<1>7. outG = delivered
  BY <1>3 DEF Write, Listening, TypeOK
<1>8. ASSUME NEW d \in Conn \ {c}
      PROVE  ServedAt(phase[d], sock[d], heldMsgs'[aid[d]], delivered'[d], expected'[d])
  <2>1. aid[d] \in ActorId /\ (phase[d] = "joined" => aid[d] # a)
    BY <1>3 DEF Keeps, TypeOK
  <2>2. phase[d] = "joined" => heldG[aid[d]] = heldMsgs[aid[d]]
    BY <2>1 DEF Hold
  <2>3. expG[d] = expected[d]
    BY DEF Expect
  <2>4. ServedAt(phase[d], sock[d], heldMsgs[aid[d]], delivered[d], expected[d])
    BY DEF Served
  <2> HIDE DEF heldG, outG, expG, members, ids, n
  <2>5. ServedAt(phase[d], sock[d], heldG[aid[d]], outG[d], expG[d])
    BY <1>7, <2>2, <2>3, <2>4 DEF ServedAt
  <2>6. phase[d] = "joined" => Len(heldG[aid[d]]) < MaxPending
    BY <2>1, <2>2 DEF NeverFull
  <2>7. Expect(expG, Owners(members) \cup {c}, n + 1)[d] = Expect(expG, Owners(members), n + 1)[d]
    BY DEF Expect
  <2>8. ServedAt(phase[d], sock[d], Hold(heldG, ids, members, n + 1)[aid[d]],
                 Write(outG, members, n + 1)[d], Expect(expG, Owners(members), n + 1)[d])
    BY <1>4, <1>5, <1>6, <2>5, <2>6, EmissionServes
  <2> QED
    BY <1>1, <2>5, <2>7, <2>8
<1>9. delivered'[c] = <<>>
  <2>1. delivered[c] = <<>>
    BY <1>2 DEF Served, ServedAt
  <2> HIDE DEF outG, members, n
  <2>2. Write(outG, members, n + 1)[c] = outG[c]
    BY <1>2, <1>5, WritesTo
  <2> QED
    BY <1>1, <1>7, <2>1, <2>2
<1>10. expected'[c] = heldMsgs'[a]
  <2>1. heldG[a] = IF greet THEN Append(<<>>, n) ELSE <<>>
    <3>1. ids[a] # NoRoom /\ Len(<<>>) < MaxPending
      BY <1>3, IdsAssumption, BoundsAssumption DEF TypeOK
    <3> HIDE DEF ids, n
    <3> QED
      BY <1>3, <3>1 DEF Hold
  <2>2. expG[c] = IF greet THEN Append(<<>>, n) ELSE <<>>
    <3>1. expected[c] = <<>>
      BY <1>2 DEF Served, ServedAt
    <3> HIDE DEF n
    <3> QED
      BY <3>1 DEF Expect
  <2>3. Len(heldMsgs'[a]) < MaxPending
    BY <1>3 DEF NeverFull
  <2>4. a \in members /\ ids[a] # NoRoom
    BY <1>3, IdsAssumption DEF TypeOK
  <2> HIDE DEF heldG, outG, expG, members, ids, n
  <2>5. Hold(heldG, ids, members, n + 1)[a] =
           IF Len(heldG[a]) < MaxPending THEN Append(heldG[a], n + 1) ELSE heldG[a]
    BY <1>3, <2>4 DEF Hold
  <2>6. Expect(expG, Owners(members) \cup {c}, n + 1)[c] = Append(expG[c], n + 1)
    BY DEF Expect
  <2> QED
    BY <1>1, <2>1, <2>2, <2>3, <2>5, <2>6
<1>11. ASSUME NEW d \in Conn \ {c}
       PROVE  ServedAt(phase[d], sock[d], heldMsgs[aid[d]], delivered[d], expected[d])'
  <2>1. aid'[d] = aid[d] /\ phase'[d] = phase[d]
    BY <1>2 DEF TypeOK
  <2> HIDE DEF heldG, outG, expG, members, ids, n
  <2> QED
    BY <1>2, <1>8, <2>1, ServedStays
<1>12. ServedAt(phase[c], sock[c], heldMsgs[aid[c]], delivered[c], expected[c])'
  BY <1>2, <1>9, <1>10 DEF ServedAt, TypeOK
<1> QED
  BY <1>11, <1>12 DEF Served

LEMMA JoinThrowsServes ==
    ASSUME IdInv, Ears, Served, NEW c \in Conn, NEW r \in Room, NEW a \in Allocatable(c),
           NEW greet \in BOOLEAN, JoinThrows(c, r, a, greet), GoesOn(c)
    PROVE  Served'
<1> USE DEF IdInv, LifeInv
<1> DEFINE ids  == [roomIds EXCEPT ![a] = r]
           sent == IF greet THEN Hold(heldMsgs, ids, {a}, emits + 1) ELSE heldMsgs
<1>1. /\ heldMsgs' = [sent EXCEPT ![a] = <<>>] /\ expected' = expected
      /\ delivered' = IF greet THEN Write(delivered, {a}, emits + 1) ELSE delivered
  BY DEF JoinThrows
<1>2. ~Keeps(c)
  BY DEF GoesOn, Goes, Keeps
<1>3. a \in ActorId /\ listeners[a] = {} /\ \A d \in Conn : aid[d] = a => ~Keeps(d)
  BY <1>2, FreeMeansQuiet
<1>4. delivered' = delivered
  BY <1>1, <1>3 DEF Write, Listening, TypeOK
<1>5. ASSUME NEW d \in Conn
      PROVE  ServedAt(phase[d], sock[d], heldMsgs'[aid[d]], delivered'[d], expected'[d])
  <2>1. aid[d] \in ActorId /\ (phase[d] = "joined" => aid[d] # a)
    BY <1>3 DEF Keeps, TypeOK
  <2>2. aid[d] # a => heldMsgs'[aid[d]] = heldMsgs[aid[d]]
    <3>1. aid[d] # a => sent[aid[d]] = heldMsgs[aid[d]]
      BY <2>1 DEF Hold
    <3>2. DOMAIN sent = ActorId
      BY DEF Hold, TypeOK
    <3> HIDE DEF sent
    <3> QED
      BY <1>1, <2>1, <3>1, <3>2
  <2> QED
    BY <1>1, <1>4, <2>1, <2>2 DEF Served, ServedAt
<1> QED
  BY <1>5, NobodyJoins

LEMMA GrantedServes ==
    ASSUME IdInv, Ears, Served, NeverFull, NEW c \in Conn, Granted(c)
    PROVE  Served'
<1> USE DEF IdInv, LifeInv
<1>1. CASE Drains(c) /\ HandleClose(aid[c], Tail(jobs))
  <2>1. /\ phase[c] = "joined" /\ phase'[c] = "over" /\ Keeps(c) /\ UNCHANGED <<sock, aid>>
        /\ \A d \in Conn \ {c} : phase'[d] = phase[d]
    BY <1>1 DEF Drains, Goes, Keeps, TypeOK
  <2>2. ASSUME NEW d \in Conn \ {c}
        PROVE  ServedAt(phase[d], sock[d], heldMsgs[aid[d]], delivered[d], expected[d])'
    <3>1. phase[d] = "joined" => aid[d] # aid[c]
      BY <2>1, SameKeeper DEF Keeps
    <3>2. \A a \in ActorId : a = aid[c] =>
             ServedAt(phase[d], sock[d], heldMsgs'[aid[d]], delivered'[d], expected'[d])
      BY <1>1, <3>1, CloseServes
    <3>3. aid[c] \in ActorId
      BY DEF TypeOK
    <3> QED
      BY <2>1, <3>2, <3>3, ServedStays
  <2>3. ServedAt(phase[c], sock[c], heldMsgs[aid[c]], delivered[c], expected[c])'
    BY <2>1 DEF ServedAt
  <2> QED
    BY <2>2, <2>3 DEF Served
<1>2. CASE Attaches(c)
  <2> DEFINE a == aid[c]
  <2>1. /\ phase[c] = "joined" /\ Keeps(c) /\ aid' = aid /\ a \in ActorId
        /\ phase' = [phase EXCEPT ![c] = "attached"]
        /\ \A d \in Conn : sock'[d] = "open" => sock[d] = "open"
    BY <1>2 DEF Attaches, Goes, Dims, Keeps, TypeOK
  <2>2. /\ heldMsgs' = [heldMsgs EXCEPT ![a] = <<>>] /\ expected' = expected
        /\ delivered' = [d \in Conn |-> IF d \in listeners[a] \cup {c} /\ sock[d] = "open"
                                        THEN delivered[d] \o heldMsgs[a] ELSE delivered[d]]
    BY <1>2 DEF Granted, Attaches
  <2>3. ASSUME NEW d \in Conn \ {c}, Keeps(d)
        PROVE  aid[d] # a
    BY <2>1, <2>3, SameKeeper
  <2>4. ASSUME NEW d \in Conn \ {c}
        PROVE  ServedAt(phase[d], sock[d], heldMsgs[aid[d]], delivered[d], expected[d])'
    <3>1. d \notin listeners[a]
      BY <2>1, <2>3 DEF Ears
    <3>2. delivered'[d] = delivered[d] /\ phase'[d] = phase[d]
      BY <2>1, <2>2, <3>1 DEF TypeOK
    <3>3. phase[d] = "joined" => heldMsgs'[aid[d]] = heldMsgs[aid[d]]
      BY <2>2, <2>3 DEF Keeps, TypeOK
    <3>4. ServedAt(phase[d], sock[d], heldMsgs'[aid[d]], delivered'[d], expected'[d])
      BY <2>2, <3>2, <3>3 DEF Served, ServedAt
    <3> QED
      BY <2>1, <3>2, <3>4, ServedStays
  <2>5. delivered[c] = <<>> /\ expected[c] = heldMsgs[a] /\ heldMsgs[a] \in Seq(Nat)
    BY <2>1 DEF Served, ServedAt, TypeOK
  <2>6. delivered'[c] = IF sock[c] = "open" THEN expected'[c] ELSE <<>>
    <3>1. <<>> \o heldMsgs[a] = heldMsgs[a]
      BY <2>5
    <3> HIDE DEF a
    <3> QED
      BY <2>2, <2>5, <3>1
  <2>7. ServedAt(phase[c], sock[c], heldMsgs[aid[c]], delivered[c], expected[c])'
    <3>1. Begins(expected'[c], expected'[c]) /\ Begins(<<>>, expected'[c])
      BY <2>2, <2>5, BeginsSelf
    <3>2. phase'[c] = "attached" /\ (sock'[c] = "open" => sock[c] = "open")
      BY <2>1 DEF TypeOK
    <3> QED
      BY <2>6, <3>1, <3>2 DEF ServedAt
  <2> QED
    BY <2>4, <2>7 DEF Served
<1> QED
  BY <1>1, <1>2, GrantedLives

LEMMA ServedStep ==
    ASSUME IdInv, Ears, Served, NeverFull, NeverFull', [Next]_vars
    PROVE  Served'
<1> USE DEF IdInv, LifeInv
<1>1. ASSUME UNCHANGED <<heldMsgs, delivered, expected>>, NEW c \in Conn
      PROVE  ServedAt(phase[c], sock[c], heldMsgs'[aid[c]], delivered'[c], expected'[c])
  BY <1>1 DEF Served
<1>2. ASSUME NEW c \in Conn, Authenticated(c)
      PROVE  Served'
  <2>1. ASSUME GoesOn(c), JoinRefused(c)
        PROVE  Served'
    BY <1>1, <2>1, NobodyJoins DEF JoinRefused, layerVars, emitVars
  <2> QED
    BY <1>2, <2>1, AuthenticatedLives, JoinServes, JoinThrowsServes
<1>3. ASSUME NEW c \in Conn, SocketCloses(c)
      PROVE  Served'
  <2>1. Closes(c)
    BY <1>3 DEF SocketCloses, Closes
  <2>2. CASE phase[c] = "attached"
    <3>1. HandleClose(aid[c], jobs) /\ Keeps(c)
      BY <1>3, <2>2 DEF SocketCloses, Keeps
    <3>2. ASSUME NEW d \in Conn
          PROVE  ServedAt(phase[d], sock[d], heldMsgs'[aid[d]], delivered'[d], expected'[d])
      <4>1. phase[d] = "joined" => aid[d] # aid[c]
        BY <2>2, <3>1, SameKeeper DEF Keeps
      <4>2. \A a \in ActorId : a = aid[c] =>
               ServedAt(phase[d], sock[d], heldMsgs'[aid[d]], delivered'[d], expected'[d])
        BY <3>1, <4>1, CloseServes
      <4>3. aid[c] \in ActorId
        BY DEF TypeOK
      <4> QED
        BY <4>2, <4>3
    <3> QED
      BY <2>1, <3>2, NobodyJoins
  <2>3. CASE phase[c] # "attached"
    BY <1>1, <1>3, <2>1, <2>3, NobodyJoins DEF SocketCloses, layerVars, emitVars
  <2> QED
    BY <2>2, <2>3
<1>4. ASSUME NEW r \in Room, Broadcast(r)
      PROVE  Served'
  <2>1. /\ Send(actors[r]) /\ heldMsgs' = Hold(heldMsgs, roomIds, actors[r], emits + 1)
        /\ Dims /\ UNCHANGED <<phase, closeVars, aid>>
    BY <1>4, SameDims DEF Broadcast, EmitMessage, connVars, closeVars
  <2>2. actors[r] \in IdSets /\ Known(actors[r], roomIds)
    BY MembersKnown
  <2>3. ASSUME NEW c \in Conn
        PROVE  ServedAt(phase[c], sock[c], heldMsgs'[aid[c]], delivered'[c], expected'[c])
    BY <2>1, <2>2, SendServes
  <2> QED
    BY <2>1, <2>3, NobodyJoins
<1>5. ASSUME NEW c \in Conn, Connect(c) \/ Limited(c) \/ Refused(c)
      PROVE  Served'
  <2>1. Connects(c) \/ GoesOn(c)
    BY <1>5, ResumedLives DEF Connect, BeginAuth, Connects, Goes
  <2>2. UNCHANGED <<heldMsgs, delivered, expected>>
    BY <1>5 DEF Connect, Limited, Refused, layerVars, emitVars
  <2> QED
    BY <1>1, <2>1, <2>2, NobodyJoins
<1>6. ASSUME \/ \E r \in Room : CreateRoom(r) \/ DestroyRoom(r) \/ TeardownEmpty(r)
             \/ \E r \in Room, a \in ActorId : KickActor(r, a)
             \/ \E c \in Conn : FrameArrives(c) \/ Checked(c)
             \/ \E k \in awaiting : Settle(k)
             \/ Shutdown
             \/ UNCHANGED vars
      PROVE  Served'
  <2>1. UNCHANGED <<heldMsgs, delivered, expected>>
    BY <1>6 DEF CreateRoom, DestroyRoom, TeardownEmpty, Destroy, KickActor, FrameArrives,
                Checked, Settle, Shutdown, vars, layerVars, emitVars
  <2>2. Dims /\ UNCHANGED <<phase, closeVars, aid>>
    BY <1>6, Bystanders
  <2> QED
    BY <1>1, <2>1, <2>2, NobodyJoins
<1> QED
  BY <1>2, <1>3, <1>4, <1>5, <1>6, GrantedServes DEF Next, RunJob

\* As long as no buffer fills up (TLayer.MAX_PENDING_EMITS_PER_KEY), and ids are not used
\* again, a client is sent every message for its actor since it joined, in order and once:
\* what was emitted before WSTransport attached its listeners is flushed first.
THEOREM NothingLost == Spec /\ NoReuse /\ []NeverFull => []NoMessageLost
<1>1. Init => Ears /\ Served
  BY DEF Init, Ears, Served, ServedAt
<1>2. IdInv /\ Ears /\ [Next]_vars => Ears'
  BY EarsStep
<1>3. IdInv /\ Ears /\ Served /\ NeverFull /\ NeverFull' /\ [Next]_vars => Served'
  BY ServedStep
<1>4. Served => NoMessageLost
  BY DEF Served, ServedAt, Begins, NoMessageLost
<1> QED
  BY <1>1, <1>2, <1>3, <1>4, IdInit, IdStep, PTL DEF Spec
=============================================================================
