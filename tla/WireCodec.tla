----------------------------- MODULE WireCodec -----------------------------
(***************************************************************************)
(* The binary wires: the serializer of handshake with its game frames,     *)
(* close frames and versioned codecs, the schemas of signal (and of the    *)
(* negotiation cores, which copy them) and of fleet, and the typed         *)
(* payloads they carry between builds of different age.  fleet writes its  *)
(* frames with @toolcase/serializer, whose format is the same but for an   *)
(* int32 (the capacity): that is a number with its sign extended and not   *)
(* zig-zag.  As each package reads what it wrote, it is zig-zag here too.  *)
(*                                                                         *)
(* A behaviour is the life of one frame: encoded by one build, perhaps     *)
(* relayed by a SignalRoom of another, cut short or replaced, and decoded  *)
(* by a third.  A string is the sequence of its UTF-8 bytes and stays      *)
(* short; numbers are taken modulo Word for 2^32.                          *)
(***************************************************************************)
EXTENDS SequencesExt, WireFormat

CONSTANTS
    Null,       \* null
    Foreign,    \* WireVersionError
    MaxReason,  \* MAX_CLOSE_REASON_BYTES
    MaxName,    \* MAX_NAME_LENGTH, and the cap of every other string of a snapshot
    MaxEntries, \* MAX_LABELS, MAX_ROOM_TYPES and MAX_ROOMS
    MaxRoomConnections

ASSUME WireAssumption ==
    {MaxReason, MaxName, MaxEntries, MaxRoomConnections} \subseteq Nat

\* Builds before and after the last fields were appended, the copy of the schemas of
\* signal in the negotiation cores, and a build of another major.
Builds == {"old", "new", "peer", "other"}
Major(build) == IF build = "other" THEN 2 ELSE 1

---------------------------------------------------------------------------
(* Schemas: the position of a field is its tag.                            *)

Optional(key, type) == [key |-> key, type |-> type, rule |-> "optional"]
Required(key, type) == [key |-> key, type |-> type, rule |-> "required"]
Repeated(key, type) == [key |-> key, type |-> type, rule |-> "repeated"]
Strings(keys) == [i \in DOMAIN keys |-> Optional(keys[i], "string")]

GameSchema == <<Required("topic", "string"), Required("payload", "bytes")>>
CloseSchema == <<Required("code", "uint32"), Required("reason", "string")>>

SignalSchema == [
    Welcome      |-> Strings(<<"youId", "hostId", "iceServers">>),
    Offer        |-> Strings(<<"to", "sdp", "from">>),
    Answer       |-> Strings(<<"to", "sdp", "from">>),
    IceCandidate |-> Strings(<<"to", "candidate", "from">>),
    HostElected  |-> Strings(<<"newHostId">>),
    HostState    |-> <<Optional("state", "bytes")>>]

FleetSchema == [
    Label    |-> Strings(<<"key", "value">>),
    SyncRoom |-> Strings(<<"id", "type">>) \o <<Optional("connections", "uint32"), Optional("origin", "string")>>,
    Capacity |-> <<Optional("maxConnections", "int32"), Optional("maxRooms", "int32")>>,
    AckRoom  |-> Strings(<<"id", "type">>),
    Hello    |-> <<Optional("instanceId", "string"), Optional("protocolVersion", "uint32"),
                   Optional("heartbeatMs", "uint32")>>,
    Poll     |-> Strings(<<"reqId", "knownHash", "status">>),
    State    |-> <<Optional("reqId", "string"), Optional("full", "bool"), Optional("seq", "uint32")>>
                 \o Strings(<<"hash", "name", "processUid", "agentVersion">>)
                 \o <<Optional("protocolVersion", "uint32"), Optional("endpointUrl", "string"),
                      Repeated("labels", "Label"), Optional("capacity", "Capacity"),
                      Optional("autoCreate", "bool"), Repeated("roomTypes", "string"),
                      Repeated("rooms", "SyncRoom"), Optional("status", "string")>>,
    Cmd      |-> Strings(<<"cmdId", "op", "roomId", "roomType">>),
    Ack      |-> <<Optional("cmdId", "string"), Optional("ok", "bool"), Optional("error", "string"),
                   Optional("alreadyGone", "bool"), Optional("room", "AckRoom"), Optional("exists", "bool")>>]

PeerSchema == [
    Welcome      |-> Strings(<<"youId", "hostId", "iceServers">>),
    Offer        |-> Strings(<<"to", "sdp", "from">>),
    Answer       |-> Strings(<<"to", "sdp", "from">>),
    IceCandidate |-> Strings(<<"to", "candidate", "from">>),
    HostElected  |-> Strings(<<"newHostId">>)]

Schema == [Game |-> GameSchema, Close |-> CloseSchema] @@ SignalSchema @@ FleetSchema

Appended == {"from", "exists"}
Omitting(fields, keys) == SelectSeq(fields, LAMBDA f : f.key \notin keys)

\* Mutant: the new field was put in front.
Fields_prepended(build, type) ==
    IF build = "old" THEN Omitting(Schema[type], Appended)
    ELSE IF build = "peer" THEN PeerSchema[type]
    ELSE SelectSeq(Schema[type], LAMBDA f : f.key \in Appended) \o Omitting(Schema[type], Appended)

\* Another major may have any other layout.
Fields(build, type) ==
    CASE build = "old" -> Omitting(Schema[type], Appended)
      [] build = "new" -> Schema[type]
      [] build = "peer" -> PeerSchema[type]
      [] build = "other" -> Reverse(Schema[type])

---------------------------------------------------------------------------
(* Writer.                                                                 *)

DefaultFor(type) ==
    CASE type \in {"string", "bytes"} -> <<>>
      [] type \in {"uint32", "int32"} -> 0
      [] type = "bool" -> FALSE

Get(m, key, default) == IF key \in DOMAIN m THEN m[key] ELSE default

RECURSIVE WriteMessage(_, _, _)

WriteField(build, tag, type, value) ==
    CASE type \in {"string", "bytes"} -> BytesField(tag, value)
      [] type = "uint32" -> NumField(tag, Unsigned(value))
      [] type = "int32" -> NumField(tag, ZigZag(value))
      [] type = "bool" -> NumField(tag, IF value THEN 1 ELSE 0)
      [] OTHER -> BytesField(tag, WriteMessage(build, type, value))

\* A key of the message with null or no value is not written, unless required.
WriteMessage(build, type, m) ==
    LET fields == Fields(build, type)
        Written(tag) ==
            LET f == fields[tag]
                value == Get(m, f.key, Null)
            IN  IF value # Null
                THEN IF f.rule = "repeated"
                     THEN [i \in DOMAIN value |-> WriteField(build, tag, f.type, value[i])]
                     ELSE <<WriteField(build, tag, f.type, value)>>
                ELSE IF f.rule = "required" THEN <<WriteField(build, tag, f.type, DefaultFor(f.type))>>
                ELSE <<>>
    IN  WriteAll[FlattenSeq([tag \in DOMAIN fields |-> Written(tag)])]

---------------------------------------------------------------------------
(* Reader.                                                                 *)

RECURSIVE ReadMessage(_, _, _)

ReadValue(build, type, f) ==
    CASE type \in {"string", "bytes"} -> f.bytes
      [] type = "uint32" -> Unsigned(f.num)
      [] type = "int32" -> UnZigZag(f.num)
      [] type = "bool" -> f.num # 0
      [] OTHER -> ReadMessage(build, Fields(build, type), f.bytes)

\* Own properties of the result are the fields that were on the wire; a field with a tag
\* that the build does not know is skipped.
Include(build, fields, m, f) ==
    LET field == fields[f.tag]
        value == ReadValue(build, field.type, f)
    IN  IF m = Malformed \/ f.tag \notin DOMAIN fields THEN m
        ELSE IF value = Malformed THEN Malformed
        ELSE IF field.rule = "repeated"
             THEN (field.key :> Append(Get(m, field.key, <<>>), value)) @@ m
             ELSE (field.key :> value) @@ m

ReadMessage(build, fields, s) ==
    IF ReadAll[s] = Malformed THEN Malformed
    ELSE FoldLeft(LAMBDA m, f : Include(build, fields, m, f), <<>>, ReadAll[s])

---------------------------------------------------------------------------
(* Codecs: a header of major and minor before the message.                 *)

Unversioned == {"Game", "Close"}
HeaderBytes == 2

Encode(build, kind, m) ==
    (IF kind \in Unversioned THEN <<>> ELSE <<Major(build), 0>>) \o WriteMessage(build, kind, m)

Decode(build, kind, frame) ==
    IF kind \in Unversioned THEN ReadMessage(build, Fields(build, kind), frame)
    ELSE IF Len(frame) < HeaderBytes THEN Malformed
    ELSE IF frame[1] # Major(build) THEN Foreign
    ELSE ReadMessage(build, Fields(build, kind), SubSeq(frame, HeaderBytes + 1, Len(frame)))

\* decodeRelayTo: field 1 of an offer, answer or candidate, read as of an offer.
RelayTo(build, frame) ==
    LET m == Decode(build, "Offer", frame)
    IN  IF m \in {Malformed, Foreign} THEN m ELSE Get(m, "to", <<>>)

ChunkTopic == <<7, 7>>

\* The bytes that every chunk frame begins with.
IsChunkFrame(frame) ==
    LET prefix == SubSeq(Encode("new", "Game", [topic |-> ChunkTopic, payload |-> <<>>]), 1, 2 + Len(ChunkTopic))
    IN  IsPrefix(prefix, frame)

---------------------------------------------------------------------------
(* Close frames: the reason is cut at the end of a code point.             *)

PointLength(byte) ==
    CASE byte < 128 -> 1
      [] byte \in 192..223 -> 2
      [] byte \in 224..239 -> 3
      [] byte \in 240..247 -> 4
      [] OTHER -> 1

RECURSIVE WholePrefix(_, _)
WholePrefix(s, i) ==
    IF i < MaxReason /\ i + PointLength(s[i + 1]) <= MaxReason
    THEN WholePrefix(s, i + PointLength(s[i + 1])) ELSE i

TruncateUtf8(s) == IF Len(s) <= MaxReason THEN s ELSE SubSeq(s, 1, WholePrefix(s, 0))

---------------------------------------------------------------------------
(* Payloads: what is left out or filled in on either side.                 *)

Active == <<1>>   \* 'active'
Local == <<2>>    \* 'local'
NoServers == <<3>> \* '[]'

Drop(p, keys) == [k \in DOMAIN p \ keys |-> p[k]]
Keep(p, keys) == [k \in DOMAIN p \cap keys |-> p[k]]

LabelList(labels) ==
    LET keys == SetToSeq(DOMAIN labels)
    IN  [i \in DOMAIN keys |-> [key |-> keys[i], value |-> labels[keys[i]]]]

LabelsFrom(list) ==
    LET Entry(i) == Get(list[i], "key", <<>>)
        Latest(k) == CHOOSE i \in DOMAIN list : Entry(i) = k /\ \A j \in DOMAIN list : Entry(j) = k => j <= i
    IN  [k \in {Entry(i) : i \in DOMAIN list} |-> Get(list[Latest(k)], "value", <<>>)]

StateTo(p) == IF p.full THEN [p EXCEPT !.labels = LabelList(@)]
              ELSE Keep(p, {"reqId", "full", "seq", "hash"})

SenderTo(p) == IF Get(p, "from", <<>>) = <<>> THEN Drop(p, {"from"}) ELSE p

ToMessage(kind, p) ==
    CASE kind = "Close" -> [p EXCEPT !.reason = TruncateUtf8(@)]
      [] kind \in {"Offer", "Answer", "IceCandidate"} -> SenderTo(p)
      [] kind = "State" -> StateTo(p)
      [] OTHER -> p

CapacityFrom(m) == [k \in {"maxConnections", "maxRooms"} |-> Get(m, k, Null)]

RoomFrom(m) == [id |-> Get(m, "id", <<>>), type |-> Get(m, "type", <<>>),
                connections |-> Get(m, "connections", 0), origin |-> Get(m, "origin", Local)]

NoState == [reqId |-> <<>>, full |-> FALSE, seq |-> 0, hash |-> <<>>, name |-> <<>>, processUid |-> <<>>,
            agentVersion |-> <<>>, protocolVersion |-> 0, endpointUrl |-> <<>>, labels |-> <<>>,
            capacity |-> <<>>, autoCreate |-> FALSE, roomTypes |-> <<>>, rooms |-> <<>>, status |-> Active]

StateFrom(m) ==
    LET s == m @@ NoState
        rooms == s.rooms
    IN  [s EXCEPT !.labels = LabelsFrom(@), !.capacity = CapacityFrom(@),
                  !.rooms = [i \in DOMAIN rooms |-> RoomFrom(rooms[i])]]

SignalFrom(kind, m) ==
    CASE kind = "Welcome" -> [youId |-> Get(m, "youId", <<>>), hostId |-> Get(m, "hostId", Null),
                              iceServers |-> Get(m, "iceServers", NoServers)]
      [] kind \in {"Offer", "Answer"} -> m @@ [to |-> <<>>, sdp |-> <<>>]
      [] kind = "IceCandidate" -> m @@ [to |-> <<>>, candidate |-> <<>>]
      [] kind = "HostElected" -> m @@ [newHostId |-> <<>>]
      [] kind = "HostState" -> IF "state" \in DOMAIN m THEN m ELSE Null

AckFrom(m) ==
    LET a == m @@ [cmdId |-> <<>>, ok |-> FALSE]
    IN  IF "room" \in DOMAIN a THEN [a EXCEPT !.room = @ @@ [id |-> <<>>, type |-> <<>>]] ELSE a

FleetFrom(kind, m) ==
    CASE kind = "Hello" -> m @@ [instanceId |-> <<>>, protocolVersion |-> 0, heartbeatMs |-> 0]
      [] kind = "Poll" -> m @@ [reqId |-> <<>>, knownHash |-> Null, status |-> Active]
      [] kind = "State" -> StateFrom(m)
      [] kind = "Cmd" -> m @@ [cmdId |-> <<>>]
      [] kind = "Ack" -> AckFrom(m)

FromMessage(kind, m) ==
    IF kind \in Unversioned THEN m
    ELSE IF kind \in DOMAIN SignalSchema THEN SignalFrom(kind, m) ELSE FleetFrom(kind, m)

Sent(build, kind, p) == Encode(build, kind, ToMessage(kind, p))

Received(build, kind, frame) ==
    LET m == Decode(build, kind, frame)
    IN  IF m \in {Malformed, Foreign} THEN m ELSE FromMessage(kind, m)

---------------------------------------------------------------------------
(* validateSnapshot: what the orchestrator records of a full state.        *)

\* What the URL parser makes of an endpointUrl; ws, wss, http and https are allowed.
Scheme(url) == IF url = <<>> THEN Malformed ELSE Head(url)
AllowedSchemes == {9}

Short(s) == Len(s) <= MaxName

ValidSnapshot(s) ==
    /\ Short(s.endpointUrl) /\ Short(s.name)
    /\ Len(s.roomTypes) <= MaxEntries /\ \A i \in DOMAIN s.roomTypes : Short(s.roomTypes[i])
    /\ Len(s.rooms) <= MaxEntries
    /\ Scheme(s.endpointUrl) \in AllowedSchemes
    /\ Len(SetToSeq(DOMAIN s.labels)) <= MaxEntries
    /\ \A k \in DOMAIN s.labels : Short(k) /\ Short(s.labels[k])
    /\ \A i \in DOMAIN s.rooms : /\ Short(s.rooms[i].id) /\ Short(s.rooms[i].type)
                                 /\ s.rooms[i].connections <= MaxRoomConnections

---------------------------------------------------------------------------
(* The life of a frame.                                                    *)

\* What a sender may have to say: the inputs that make a difference to the codecs.
Text == {<<>>, <<65>>}
Ids == {<<>>, <<97>>}
Points == {<<97>>, <<195, 169>>, <<226, 130, 172>>, <<240, 159, 152, 128>>}
UpTo(n, S) == UNION {[1..k -> S] : k \in 0..n}
Maybe(key, S) == {<<>>} \cup {key :> v : v \in S}
Merge(S, T) == {s @@ t : s \in S, t \in T}

\* Lists of rooms: within every cap, or over just one of them.
Rooms ==
    LET Room(id, n) == [id |-> id, type |-> <<98>>, connections |-> n, origin |-> Local]
        Fleets == [id |-> <<97>>, type |-> <<>>, connections |-> 0, origin |-> <<3>>]
    IN  {<<>>, <<Fleets>>, <<Room(<<97, 97>>, 1)>>, <<Room(<<97>>, 130)>>, <<Fleets, Room(<<98>>, 1)>>}

Capacities == {[maxConnections |-> c[1], maxRooms |-> c[2]] : c \in {<<Null, 3>>, <<0, Null>>, <<-70, 3>>}}

AllowedUrl == <<9>>

\* A reply that is not full leaves the rest out, whatever it is.
\* Bound: seq and autoCreate vary together.
States ==
    {s \in [reqId : {<<97>>}, full : BOOLEAN, seq : {0, 130}, hash : {<<97>>}, name : {<<65>>}, processUid : {<<66>>},
            agentVersion : {<<>>}, protocolVersion : {1}, endpointUrl : {<<>>, <<8>>, AllowedUrl, <<9, 9>>},
            labels : {<<>>, (<<97>> :> <<>>), (<<97>> :> <<98>>) @@ (<<>> :> <<97>>)},
            capacity : Capacities, autoCreate : BOOLEAN, roomTypes : {<<>>, <<<<98>>, <<>>>>}, rooms : Rooms,
            status : {Active}] :
        /\ s.seq = 0 <=> s.autoCreate
        /\ s.full \/ (s.endpointUrl = AllowedUrl /\ Len(s.rooms) = 2)}

Payloads(kind) ==
    CASE kind = "Game" -> [topic : UpTo(3, {7, 8}), payload : UpTo(2, {0, 7})]
      [] kind = "Close" -> [code : {1, 300}, reason : {FlattenSeq(s) : s \in UpTo(3, Points)}]
      [] kind = "Welcome" -> [youId : Ids, hostId : Ids \cup {Null}, iceServers : Text]
      [] kind \in {"Offer", "Answer"} -> Merge([to : Ids, sdp : Text], Maybe("from", Ids))
      [] kind = "IceCandidate" -> Merge([to : Ids, candidate : Text], Maybe("from", Ids))
      [] kind = "HostElected" -> [newHostId : Ids]
      [] kind = "HostState" -> [state : Text]
      [] kind = "Hello" -> [instanceId : Ids, protocolVersion : {0, 2}, heartbeatMs : {0, 127, 128, Word - 1}]
      [] kind = "Poll" -> [reqId : Ids, knownHash : Text \cup {Null}, status : {Active, <<4>>}]
      [] kind = "State" -> States
      [] kind = "Cmd" -> Merge([cmdId : Ids, op : {<<5>>}], Merge(Maybe("roomId", Ids), Maybe("roomType", Ids)))
      [] kind = "Ack" -> Merge([cmdId : Ids, ok : BOOLEAN],
                           Merge(Merge(Maybe("error", Text), Maybe("alreadyGone", BOOLEAN)),
                                 Merge(Maybe("exists", BOOLEAN), Maybe("room", [id : Ids, type : {<<98>>}]))))

Kinds == {"Game", "Close", "Welcome", "Offer", "Answer", "IceCandidate", "HostElected", "HostState",
          "Hello", "Poll", "State", "Cmd", "Ack"}
Relayed == {"Offer", "Answer", "IceCandidate"}
BuildsOf(kind) ==
    IF kind \in Unversioned THEN {"new"}
    ELSE IF kind \in DOMAIN PeerSchema THEN Builds ELSE Builds \ {"peer"}

VARIABLE parcel  \* the frame, where it is, what was meant and what was understood

Empty == [stage |-> "idle", kind |-> "Game", sender |-> "new", receiver |-> "new", payload |-> <<>>,
          frame |-> <<>>, whole |-> TRUE, target |-> Null, out |-> Null, stored |-> FALSE]

WireInit == parcel = Empty

EncodePayload == \E kind \in Kinds : \E build \in BuildsOf(kind), p \in Payloads(kind) :
    /\ parcel.stage = "idle"
    /\ parcel' = [parcel EXCEPT !.stage = "sent", !.kind = kind, !.sender = build, !.payload = p,
                                !.frame = Sent(build, kind, p)]

\* Something else comes in its place: a frame that ends early, or the JSON of a
\* build before the binary wires ('{' is 123).
\* Bound: only frames of new builds are cut, and of the states those with the allowed URL.
Tear == \E n \in 0..Len(parcel.frame) - 1 :
    /\ parcel.stage = "sent" /\ parcel.sender = "new"
    /\ parcel.kind = "State" => parcel.payload.endpointUrl = AllowedUrl
    /\ parcel' = [parcel EXCEPT !.stage = "relayed", !.whole = FALSE, !.frame = SubSeq(@, 1, n)]

SendJson ==
    /\ parcel.stage = "sent" /\ parcel.sender = "new" /\ parcel.kind \notin Unversioned
    /\ parcel' = [parcel EXCEPT !.stage = "relayed", !.sender = "json", !.frame = <<123, 34>>]

\* SignalRoom.relay passes the frame on as it is.
RelayFrame == \E build \in Builds :
    /\ parcel.stage = "sent" /\ parcel.kind \in Relayed
    /\ build # "peer" /\ Major(build) = Major(parcel.sender)
    /\ parcel' = [parcel EXCEPT !.stage = "relayed", !.target = RelayTo(build, parcel.frame)]

ReceiveFrame == \E build \in BuildsOf(parcel.kind) :
    LET out == Received(build, parcel.kind, parcel.frame)
    IN  /\ parcel.stage = "relayed" \/ (parcel.stage = "sent" /\ parcel.kind \notin Relayed)
        /\ parcel' = [parcel EXCEPT !.stage = "got", !.receiver = build, !.out = out,
             !.stored = parcel.kind = "State" /\ out \notin {Malformed, Foreign} /\ out.full /\ ValidSnapshot(out)]

WireNext == EncodePayload \/ Tear \/ SendJson \/ RelayFrame \/ ReceiveFrame
WireSpec == WireInit /\ [][WireNext]_parcel

---------------------------------------------------------------------------
\* What both builds can say of a payload: an old build neither sends nor sees the
\* appended fields, an empty 'from' is as good as none, and a reply that is not full
\* leaves the snapshot out.
Meaning ==
    LET p == parcel.payload
        common == IF "old" \in {parcel.sender, parcel.receiver} THEN Drop(p, Appended) ELSE p
    IN  CASE parcel.kind \in Relayed -> IF Get(common, "from", <<>>) = <<>> THEN Drop(common, {"from"}) ELSE common
          [] parcel.kind = "State" ->
               IF p.full THEN p
               ELSE Keep(p, {"reqId", "seq", "hash"}) @@ [NoState EXCEPT !.capacity = CapacityFrom(<<>>)]
          [] parcel.kind = "Close" -> [p EXCEPT !.reason = parcel.out.reason]
          [] OTHER -> common

\* Builds of one major understand each other, whichever is the older: null is not zero,
\* absent is not empty, and no field is taken for another.  Builds of two majors refuse
\* each other, and JSON, at the header.  A relay of another age finds the addressee, and
\* a frame is taken for a chunk exactly when it is one.
WholeMeansSame == parcel.stage = "got" /\ parcel.whole =>
    /\ IF parcel.sender = "json" \/ Major(parcel.sender) # Major(parcel.receiver) THEN parcel.out = Foreign
       ELSE parcel.out = Meaning
    /\ parcel.target # Null => parcel.target = parcel.payload.to
    /\ parcel.kind = "State" /\ parcel.out # Foreign =>
         (parcel.stored <=> parcel.payload.full /\ ValidSnapshot(parcel.payload))
    /\ parcel.kind = "Game" => (IsChunkFrame(parcel.frame) <=> parcel.payload.topic = ChunkTopic)

\* The message m up to some field, or up to some element of a repeated field.
Beginnings(fields, m) ==
    LET Before(i) == Keep(m, {fields[j].key : j \in 1..i - 1})
        Elements(i) == IF fields[i].rule = "repeated" THEN Get(m, fields[i].key, <<>>) ELSE <<>>
    IN  UNION {{(fields[i].key :> SubSeq(Elements(i), 1, n)) @@ Before(i) : n \in 1..Len(Elements(i))}
                 \cup {Before(i)} : i \in DOMAIN fields}

\* Of a frame that was cut short nothing is made up and nothing skipped: it is refused,
\* or read as a frame that ends after some field, or element of a list, that was sent.
\* What came later then has its default: a poll may have lost the known hash and the
\* status, an ack its ok, and a state the last of its rooms.
TornNeverLies == parcel.stage = "got" /\ ~parcel.whole =>
    LET sent == ToMessage(parcel.kind, parcel.payload)
        read == IF parcel.receiver = "old" THEN Drop(sent, Appended) ELSE sent
    IN  \/ parcel.out \in {Malformed, Foreign}
        \/ \E m \in Beginnings(Schema[parcel.kind], read) : parcel.out = FromMessage(parcel.kind, m)

\* A kick's reason arrives as the longest beginning of it, in whole code points, that
\* fits.
CloseReasonWhole == parcel.stage = "got" /\ parcel.whole /\ parcel.kind = "Close" =>
    \E points \in UpTo(3, Points) :
        /\ FlattenSeq(points) = parcel.payload.reason
        /\ \E n \in 0..Len(points) :
             /\ parcel.out.reason = FlattenSeq(SubSeq(points, 1, n))
             /\ Len(parcel.out.reason) <= MaxReason
             /\ n < Len(points) => Len(FlattenSeq(SubSeq(points, 1, n + 1))) > MaxReason

\* Whatever the ages of the two builds, a whole frame means to its reader what it meant to
\* its writer, and of a kick's reason that is a beginning.  Of a frame cut short a reader
\* gets an error or a beginning, with defaults for the rest and no sign that it is one
\* (fleet serializer, varint.ts, closeFrame.ts).
SameMeaning == WholeMeansSame /\ TornNeverLies /\ CloseReasonWhole
=============================================================================
