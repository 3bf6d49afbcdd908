---------------------------- MODULE GameFrames ----------------------------
(***************************************************************************)
(* Frames of a game over the data channels of an RTCClient and an          *)
(* RTCTransport (node): frames above 16 KiB are cut into chunks that carry *)
(* a sequence number, and a ChunkReassembler puts them together; frames of *)
(* some topics take a second, unreliable channel.  What arrives at the     *)
(* host passes the inbound cap and the rate limiter (TokenBucket).         *)
(*                                                                         *)
(* A behaviour follows one direction: "up" from client to host, or "down", *)
(* where backpressure may drop frames.  A session is one data channel; the *)
(* client object and its reassembler survive it.  The contents of a frame  *)
(* are its number.                                                         *)
(***************************************************************************)
EXTENDS TokenBucket, FiniteSets

CONSTANTS
    Peer,        \* the actor of the client
    SeqNumbers,  \* 2^16: outboundSeq is a uint16
    Timeouts,    \* partialFrameTimeoutMs > 0
    MaxBuffered, \* maxBufferedBytes, in messages
    MaxFrames,   \* bound: frames sent in each direction, in all sessions
    MaxSessions  \* bound: data channels, one after another

ASSUME FramesAssumption ==
    /\ Peer \in Actor
    /\ MaxSessions \in Nat \ {0}
    /\ SeqNumbers \in Nat /\ SeqNumbers > 2
    /\ MaxFrames \in [{"up", "down"} -> Nat]
    /\ MaxBuffered \in Nat
    /\ Timeouts \in BOOLEAN

VARIABLES
    way,      \* "up" or "down"
    ordered,  \* channelReliability.ordered of the main channel
    open,     \* whether the data channel is open
    sessions, \* data channels so far
    seq,      \* outboundSeq of the sender
    wire,     \* messages on the main channel
    fast,     \* frames on the unreliable channel
    fastOpen, \* whether there is one
    partial,  \* the ChunkReassembler of the receiver
    sent,     \* history: the size of each frame
    got,      \* history: what was handed to the room or the application
    due       \* history: frames of this session that have to arrive

channel == <<open, sessions, seq, wire, fast, fastOpen, partial>>
history == <<sent, got, due>>
vars == <<limiter, way, ordered, channel, history>>

\* "huge" exceeds maxInboundFrameBytes; "oversize" needs more than 255 chunks.
Chunks == [small |-> 1, large |-> 2, huge |-> 3, oversize |-> 0]
Size == DOMAIN Chunks
\* Bound: the sizes that make a difference in each direction.
Sizes == {"small", "large"} \cup (IF way = "up" THEN {"huge"} ELSE {"oversize"})

Message == [frame : Nat, seq : -1..SeqNumbers - 1, total : 1..3, index : 1..3]
Nothing == [seq |-> -1, total |-> 0, parts |-> <<>>]

TypeOK ==
    /\ LimiterTypeOK
    /\ way \in {"up", "down"} /\ {ordered, open, fastOpen} \subseteq BOOLEAN
    /\ sessions \in 0..MaxSessions /\ seq \in 0..SeqNumbers - 1
    /\ Range(wire) \subseteq Message /\ fast \subseteq Nat
    /\ partial.seq \in -1..SeqNumbers - 1
    /\ sent \in Seq(Size) /\ Len(sent) <= MaxFrames[way] /\ due \subseteq DOMAIN sent

\* Bound: an unordered channel is followed downwards only.
Init ==
    /\ LimiterInit
    /\ way \in {"up", "down"} /\ ordered \in BOOLEAN /\ (way = "up" => ordered)
    /\ open = FALSE /\ sessions = 0 /\ seq = 0 /\ wire = <<>>
    /\ fast = {} /\ fastOpen = FALSE /\ partial = Nothing
    /\ sent = <<>> /\ got = <<>> /\ due = {}

-----------------------------------------------------------------------------
(* The channel.                                                            *)

\* Mutant: the reassembler of the client goes on with what the last session left.
Open_keeps ==
    /\ ~open /\ sessions < MaxSessions
    /\ open' = TRUE /\ sessions' = sessions + 1
    /\ seq' = 0 /\ UNCHANGED partial
    /\ fastOpen' \in BOOLEAN
    /\ UNCHANGED <<limiter, way, ordered, wire, fast, history>>

\* A new data channel, granted by the host: the client starts again with sequence
\* number 0 and an empty reassembler (startNegotiation), and the host has a new
\* actor with new ones of its own.  The unreliable channel is optional.
Open ==
    /\ ~open /\ sessions < MaxSessions
    /\ open' = TRUE /\ sessions' = sessions + 1
    /\ seq' = 0 /\ partial' = Nothing
    /\ fastOpen' \in BOOLEAN
    /\ UNCHANGED <<limiter, way, ordered, wire, fast, history>>

\* What is on its way is lost.  The host's triggerClose clears its reassembler and
\* the layer releases the actor; the client's keeps what it has until the next
\* session (triggerDisconnect) unless the application disconnects.
Closes(clears) ==
    /\ open' = FALSE /\ wire' = <<>> /\ fast' = {} /\ fastOpen' = FALSE
    /\ partial' = IF clears THEN Nothing ELSE partial
    /\ due' = due \cap {got[k].frames[1] : k \in DOMAIN got}
    /\ UNCHANGED <<way, ordered, sessions, seq, sent>>

Close ==
    /\ open
    /\ \E clears \in IF way = "up" THEN {TRUE} ELSE BOOLEAN : Closes(clears)
    /\ Release(Peer)
    /\ UNCHANGED got

\* The unreliable channel closes by itself.
FastCloses ==
    /\ fastOpen
    /\ fastOpen' = FALSE /\ fast' = {}
    /\ UNCHANGED <<limiter, way, ordered, open, sessions, seq, wire, partial, history>>

-----------------------------------------------------------------------------
(* Sending: RTCClient.send, and RTCTransport's listener of the layer.      *)

\* chunkFrame.
ChunksOf(n, size) ==
    [i \in 1..Chunks[size] |->
        [frame |-> n, seq |-> seq, total |-> Chunks[size], index |-> i]]

\* A frame that fits is sent as it is, without a sequence number; one that needs too many
\* chunks is dropped, but has used up a number.
SendReliable(n, size) ==
    /\ wire' = wire \o IF size = "small"
                       THEN <<[frame |-> n, seq |-> -1, total |-> 1, index |-> 1]>>
                       ELSE ChunksOf(n, size)
    /\ seq' = IF size = "small" THEN seq ELSE (seq + 1) % SeqNumbers
    /\ due' = IF size = "oversize" \/ (way = "up" /\ size = "huge") THEN due ELSE due \cup {n}
    /\ UNCHANGED fast

\* The unreliable channel takes small frames only.
SendFast(n, size) ==
    /\ fast' = IF size = "small" THEN fast \cup {n} ELSE fast
    /\ UNCHANGED <<wire, seq, due>>

\* Two guards are bounds: one frame at most is oversize, and numbers do not wrap around on
\* an unordered channel, where 2^16 frames would have to be under way together.
Send(size, quick) ==
    /\ open /\ Len(sent) < MaxFrames[way]
    /\ size = "oversize" => "oversize" \notin Range(sent)
    /\ ~ordered /\ size # "small" => seq < SeqNumbers - 1
    /\ sent' = Append(sent, size)
    /\ LET n == Len(sent) + 1
       IN  IF quick /\ fastOpen THEN SendFast(n, size) ELSE SendReliable(n, size)
    /\ UNCHANGED <<limiter, way, ordered, open, sessions, fastOpen, partial, got>>

\* The host drops a whole frame when more than maxBufferedBytes wait to be sent
\* (checkBackpressure); what is on the wire may or may not be waiting still.
DropBuffered(size) ==
    /\ open /\ way = "down" /\ Len(sent) < MaxFrames[way]
    /\ Len(wire) > MaxBuffered
    /\ sent' = Append(sent, size)
    /\ UNCHANGED <<limiter, way, ordered, channel, got, due>>

-----------------------------------------------------------------------------
(* Receiving.                                                              *)

Without(s, i) == SubSeq(s, 1, i - 1) \o SubSeq(s, i + 1, Len(s))

\* The reassembler with message m: a number it is not working on supersedes what it
\* has, and chunks that do not fit or are there already are ignored.
Started(m) ==
    IF m.seq = partial.seq THEN partial
    ELSE [seq |-> m.seq, total |-> m.total, parts |-> [i \in 1..m.total |-> 0]]

Fed(m) ==
    LET p == Started(m)
    IN  IF m.total = p.total /\ m.index <= p.total /\ p.parts[m.index] = 0
        THEN [p EXCEPT !.parts[m.index] = m.frame]
        ELSE p

Complete(p) == \A i \in 1..p.total : p.parts[i] # 0

Handed(frames, quick) == [frames |-> frames, quick |-> quick]

\* A frame reaches the application of the client, or the room if it passes the
\* host's cap and the limiter (Kicked is the other case).
Capped(bytes) == way = "up" /\ bytes > Chunks["large"]

HandOver(frames, quick, bytes) ==
    /\ way = "down" \/ Capped(bytes) \/ Allows(Peer)
    /\ got' = IF Capped(bytes) THEN got ELSE Append(got, Handed(frames, quick))
    /\ IF way = "down" \/ Capped(bytes) THEN UNCHANGED limiter ELSE Check(Peer)

\* A message of the main channel arrives: a whole frame, or a chunk.
Receive(m) ==
    IF m.seq = -1
    THEN HandOver(<<m.frame>>, FALSE, 1) /\ UNCHANGED partial
    ELSE IF Complete(Fed(m))
    THEN HandOver(Fed(m).parts, FALSE, m.total) /\ partial' = Nothing
    ELSE partial' = Fed(m) /\ UNCHANGED <<limiter, got>>

Arrives(i) == ordered => i = 1

Deliver(i) ==
    /\ Arrives(i) /\ Receive(wire[i])
    /\ wire' = Without(wire, i)
    /\ UNCHANGED <<way, ordered, open, sessions, seq, fast, fastOpen, sent, due>>

\* A frame of the unreliable channel arrives, in any order, or is lost.
DeliverFast(n) ==
    /\ n \in fast /\ fast' = fast \ {n}
    /\ HandOver(<<n>>, TRUE, 1)
    /\ UNCHANGED <<way, ordered, open, sessions, seq, wire, fastOpen, partial, sent, due>>

LoseFast(n) ==
    /\ n \in fast /\ fast' = fast \ {n}
    /\ UNCHANGED <<limiter, way, ordered, open, sessions, seq, wire, fastOpen, partial, history>>

\* The limiter refuses a frame, one of these or another of the same client: TLayer
\* kicks the client, the channel closes, and the bucket is released.
Kicked ==
    /\ way = "up" /\ open /\ ~Allows(Peer)
    /\ Closes(TRUE)
    /\ buckets' = Kept(Peer)
    /\ lastSweep' = IF SweepDue THEN now ELSE lastSweep
    /\ ideal' = [ideal EXCEPT ![Peer] = Full(Peer)]
    /\ cut' = cut \ {Peer}
    /\ UNCHANGED <<now, steps, got>>

\* The partial frame takes longer than partialFrameTimeoutMs.
Evict ==
    /\ Timeouts /\ partial # Nothing
    /\ partial' = Nothing
    /\ due' = due \ Range(partial.parts)
    /\ UNCHANGED <<limiter, way, ordered, open, sessions, seq, wire, fast, fastOpen, sent, got>>

-----------------------------------------------------------------------------
(* The rest of the host: time, and frames that are not followed here.      *)

Elsewhere ==
    /\ way = "up"
    /\ \/ Tick \/ StepBack
       \/ open /\ Allows(Peer) /\ Check(Peer)
       \/ \E a \in Actor \ {Peer} : Check(a) \/ Release(a)
    /\ UNCHANGED <<way, ordered, channel, history>>

Next ==
    \/ Open \/ Close \/ FastCloses \/ Kicked \/ Evict \/ Elsewhere
    \/ \E size \in Sizes : DropBuffered(size) \/ \E quick \in BOOLEAN : Send(size, quick)
    \/ \E i \in DOMAIN wire : Deliver(i)
    \/ \E n \in fast : DeliverFast(n) \/ LoseFast(n)

Spec == Init /\ [][Next]_vars

-----------------------------------------------------------------------------
(* Properties.                                                             *)

Arrived == {got[k].frames[1] : k \in DOMAIN got}

\* Chunking is transparent (src/node/README.md:153-155): what is handed over is a frame that was sent,
\* whole and once; on an ordered channel in the order sent and without losses, but for
\* what the channel's end, the timeout, the cap and backpressure take away.  Partial
\* frames of one session or of a frame given up never mix with the next.
Transparent ==
    /\ \A k \in DOMAIN got :
        /\ got[k].frames \in {[i \in 1..Chunks[sent[n]] |-> n] : n \in DOMAIN sent}
        /\ \A l \in 1..k - 1 : got[l].frames[1] # got[k].frames[1]
        /\ \A l \in 1..k - 1 : ordered /\ ~got[k].quick /\ ~got[l].quick =>
                                got[l].frames[1] < got[k].frames[1]
    /\ ordered => due \subseteq Arrived \cup {m.frame : m \in Range(wire)}

=============================================================================
