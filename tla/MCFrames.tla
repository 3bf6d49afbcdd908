------------------------------ MODULE MCFrames ------------------------------
\* Frames as bytes, frames under way on a data channel, and the limiter while the clock
\* steps back.  A behaviour follows one of them.
EXTENDS GameFrames, WireCodec

\* Down, numbers wrap around; up, other frames of the client use tokens too.
MCMaxFrames == [up |-> 2, down |-> 4]

VARIABLE subject

Bytes(A) == subject = "bytes" /\ A /\ UNCHANGED <<vars, subject>>

\* Bound: the clock steps back only in behaviours without frames.
Channel(A) ==
    /\ subject \in {"channel", "clock"} /\ A
    /\ IF subject = "channel" THEN steps' = 0 ELSE sent' = <<>>
    /\ UNCHANGED <<parcel, subject>>

FramesInit ==
    /\ Init /\ WireInit
    /\ subject \in {"bytes", "channel", "clock"} /\ (subject # "channel" => way = "up")

FramesSpec == FramesInit /\ [][Bytes(WireNext) \/ Channel(Next)]_<<vars, parcel, subject>>
=============================================================================
