---------------------------- MODULE Membership ----------------------------
(***************************************************************************)
(* What the transport layer promises about who is in which room, without   *)
(* actor ids, listeners, buffers or handshakes: a connection takes at most *)
(* one seat in its life, in a room that is open and has a free one, and    *)
(* loses it only when its line is down or its room closes.                 *)
(***************************************************************************)
EXTENDS Naturals, FiniteSets

CONSTANTS Conn, Room, MaxActors, Outside, Left

VARIABLES
    open,   \* the rooms that exist
    seat,   \* the room a connection is in, or Outside (not yet) or Left
    down    \* the connections whose line is down

seatVars == <<open, seat, down>>

Seated(r) == {c \in Conn : seat[c] = r}

SeatInit ==
    /\ open = {}
    /\ seat = [c \in Conn |-> Outside]
    /\ down = {}

OpenRoom(r) ==
    /\ r \notin open
    /\ open' = open \cup {r}
    /\ UNCHANGED <<seat, down>>

CloseRooms(R) ==
    /\ open' = open \ R
    /\ seat' = [c \in Conn |-> IF seat[c] \in R THEN Left ELSE seat[c]]
    /\ UNCHANGED down

TakeSeat(c, r) ==
    /\ seat[c] = Outside
    /\ r \in open
    /\ Cardinality(Seated(r)) < MaxActors
    /\ seat' = [seat EXCEPT ![c] = r]
    /\ UNCHANGED <<open, down>>

TurnAway(c) ==
    /\ seat[c] = Outside
    /\ seat' = [seat EXCEPT ![c] = Left]
    /\ UNCHANGED <<open, down>>

\* The line goes down; a connection in a room may leave it with the same step.
HangUp(c) ==
    /\ c \notin down
    /\ down' = down \cup {c}
    /\ \/ UNCHANGED seat
       \/ seat[c] \in Room /\ seat' = [seat EXCEPT ![c] = Left]
    /\ UNCHANGED open

LeaveSeat(c) ==
    /\ c \in down
    /\ seat[c] \in Room
    /\ seat' = [seat EXCEPT ![c] = Left]
    /\ UNCHANGED <<open, down>>

SeatNext ==
    \/ \E r \in Room : OpenRoom(r)
    \/ \E R \in SUBSET open : CloseRooms(R)
    \/ \E c \in Conn, r \in Room : TakeSeat(c, r)
    \/ \E c \in Conn : TurnAway(c) \/ HangUp(c) \/ LeaveSeat(c)

SeatSpec == SeatInit /\ [][SeatNext]_seatVars
===========================================================================
