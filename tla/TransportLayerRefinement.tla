--------------------- MODULE TransportLayerRefinement ---------------------
(***************************************************************************)
(* TransportLayer implements Membership.  The seat of a connection is read *)
(* off the rooms' actor maps, through the id grantAccess gave it.          *)
(***************************************************************************)
EXTENDS TransportLayer

CONSTANTS Outside, Left

ASSUME SeatAssumption == {Outside, Left} \cap Room = {} /\ Outside # Left

RoomsOf(c) == {r \in Room : aid[c] \in actors[r]}

seatOf == [c \in Conn |->
    IF phase[c] \in {"idle", "limiting", "authenticating"} THEN Outside
    ELSE IF c \in Keepers(aid[c]) /\ RoomsOf(c) # {}
         THEN CHOOSE r \in RoomsOf(c) : TRUE
         ELSE Left]

Seats == INSTANCE Membership
            WITH open <- exists, seat <- seatOf,
                 down <- {c \in Conn : sock[c] = "closed"}

\* Every step of the transport layer is a step of Membership or leaves it
\* unchanged: across two maps, held kicks and closes during the handshake, no
\* connection takes two seats, a seat too many, or loses one it should keep.
ImplementsMembership == Seats!SeatSpec
===========================================================================
