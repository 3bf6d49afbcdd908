------------------------ MODULE MCFleetControlPlane ------------------------
EXTENDS FleetControlPlane, TLC

\* Processes and room ids are interchangeable.
FleetSymmetry == Permutations(Process) \cup Permutations(RoomId)
============================================================================
