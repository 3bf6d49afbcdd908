------------------------- MODULE MCTransportLayer -------------------------
EXTENDS TransportLayerRefinement, TLC

\* Connections are interchangeable: no constant, state or property names one.
ConnSymmetry == Permutations(Conn)
===========================================================================
