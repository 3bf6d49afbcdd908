--------------------------- MODULE MCRtcSession ---------------------------
EXTENDS RtcSession
===========================================================================
