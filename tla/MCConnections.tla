--------------------------- MODULE MCConnections ---------------------------
(* Connections for TLC; the cfg gives the bounds.                          *)
EXTENDS Connections
=============================================================================
