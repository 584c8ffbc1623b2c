--------------------------- MODULE MCOutboxWakeup ---------------------------
(* OutboxWakeup for TLC; the cfg gives the bounds.                         *)
EXTENDS OutboxWakeup
=============================================================================
