------------------------------ MODULE MCOutbox ------------------------------
(* Outbox for TLC; the cfg gives the bounds.                               *)
EXTENDS Outbox
=============================================================================
