---------------------------- MODULE MCAuthSession ----------------------------
(* AuthSession for TLC; the cfg gives the bounds.                          *)
EXTENDS AuthSession
=============================================================================
