------------------------------ MODULE MCArchive ------------------------------
(* Archive for TLC; the cfg gives the bounds.                              *)
EXTENDS Archive
=============================================================================
