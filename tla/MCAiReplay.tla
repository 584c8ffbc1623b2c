---------------------------- MODULE MCAiReplay ----------------------------
(* The instance of AiReplay that TLC checks: one run, one replay.          *)
EXTENDS AiReplay

CONSTANT m1

MCMessages == {m1}
MCMessageOf == [r \in Runs |-> m1]
=============================================================================
