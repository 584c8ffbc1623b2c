------------------------------ MODULE MCAiRun ------------------------------
(* The instance of AiRun that TLC checks: every run answers one message.   *)
EXTENDS AiRun

CONSTANT m1

MCMessages == {m1}
MCMessageOf == [r \in Runs |-> m1]
=============================================================================
