----------------------------- MODULE RunLedger -----------------------------
(***************************************************************************)
(* What the ai_runs and messages tables promise about an AI run, whoever   *)
(* writes them: a reserved run is decided at most once, and it has an      *)
(* assistant answer exactly when it was decided "completed".  AiRun        *)
(* implements this ledger.                                                 *)
(***************************************************************************)
CONSTANT Runs

VARIABLES
  outcome,    \* outcome[r]: the run's status column, "absent" without a row
  answered    \* answered[r]: the run has its assistant message

ledger == <<outcome, answered>>

Decisions == {"completed", "failed", "cancelled"}

Init ==
  /\ outcome = [r \in Runs |-> "absent"]
  /\ answered = [r \in Runs |-> FALSE]

Reserve(r) ==
  /\ outcome[r] = "absent"
  /\ outcome' = [outcome EXCEPT ![r] = "reserved"]
  /\ UNCHANGED answered

\* One transaction may decide several runs (stale-run recovery does).
Decide(S, d) ==
  /\ \A r \in S : outcome[r] = "reserved"
  /\ outcome' = [r \in Runs |-> IF r \in S THEN d ELSE outcome[r]]
  /\ answered' = [r \in Runs |->
                    IF r \in S THEN d = "completed" ELSE answered[r]]

Next ==
  \/ \E r \in Runs : Reserve(r)
  \/ \E S \in SUBSET Runs, d \in Decisions : Decide(S, d)

Spec == Init /\ [][Next]_ledger
=============================================================================
