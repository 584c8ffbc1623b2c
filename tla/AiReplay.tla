------------------------------ MODULE AiReplay ------------------------------
(***************************************************************************)
(* Replay of a run's event log: PostgresStreamDurability.read, driven by   *)
(* GET /v1/ai/chat and by POST with Last-Event-ID, running against the     *)
(* producer, cancellation and recovery of AiRun.                           *)
(*                                                                         *)
(* A replay reads a page of events, and only when the page is empty asks,  *)
(* in a second query, whether the stream is closed.  Events expire one     *)
(* hour after they were written; a replay is admitted only within an hour  *)
(* of the run's start.                                                     *)
(***************************************************************************)
EXTENDS AiRun, FiniteSetsExt

CONSTANTS
  Replays,    \* replay requests
  PageSize    \* readPageSize, in events

ASSUME AiReplayAssumption == PageSize \in Nat \ {0}

VARIABLES
  replay,     \* each replay's place, run, cursor and whether it came late
  hour,       \* an hour has passed since the run's started_at
  expired     \* how many of the run's first events have expired

replayVars == <<replay, hour, expired>>
allVars == <<vars, replay, hour, expired>>

Unused == [at |-> "idle", run |-> NoRun, cursor |-> 0, late |-> FALSE]

ReplayTypeOK ==
  /\ replay \in [Replays ->
       [at : {"idle", "reading", "drained", "ended", "left"},
        run : Runs \cup {NoRun}, cursor : Nat, late : BOOLEAN]]
  /\ \A p \in Replays : replay[p].at # "idle" =>
       replay[p].run \in Runs /\ replay[p].cursor <= Len(log[replay[p].run])
  /\ hour \in [Runs -> BOOLEAN]
  /\ expired \in [Runs -> Nat]
  /\ \A r \in Runs : expired[r] <= Len(log[r])

ReplayInit ==
  /\ Init
  /\ replay = [p \in Replays |-> Unused]
  /\ hour = [r \in Runs |-> FALSE]
  /\ expired = [r \in Runs |-> 0]

\* The run's producer is over and its stream closed: nothing more is written.
Sealed(r) == closed[r] /\ pc[r] \in Ended

\* Mutant: the page query skips the event after the cursor.
PageSkipping(r, cursor) == {i \in DOMAIN log[r] : i > cursor + 1 /\ i > expired[r]}

\* where run_id = $1 and id > $2 and expires_at > now()
Page(r, cursor) == {i \in DOMAIN log[r] : i > cursor /\ i > expired[r]}

\* The client asks for what follows the event it saw last.  The run must be
\* its own (assertOwnedRun: the row exists) and younger than an hour.
StartReplay(p, r, seen) ==
  /\ replay[p].at = "idle"
  /\ status[r] # "absent" /\ ~hour[r]
  /\ replay' = [replay EXCEPT ![p] =
       [at |-> "reading", run |-> r, cursor |-> seen, late |-> Sealed(r)]]
  /\ UNCHANGED <<vars, hour, expired>>

\* Mutant: the cursor advances by a whole page.
PageEndFull(page) == Min(page) + PageSize - 1

\* The cursor after a page: the id of the last event it holds.
PageEnd(page) == Min({Max(page), Min(page) + PageSize - 1})

\* A page of events is handed to the client, or the page comes back empty.
ReadPage(p) ==
  LET page == Page(replay[p].run, replay[p].cursor)
  IN /\ replay[p].at = "reading"
     /\ \/ /\ page = {}
           /\ replay' = [replay EXCEPT ![p].at = "drained"]
        \/ /\ page # {}
           /\ replay' = [replay EXCEPT ![p].cursor = PageEnd(page)]
     /\ UNCHANGED <<vars, hour, expired>>

\* Mutants: an empty page ends the replay; a closed stream does not end it.
EndsReplayAlways(r) == r \in Runs
EndsReplayWhenReserved(r) == status[r] = "reserved"

\* stream_closed_at is set.
EndsReplay(r) == closed[r]

\* The second query: a closed stream ends the replay, an open one is read
\* again after the delay.
CheckClosed(p) ==
  /\ replay[p].at = "drained"
  /\ replay' = [replay EXCEPT ![p].at =
                  IF EndsReplay(replay[p].run) THEN "ended" ELSE "reading"]
  /\ UNCHANGED <<vars, hour, expired>>

\* The client's request is aborted.
LeaveReplay(p) ==
  /\ replay[p].at \in {"reading", "drained"}
  /\ replay' = [replay EXCEPT ![p].at = "left"]
  /\ UNCHANGED <<vars, hour, expired>>

\* An hour has passed since the run started.
PassHour(r) ==
  /\ status[r] # "absent" /\ ~hour[r]
  /\ hour' = [hour EXCEPT ![r] = TRUE]
  /\ UNCHANGED <<vars, replay, expired>>

\* The run's oldest remaining event passes its expires_at; it is hidden from
\* then on, and cleanupRuntimeState deletes it some time later.
ExpireEvent(r) ==
  /\ hour[r] /\ expired[r] < Len(log[r])
  /\ expired' = [expired EXCEPT ![r] = @ + 1]
  /\ UNCHANGED <<vars, replay, hour>>

Replaying ==
  \/ \E p \in Replays :
       \/ \E r \in Runs : \E seen \in 0..Len(log[r]) : StartReplay(p, r, seen)
       \/ ReadPage(p) \/ CheckClosed(p) \/ LeaveReplay(p)
  \/ \E r \in Runs : PassHour(r) \/ ExpireEvent(r)

ReplayNext == (Next /\ UNCHANGED replayVars) \/ Replaying

ReplaySpec == ReplayInit /\ [][ReplayNext]_allVars

\* The replay loop keeps querying; the rest is AiRun's fairness.
ReplayFairSpec ==
  /\ ReplaySpec
  /\ Fairness
  /\ \A p \in Replays : WF_allVars(ReadPage(p)) /\ WF_allVars(CheckClosed(p))

-----------------------------------------------------------------------------
\* A replay that starts after the stream was sealed delivers everything up
\* to the run's last event before it ends.
LateReplayIsComplete ==
  \A p \in Replays :
    replay[p].at = "ended" /\ replay[p].late =>
      replay[p].cursor = Len(log[replay[p].run]) \/ hour[replay[p].run]

\* The end of a replay tells the client that the run is over: no replay
\* ends while its run is still reserved, unless a database call failed.
EndedReplayIsDecided ==
  \A p \in Replays :
    replay[p].at = "ended" /\ faults = 0 => status[replay[p].run] \in Decided

\* A replay that has ended told its client the truth: the run is over, and, if
\* its stream was sealed before, there is nothing more to read.
EndedReplayIsRight == LateReplayIsComplete /\ EndedReplayIsDecided

\* A replay of a completed run ends with its RUN_FINISHED.
ReplayEndsWithVerdict ==
  \A p \in Replays :
    LET r == replay[p].run
    IN replay[p].at = "ended" /\ status[r] = "completed"
         /\ log[r] # <<>> /\ log[r][Len(log[r])] = "finished" /\ ~hour[r]
       => replay[p].cursor = Len(log[r])

\* A replay ends, or its client leaves, or its run's stream is stranded.
ReplayEnds ==
  \A p \in Replays, r \in Runs :
    replay[p].at = "reading" /\ replay[p].run = r ~>
      (replay[p].at \in {"ended", "left"} \/ Stranded(r))
=============================================================================
