------------------------- MODULE OutboxWakeupProofs -------------------------
(***************************************************************************)
(* Theorems about OutboxWakeup, for every set of events, every delay,      *)
(* lease and cadence, and any number of faults.                            *)
(***************************************************************************)
EXTENDS OutboxWakeup, WellFoundedInduction, TLAPS

\* A set of naturals that is not empty has a least element.
LEMMA Least ==
  ASSUME NEW T \in SUBSET Nat, T # {}
  PROVE  \E x \in T : \A y \in T : x <= y
<1>1. \E x \in T : \A y \in T : ~ (<<y, x>> \in OpToRel(<, Nat))
  BY NatLessThanWellFounded, WFMin
<1>2. PICK x \in T : \A y \in T : ~ (<<y, x>> \in OpToRel(<, Nat))
  BY <1>1
<1>3. ASSUME NEW y \in T PROVE x <= y
  <2>1. x \in Nat /\ y \in Nat
    OBVIOUS
  <2>2. ASSUME y < x PROVE <<y, x>> \in {ss \in Nat \X Nat : ss[1] < ss[2]}
    BY <2>1, <2>2
  <2>3. ~(y < x)
    BY <1>2, <2>2, Zenon DEF OpToRel
  <2> QED  BY <2>1, <2>3
<1> QED  BY <1>3

\* nextWakeDelay is no longer than the fallback, nor than any row's delay.
LEMMA DelayIsRight ==
  ASSUME avail \in [Events -> Nat]
  PROVE  NextWakeDelay \in 0..Fallback /\ \A e \in Waiting : NextWakeDelay <= avail[e]
<1> DEFINE T == {avail[e] : e \in Waiting} \cup {Fallback}
<1>1. T \in SUBSET Nat /\ T # {}
  BY WakeupAssumption DEF WakeupAssumption, Waiting
<1>2. PICK d \in T : \A y \in T : d <= y
  BY <1>1, Least
<1>3. d \in 0..Fallback
  BY <1>1, <1>2, WakeupAssumption DEF WakeupAssumption
<1>4. /\ \A e \in Waiting : d <= avail[e]
      /\ d = Fallback \/ \E e \in Waiting : d = avail[e]
  BY <1>2
<1> QED  BY <1>3, <1>4 DEF NextWakeDelay

-----------------------------------------------------------------------------
\* A client is this.connection, or in the hands of connect() or close(), or
\* released.
ClientHasOwner ==
  /\ connection => /\ socket \in {"listening", "lost"}
                   /\ place \notin {"acquiring", "connecting", "unlistening", "closed"}
  /\ ~connection => \/ socket = "none"
                    \/ place \in {"connecting", "unlistening"}
  /\ place \in {"connecting", "unlistening"} => socket # "none"

\* Where the loop relies on its listener there is one, or the pending flag tells
\* of its loss.
ListenerIsKnown ==
  /\ place = "wait" => listening
  /\ place \in {"acquiring", "connecting"} => ~listening
  /\ listening /\ place \in {"process", "processing", "asking", "wait"}
       => connection \/ pending
  /\ place = "parked" => connection

\* From the answer of nextWakeDelay on, every row that becomes available earlier
\* is announced, or the connection is lost, or the wait will not begin.
SleepIsShort ==
  place \in {"wait", "parked"} =>
    \/ place = "wait" /\ pending
    \/ notified
    \/ socket = "lost"
    \/ \A e \in Waiting : timer <= avail[e]

Inv ==
  /\ ListenerInvariant
  /\ ClientHasOwner
  /\ ListenerIsKnown
  /\ SleepIsShort

\* The parts about the loop and its client.
LoopInv ==
  /\ WaitFindsListener /\ NoSleepAfterAbort /\ ClientsAccounted
  /\ ClientHasOwner /\ ListenerIsKnown

LEMMA InitInv == Init => Inv
<1> SUFFICES ASSUME Init PROVE Inv
  OBVIOUS
<1>1. TypeOK
  <2>1. faults \in 0..MaxFaults /\ timer \in Nat /\ borrowed \in Int
    BY WakeupAssumption DEF Init, WakeupAssumption
  <2>2. status \in [Events -> {"absent", "free", "held", "foreign", "published"}]
    BY DEF Init
  <2>3. avail \in [Events -> Nat]
    BY DEF Init
  <2> QED  BY <2>1, <2>2, <2>3, Zenon DEF Init, TypeOK, Places
<1>2. LoopInv
  BY DEF Init, LoopInv, WaitFindsListener, NoSleepAfterAbort, ClientsAccounted,
         ClientHasOwner, ListenerIsKnown
<1>3. SleepIsShort
  BY DEF Init, SleepIsShort
<1> QED  BY <1>1, <1>2, <1>3 DEF Inv, ListenerInvariant, LoopInv

-----------------------------------------------------------------------------
\* The loop and its client, action by action.
LEMMA LoopStep == Inv /\ [Next]_vars => LoopInv'
<1> SUFFICES ASSUME Inv, [Next]_vars PROVE LoopInv'
  OBVIOUS
<1> USE DEF Inv, ListenerInvariant, LoopInv, WaitFindsListener,
            NoSleepAfterAbort, ClientsAccounted, ClientHasOwner, ListenerIsKnown
<1> USE DEF TypeOK, rows, loop, wakeup, Fault, Wake
<1>1. CASE Listen
  BY <1>1 DEF Listen
<1>2. CASE Acquire
  BY <1>2 DEF Acquire
<1>3. CASE AcquireFails
  BY <1>3 DEF AcquireFails
<1>4. CASE ServerListens
  BY <1>4 DEF ServerListens
<1>5. CASE Connected
  BY <1>5 DEF Connected
<1>6. CASE ConnectFails
  BY <1>6 DEF ConnectFails
<1>7. CASE Claim
  BY <1>7 DEF Claim
<1>8. CASE Processed
  BY <1>8 DEF Processed
<1>9. CASE AskDelay
  BY <1>9 DEF AskDelay
<1>10. CASE ProcessorFails
  BY <1>10 DEF ProcessorFails
<1>11. CASE Wait
  BY <1>11 DEF Wait
<1>12. CASE Timeout
  BY <1>12 DEF Timeout
<1>13. CASE Notification
  BY <1>13 DEF Notification
<1>14. CASE LoseConnection
  BY <1>14 DEF LoseConnection
<1>15. CASE Disconnect
  BY <1>15 DEF Disconnect
<1>16. CASE Abort
  BY <1>16 DEF Abort
<1>17. CASE Close
  BY <1>17 DEF Close
<1>18. CASE Unlistened
  BY <1>18 DEF Unlistened
<1>19. CASE Tick
  BY <1>19 DEF Tick
<1>20. CASE \E e \in Events : Publish(e)
  BY <1>20 DEF Publish
<1>21. CASE \E e \in Events : RecordFailure(e)
  BY <1>21 DEF RecordFailure
<1>22. CASE \E e \in Events : Enqueue(e)
  BY <1>22 DEF Enqueue
<1>23. CASE \E e \in Events : ForeignClaim(e)
  BY <1>23 DEF ForeignClaim
<1>24. CASE \E e \in Events : ForeignFinish(e)
  BY <1>24 DEF ForeignFinish
<1>25. CASE UNCHANGED vars
  BY <1>25 DEF vars
<1> QED
  BY <1>1, <1>2, <1>3, <1>4, <1>5, <1>6, <1>7, <1>8, <1>9, <1>10, <1>11, <1>12, <1>13, <1>14, <1>15, <1>16, <1>17, <1>18, <1>19, <1>20, <1>21, <1>22, <1>23, <1>24, <1>25
     DEF Next, Loop, Outside
-----------------------------------------------------------------------------
\* A write leaves the rows of their types.
LEMMA WriteType ==
  ASSUME TypeOK, NEW e \in Events, NEW delay \in Nat,
         NEW s \in {"absent", "free", "held", "foreign", "published"},
         Write(e, s, delay)
  PROVE  /\ status' \in [Events -> {"absent", "free", "held", "foreign", "published"}]
         /\ avail' \in [Events -> Nat]
         /\ notified' \in BOOLEAN
BY DEF TypeOK, Write, Notify

LEMMA TypeStep == TypeOK /\ [Next]_vars => TypeOK'
<1> SUFFICES ASSUME TypeOK, [Next]_vars PROVE TypeOK'
  OBVIOUS
<1> USE WakeupAssumption DEF WakeupAssumption, TypeOK, rows, loop, wakeup, Fault, Wake, Places
<1>1. CASE Listen
  BY <1>1 DEF Listen
<1>2. CASE Acquire
  BY <1>2 DEF Acquire
<1>3. CASE AcquireFails
  BY <1>3 DEF AcquireFails
<1>4. CASE ServerListens
  BY <1>4 DEF ServerListens
<1>5. CASE Connected
  BY <1>5 DEF Connected
<1>6. CASE ConnectFails
  BY <1>6 DEF ConnectFails
<1>7. CASE Claim
  <2>1. status' \in [Events -> {"absent", "free", "held", "foreign", "published"}]
    BY <1>7 DEF Claim
  <2>2. avail' \in [Events -> Nat]
    BY <1>7 DEF Claim
  <2> QED  BY <1>7, <2>1, <2>2 DEF Claim, Claimable, Waiting
<1>8. CASE Processed
  BY <1>8 DEF Processed
<1>9. CASE AskDelay
  <2>1. NextWakeDelay \in Nat /\ Lesser(NextWakeDelay, Degraded) \in Nat
    BY DelayIsRight DEF Lesser
  <2> QED  BY <1>9, <2>1 DEF AskDelay
<1>10. CASE ProcessorFails
  BY <1>10 DEF ProcessorFails
<1>11. CASE Wait
  BY <1>11 DEF Wait
<1>12. CASE Timeout
  BY <1>12 DEF Timeout
<1>13. CASE Notification
  BY <1>13 DEF Notification
<1>14. CASE LoseConnection
  <2>1. faults' \in 0..MaxFaults
    BY <1>14 DEF LoseConnection
  <2> QED  BY <1>14, <2>1, Zenon DEF LoseConnection
<1>15. CASE Disconnect
  <2>1. borrowed' \in Int
    BY <1>15 DEF Disconnect
  <2> QED  BY <1>15, <2>1, Zenon DEF Disconnect
<1>16. CASE Abort
  BY <1>16 DEF Abort
<1>17. CASE Close
  BY <1>17 DEF Close
<1>18. CASE Unlistened
  <2>1. borrowed' \in Int
    BY <1>18 DEF Unlistened
  <2> QED  BY <1>18, <2>1, Zenon DEF Unlistened
<1>19. CASE Tick
  <2>1. avail' \in [Events -> Nat]
    BY <1>19 DEF Tick
  <2>2. timer' \in Nat
    BY <1>19 DEF Tick
  <2> QED  BY <1>19, <2>1, <2>2 DEF Tick
<1>20. CASE \E e \in Events : Publish(e)
  BY <1>20, WriteType DEF Publish, WriteHeld
<1>21. CASE \E e \in Events : RecordFailure(e)
  BY <1>21, WriteType DEF RecordFailure, WriteHeld
<1>22. CASE \E e \in Events : Enqueue(e)
  BY <1>22, WriteType DEF Enqueue, WriteHeld
<1>23. CASE \E e \in Events : ForeignClaim(e)
  BY <1>23, WriteType DEF ForeignClaim, WriteHeld
<1>24. CASE \E e \in Events : ForeignFinish(e)
  BY <1>24, WriteType DEF ForeignFinish, WriteHeld
<1>25. CASE UNCHANGED vars
  BY <1>25 DEF vars
<1> QED
  BY <1>1, <1>2, <1>3, <1>4, <1>5, <1>6, <1>7, <1>8, <1>9, <1>10, <1>11, <1>12, <1>13, <1>14, <1>15, <1>16, <1>17, <1>18, <1>19, <1>20, <1>21, <1>22, <1>23, <1>24, <1>25
     DEF Next, Loop, Outside

-----------------------------------------------------------------------------
LEMMA SleepStep == Inv /\ [Next]_vars => SleepIsShort'
<1> SUFFICES ASSUME Inv, [Next]_vars, place' \in {"wait", "parked"}
             PROVE  SleepIsShort'
  BY DEF SleepIsShort
<1> USE DEF Inv, ListenerInvariant, TypeOK, ClientHasOwner, ListenerIsKnown,
            SleepIsShort, Waiting, rows, loop, wakeup, Fault, Wake
<1>1. CASE Listen
  BY <1>1 DEF Listen
<1>2. CASE Acquire
  BY <1>2 DEF Acquire
<1>3. CASE AcquireFails
  BY <1>3 DEF AcquireFails
<1>4. CASE ServerListens
  BY <1>4 DEF ServerListens
<1>5. CASE Connected
  BY <1>5 DEF Connected
<1>6. CASE ConnectFails
  BY <1>6 DEF ConnectFails
<1>7. CASE Claim
  BY <1>7 DEF Claim
<1>8. CASE Processed
  BY <1>8 DEF Processed
<1>9. CASE AskDelay
  BY <1>9, DelayIsRight DEF AskDelay
<1>10. CASE ProcessorFails
  BY <1>10 DEF ProcessorFails
<1>11. CASE Wait
  BY <1>11 DEF Wait
<1>12. CASE Timeout
  BY <1>12 DEF Timeout
<1>13. CASE Notification
  BY <1>13 DEF Notification
<1>14. CASE LoseConnection
  BY <1>14 DEF LoseConnection
<1>15. CASE Disconnect
  BY <1>15 DEF Disconnect
<1>16. CASE Abort
  BY <1>16 DEF Abort
<1>17. CASE Close
  BY <1>17 DEF Close
<1>18. CASE Unlistened
  BY <1>18 DEF Unlistened
<1>19. CASE Tick
  BY <1>19 DEF Tick
<1>20. CASE \E e \in Events : Publish(e)
  BY <1>20, WakeupAssumption DEF WakeupAssumption, Publish, Write, WriteHeld, Notify, Claimable
<1>21. CASE \E e \in Events : RecordFailure(e)
  BY <1>21, WakeupAssumption DEF WakeupAssumption, RecordFailure, Write, WriteHeld, Notify, Claimable
<1>22. CASE \E e \in Events : Enqueue(e)
  BY <1>22, WakeupAssumption DEF WakeupAssumption, Enqueue, Write, WriteHeld, Notify, Claimable
<1>23. CASE \E e \in Events : ForeignClaim(e)
  BY <1>23, WakeupAssumption DEF WakeupAssumption, ForeignClaim, Write, WriteHeld, Notify, Claimable
<1>24. CASE \E e \in Events : ForeignFinish(e)
  BY <1>24, WakeupAssumption DEF WakeupAssumption, ForeignFinish, Write, WriteHeld, Notify, Claimable
<1>25. CASE UNCHANGED vars
  BY <1>25 DEF vars
<1> QED
  BY <1>1, <1>2, <1>3, <1>4, <1>5, <1>6, <1>7, <1>8, <1>9, <1>10, <1>11, <1>12, <1>13, <1>14, <1>15, <1>16, <1>17, <1>18, <1>19, <1>20, <1>21, <1>22, <1>23, <1>24, <1>25
     DEF Next, Loop, Outside

-----------------------------------------------------------------------------
\* The invariant holds in every reachable state.
THEOREM InductiveInvariant == Spec => []Inv
<1>1. Inv /\ [Next]_vars => Inv'
  BY TypeStep, LoopStep, SleepStep DEF Inv, ListenerInvariant, LoopInv
<1> QED  BY <1>1, InitInv, PTL DEF Spec

\* No wait without a listener, none after the signal, no client leaked or
\* released twice.
THEOREM ListenerIsKept == Spec => []ListenerInvariant
<1>1. Inv => ListenerInvariant
  BY DEF Inv
<1> QED  BY <1>1, InductiveInvariant, PTL

\* No wake-up is lost: a parked worker's timer ends before any row it has not
\* been told of becomes available, unless its connection is lost.
THEOREM WorkersNeverOversleep == Spec => []NeverOversleeps
<1>1. Inv => NeverOversleeps
  BY DEF Inv, SleepIsShort, NeverOversleeps
<1> QED  BY <1>1, InductiveInvariant, PTL
=============================================================================
