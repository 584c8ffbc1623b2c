---------------------------- MODULE AccessProofs ----------------------------
(***************************************************************************)
(* Theorems about who is let in: AuthSession, for any number of accounts,  *)
(* sessions and requests, and then RateLimit, for any limit, window, block *)
(* and skew of the clocks.                                                 *)
(*                                                                         *)
(* A lineage changes at its end only, by a rotation of a session that is   *)
(* of use.  Hence a lineage in which nothing is of use stays as it is, and *)
(* that is what a logout or the second use of a token leaves behind: its   *)
(* walk found every session of use, since retention keeps their ancestors  *)
(* and the advisory lock keeps rotations of the account out.               *)
(***************************************************************************)
EXTENDS AuthSession, RateLimit, TLAPS

\* A set with s that is closed under next has all that is reached from s.
LEMMA ReachLeast ==
  ASSUME NEW next, NEW s, NEW rows, NEW S \in SUBSET rows, s \in S,
         \A x \in S : next[x] \in rows => next[x] \in S
  PROVE  Reach(next, s, rows) \subseteq S
BY DEF Reach

\* What is reached from s is such a set.
LEMMA ReachClosed ==
  ASSUME NEW next, NEW rows, NEW s \in rows
  PROVE  /\ s \in Reach(next, s, rows)
         /\ Reach(next, s, rows) \in SUBSET rows
         /\ \A x \in Reach(next, s, rows) :
              next[x] \in rows => next[x] \in Reach(next, s, rows)
BY DEF Reach

\* A change of next elsewhere does not add to what is reached.
LEMMA ReachElsewhere ==
  ASSUME NEW next, NEW other, NEW rows, NEW s \in rows,
         \A x \in Reach(next, s, rows) : other[x] = next[x]
  PROVE  Reach(other, s, rows) \subseteq Reach(next, s, rows)
<1> DEFINE R == Reach(next, s, rows)
<1>1. s \in R /\ R \in SUBSET rows /\ \A x \in R : next[x] \in rows => next[x] \in R
  BY ReachClosed
<1>2. \A x \in R : other[x] \in rows => other[x] \in R
  BY <1>1
<1> HIDE DEF R
<1>3. Reach(other, s, rows) \subseteq R
  BY <1>1, <1>2, ReachLeast
<1> QED  BY <1>3 DEF R

\* When every session from which d is reached has its row, the walk through
\* the rows reaches d as well.
LEMMA WalkReaches ==
  ASSUME NEW next, NEW all, NEW rows \in SUBSET all, NEW s \in all, NEW d,
         d \in Reach(next, s, all),
         \A x \in all : d \in Reach(next, x, all) => x \in rows
  PROVE  d \in Reach(next, s, rows)
<1> DEFINE R == Reach(next, s, rows)
           T == R \cup {x \in all : d \notin Reach(next, x, all)}
<1>1. s \in rows
  OBVIOUS
<1>2. s \in R /\ R \in SUBSET rows /\ \A x \in R : next[x] \in rows => next[x] \in R
  BY <1>1, ReachClosed
<1>3. ASSUME NEW x \in T, next[x] \in all PROVE next[x] \in T
  <2>1. CASE d \notin Reach(next, next[x], all)
    BY <1>3, <2>1
  <2>2. CASE d \in Reach(next, next[x], all)
    <3>1. next[x] \in rows
      BY <1>3, <2>2
    <3>2. CASE x \in R
      BY <1>2, <3>1, <3>2
    <3>3. CASE x \in all /\ d \notin Reach(next, x, all)
      <4> DEFINE X == Reach(next, x, all)
      <4>1. x \in X /\ X \in SUBSET all /\ \A y \in X : next[y] \in all => next[y] \in X
        BY <3>3, ReachClosed
      <4>2. next[x] \in X
        BY <1>3, <4>1
      <4> HIDE DEF X
      <4>3. Reach(next, next[x], all) \subseteq X
        BY <4>1, <4>2, ReachLeast
      <4> QED  BY <2>2, <3>3, <4>3 DEF X
    <3> QED  BY <1>3, <3>2, <3>3
  <2> QED  BY <2>1, <2>2
<1>4. T \in SUBSET all /\ s \in T
  BY <1>2
<1> HIDE DEF T, R
<1>5. Reach(next, s, all) \subseteq T
  BY <1>3, <1>4, ReachLeast
<1>6. d \in R \/ d \notin Reach(next, d, all)
  BY <1>5 DEF T
<1>7. d \in all
  BY DEF Reach
<1>8. d \in Reach(next, d, all)
  BY <1>7, ReachClosed
<1> QED  BY <1>6, <1>8 DEF R

\* The lineage of an issued session has issued sessions of its account only.
LEMMA LineageFits ==
  ASSUME SuccessorsFit, NEW s \in Issued
  PROVE  /\ s \in Lineage(s)
         /\ Lineage(s) \subseteq Issued
         /\ \A d \in Lineage(s) : owner[d] = owner[s]
<1> DEFINE S == {d \in Issued : owner[d] = owner[s]}
<1>1. S \in SUBSET Sessions /\ s \in S /\ s \in Sessions
  BY DEF Issued
<1>2. \A x \in S : successor[x] \in Sessions => successor[x] \in S
  BY AuthSessionAssumption DEF AuthSessionAssumption, SuccessorsFit, Issued
<1> HIDE DEF S
<1>3. Reach(successor, s, Sessions) \subseteq S
  BY <1>1, <1>2, ReachLeast
<1> QED  BY <1>1, <1>3, ReachClosed DEF S, Lineage

\* Every step keeps every variable within its type.
LEMMA TypeStep ==
  ASSUME TypeOK, LocksHeld, [Next]_vars
  PROVE  TypeOK'
<1> USE DEF table, Issued
<1>0. Idle \in Transactions
  BY DEF Idle, Transactions, Places
<1>g. ASSUME NEW q \in Requests, NEW place \in Places, Goto(q, place)
      PROVE  request' \in [Requests -> Transactions]
  BY <1>g DEF Goto, TypeOK, Transactions
<1>1. ASSUME NEW q \in Requests, Finish(q)
      PROVE  /\ request' \in [Requests ->
                  Transactions]
             /\ advisory' \in [Accounts -> Requests \cup {Nobody}]
  BY <1>0, <1>1 DEF Finish, Unlock, TypeOK
<1>2. ASSUME NEW q \in Requests, NEW a \in Accounts, BeginLogin(q, a) PROVE TypeOK'
  <2>1. request' \in [Requests ->
                  Transactions]
    BY <1>2 DEF BeginLogin, TypeOK, Idle, Transactions, Places
  <2>2. account' \in [Accounts -> {"absent", "active", "deleting", "purged"}]
        /\ \A s \in stored' : account'[owner'[s]] \in {"active", "deleting"}
    BY <1>2 DEF BeginLogin, TypeOK
  <2> QED  BY <1>2, <2>1, <2>2 DEF BeginLogin, TypeOK
<1>3. ASSUME NEW q \in Requests, NEW n \in Sessions, Insert(q, n),
             request[q].account \in Accounts, References(request[q].account),
             account' = account
      PROVE  /\ owner' \in [Sessions -> Accounts \cup {NoAccount}]
             /\ stored' \subseteq Issued' /\ Issued \subseteq Issued'
             /\ \A s \in stored' : account'[owner'[s]] \in {"active", "deleting"}
             /\ age' \in [Sessions -> 0..Retention]
  BY <1>3, AuthSessionAssumption
     DEF Insert, References, TypeOK, AuthSessionAssumption
<1>4. ASSUME NEW q \in Requests, CreateSession(q) PROVE TypeOK'
  <2>1. PICK n \in Sessions : Insert(q, n)
    BY <1>4 DEF CreateSession
  <2>2. request[q].account \in Accounts
    BY <1>4 DEF CreateSession, At, LocksHeld, LockFits
  <2> QED  BY <1>1, <1>3, <1>4, <2>1, <2>2 DEF CreateSession, TypeOK
<1>5. ASSUME NEW q \in Requests, NEW s \in Sessions, BeginRefresh(q, s) PROVE TypeOK'
  <2>1. request' \in [Requests -> Transactions]
    BY <1>5 DEF BeginRefresh, TypeOK, Idle, Transactions, Places
  <2> QED  BY <1>5, <2>1 DEF BeginRefresh, TypeOK
<1>6. ASSUME NEW q \in Requests, NEW s \in Sessions, BeginLogout(q, s) PROVE TypeOK'
  <2>1. request' \in [Requests -> Transactions]
    <3>1. CASE s \in stored
      <4>1. owner[s] \in Accounts
        BY <3>1 DEF TypeOK
      <4>2. request' = [request EXCEPT ![q] =
              [Idle EXCEPT !.at = "waiting", !.op = "logout",
                           !.account = owner[s], !.session = s]]
        BY <1>6, <3>1 DEF BeginLogout
      <4> QED  BY <4>1, <4>2 DEF TypeOK, Idle, Transactions, Places
    <3>2. CASE s \notin stored
      BY <1>6, <3>2 DEF BeginLogout, TypeOK
    <3> QED  BY <3>1, <3>2
  <2>2. ended' \subseteq Issued
    BY <1>6 DEF BeginLogout, TypeOK
  <2> QED  BY <1>6, <2>1, <2>2 DEF BeginLogout, TypeOK
<1>7. ASSUME NEW q \in Requests, TakeLock(q) PROVE TypeOK'
  <2>1. request' \in [Requests -> Transactions]
    BY <1>7, <1>g DEF TakeLock, Places
  <2> QED  BY <1>7, <2>1 DEF TakeLock, TypeOK
<1>8. ASSUME NEW q \in Requests, LockSession(q) PROVE TypeOK'
  <2>1. request[q].session \in Issued
    BY <1>8 DEF LockSession, LocksHeld, LockFits
  <2>2. request' \in [Requests -> Transactions]
        /\ advisory' \in [Accounts -> Requests \cup {Nobody}]
    BY <1>1, <1>8, <1>g DEF LockSession, Places, TypeOK
  <2>3. ended' \subseteq Issued
    BY <1>8, <2>1 DEF LockSession, TypeOK
  <2> QED  BY <1>8, <2>2, <2>3 DEF LockSession, TypeOK
<1>9. ASSUME NEW q \in Requests, LockAccount(q) PROVE TypeOK'
  <2>1. request' \in [Requests -> Transactions]
        /\ advisory' \in [Accounts -> Requests \cup {Nobody}]
    BY <1>1, <1>9, <1>g DEF LockAccount, Places, TypeOK
  <2> QED  BY <1>9, <2>1 DEF LockAccount, TypeOK
<1>10. ASSUME NEW q \in Requests, Rotate(q) PROVE TypeOK'
  <2> DEFINE s == request[q].session
  <2>1. PICK n \in Sessions : Insert(q, n) /\ successor' = [successor EXCEPT ![s] = n]
    BY <1>10 DEF Rotate
  <2>2. /\ s \in Issued /\ request[q].account = owner[s]
        /\ account[request[q].account] = "active"
    BY <1>10 DEF Rotate, At, LocksHeld, LockFits
  <2>3. request[q].account \in Accounts
    BY <2>2 DEF TypeOK
  <2>4. revoked' = revoked \cup {s} /\ Finish(q)
        /\ UNCHANGED <<account, deletion, ended>>
    BY <1>10 DEF Rotate
  <2>5. successor' \in [Sessions -> Sessions \cup {NoSession}]
    BY <2>1 DEF TypeOK
  <2> HIDE DEF s
  <2>6. References(request[q].account)
    BY <2>2 DEF References
  <2> QED  BY <1>1, <1>3, <2>1, <2>2, <2>3, <2>4, <2>5, <2>6 DEF TypeOK
<1>11. ASSUME NEW q \in Requests, Reject(q) PROVE TypeOK'
  BY <1>1, <1>11 DEF Reject, TypeOK
<1>12. ASSUME NEW q \in Requests, WalkLineage(q) PROVE TypeOK'
  <2>1. Walk(request[q].session) \in SUBSET Sessions
    BY DEF Walk, Reach, TypeOK
  <2> HIDE DEF Walk
  <2>2. request' \in [Requests -> Transactions]
    <3> DEFINE w == Walk(request[q].session)
               t == [request[q] EXCEPT !.at = "walked", !.walk = w]
    <3>1. t \in Transactions
      <4>1. w \in SUBSET Sessions /\ request[q] \in Transactions
        BY <2>1 DEF TypeOK
      <4> HIDE DEF w
      <4> QED  BY <4>1 DEF Transactions, Places
    <3>2. request' = [request EXCEPT ![q] = t]
      BY <1>12 DEF WalkLineage, TypeOK, Transactions
    <3> HIDE DEF t
    <3> QED  BY <3>1, <3>2 DEF TypeOK
  <2> QED  BY <1>12, <2>2 DEF WalkLineage, TypeOK
<1>13. ASSUME NEW q \in Requests, RevokeLineage(q) PROVE TypeOK'
  <2>1. request[q].session \in Issued
    BY <1>13 DEF RevokeLineage, LocksHeld, LockFits
  <2> QED  BY <1>1, <1>13, <2>1 DEF RevokeLineage, TypeOK
<1>14. ASSUME NEW q \in Requests, Abort(q) PROVE TypeOK'
  BY <1>1, <1>14 DEF Abort, TypeOK
<1>15. ASSUME NEW a \in Accounts, AbortDeletion(a) PROVE TypeOK'
  BY <1>15 DEF AbortDeletion, TypeOK
<1>16. ASSUME NEW q \in Requests, BreakDeadlock(q) PROVE TypeOK'
  <2>1. request[q].account \in Accounts
    BY <1>16 DEF BreakDeadlock, At, LocksHeld, LockFits, TypeOK
  <2> QED  BY <1>14, <1>15, <1>16, <2>1 DEF BreakDeadlock
<1>17. ASSUME NEW a \in Accounts, MarkDeleted(a) PROVE TypeOK'
  BY <1>17 DEF MarkDeleted, TypeOK
<1>18. ASSUME NEW a \in Accounts, CommitDeletion(a) PROVE TypeOK'
  BY <1>18 DEF CommitDeletion, TypeOK
<1>19. ASSUME NEW a \in Accounts, PurgeAccount(a) PROVE TypeOK'
  BY <1>19 DEF PurgeAccount, TypeOK
<1>20. CASE Cleanup
  BY <1>20 DEF Cleanup, TypeOK
<1>21. CASE Tick
  BY <1>21, AuthSessionAssumption DEF Tick, TypeOK, AuthSessionAssumption
<1>22. CASE UNCHANGED vars
  BY <1>22 DEF vars, TypeOK
<1> QED
  BY <1>2, <1>4, <1>5, <1>6, <1>7, <1>8, <1>9, <1>10, <1>11, <1>12, <1>13,
     <1>14, <1>15, <1>16, <1>17, <1>18, <1>19, <1>20, <1>21, <1>22
     DEF Next, Request, Deletion

\* A rotation replaces a session that is of use, under its account's lock, by
\* one that was never issued.
LEMMA RotateMoves ==
  ASSUME TypeOK, LocksHeld, NEW q \in Requests, Rotate(q)
  PROVE  LET s == request[q].session
         IN /\ s \in Issued /\ Usable(s)
            /\ request[q].account = owner[s] /\ advisory[owner[s]] = q
            /\ revoked' = revoked \cup {s}
            /\ account' = account
            /\ \E n \in Sessions \ Issued :
                 /\ owner' = [owner EXCEPT ![n] = owner[s]]
                 /\ stored' = stored \cup {n}
                 /\ age' = [age EXCEPT ![n] = 0]
                 /\ successor' = [successor EXCEPT ![s] = n]
<1> DEFINE s == request[q].session
<1>1. s \in Issued /\ s \in stored /\ request[q].account = owner[s]
      /\ advisory[owner[s]] = q /\ account[owner[s]] = "active"
  BY DEF Rotate, At, LocksHeld, LockFits
<1>2. Usable(s)
  BY <1>1 DEF Rotate, Redeemable, Usable, AccessActive
<1>3. PICK n \in Sessions : Insert(q, n) /\ successor' = [successor EXCEPT ![s] = n]
  BY DEF Rotate
<1>4. n \notin Issued
  BY <1>3 DEF Insert, Issued
<1> QED  BY <1>1, <1>2, <1>3, <1>4 DEF Rotate, Insert

\* A step either is a rotation or leaves every successor as it is.
LEMMA SuccessorMoves ==
  ASSUME [Next]_vars
  PROVE  successor' = successor \/ \E q \in Requests : Rotate(q)
BY DEF Next, Request, Deletion, vars, table, BeginLogin, CreateSession,
   BeginRefresh, BeginLogout, TakeLock, LockSession, LockAccount, Reject,
   WalkLineage, RevokeLineage, Abort, AbortDeletion, BreakDeadlock,
   MarkDeleted, CommitDeletion, PurgeAccount, Cleanup, Tick

\* What no step undoes: an issued session keeps its owner, ages, stays
\* revoked and stays deleted, and a deleted account does not come back.
LEMMA RowsMove ==
  ASSUME TypeOK, LocksHeld, [Next]_vars
  PROVE  /\ revoked \subseteq revoked'
         /\ Issued \subseteq Issued' /\ Issued' \subseteq Issued \cup stored'
         /\ stored' \cap Issued \subseteq stored
         /\ \A s \in Issued : owner'[s] = owner[s] /\ age'[s] >= age[s]
         /\ \A a \in Accounts :
              /\ account'[a] = "active" => account[a] \in {"absent", "active"}
              /\ account[a] = "purged" => account'[a] = "purged"
<1> DEFINE Goal ==
      /\ revoked \subseteq revoked'
      /\ Issued \subseteq Issued' /\ Issued' \subseteq Issued \cup stored'
      /\ stored' \cap Issued \subseteq stored
      /\ \A s \in Issued : owner'[s] = owner[s] /\ age'[s] >= age[s]
      /\ \A a \in Accounts :
           /\ account'[a] = "active" => account[a] \in {"absent", "active"}
           /\ account[a] = "purged" => account'[a] = "purged"
<1>a. \A s \in Issued : s \in Sessions /\ age[s] \in Nat
  BY AuthSessionAssumption DEF TypeOK, Issued, AuthSessionAssumption
<1>1. ASSUME UNCHANGED <<account, owner, age>>,
             revoked \subseteq revoked', stored' \subseteq stored
      PROVE  Goal
  BY <1>a, <1>1 DEF Issued
<1>2. ASSUME NEW n \in Sessions \ Issued, NEW a \in Accounts,
             owner' = [owner EXCEPT ![n] = a], stored' = stored \cup {n},
             age' = [age EXCEPT ![n] = 0], revoked \subseteq revoked',
             account' = account
      PROVE  Goal
  BY <1>a, <1>2, AuthSessionAssumption DEF Issued, TypeOK, AuthSessionAssumption
<1>3. ASSUME NEW q \in Requests, CreateSession(q) PROVE Goal
  <2>1. PICK n \in Sessions : Insert(q, n)
    BY <1>3 DEF CreateSession
  <2>2. request[q].account \in Accounts
    BY <1>3 DEF CreateSession, At, LocksHeld, LockFits
  <2> QED  BY <1>2, <1>3, <2>1, <2>2 DEF CreateSession, Insert, Issued
<1>4. ASSUME NEW q \in Requests, Rotate(q) PROVE Goal
  <2>1. owner[request[q].session] \in Accounts
    BY <1>4, RotateMoves DEF TypeOK, Issued
  <2> QED  BY <1>2, <1>4, <2>1, RotateMoves
<1>5. ASSUME NEW q \in Requests, NEW a \in Accounts, BeginLogin(q, a) PROVE Goal
  BY <1>a, <1>5 DEF BeginLogin, table, Issued, TypeOK
<1>6. ASSUME NEW a \in Accounts, CommitDeletion(a) \/ PurgeAccount(a) PROVE Goal
  <2>1. CASE CommitDeletion(a)
    <3>1. /\ account' = [account EXCEPT ![a] = "deleting"] /\ account[a] = "active"
          /\ UNCHANGED <<owner, stored, age>> /\ revoked \subseteq revoked'
      BY <2>1 DEF CommitDeletion, LocksHeld
    <3> QED  BY <1>a, <3>1 DEF Issued, TypeOK
  <2>2. CASE PurgeAccount(a)
    <3>1. /\ account' = [account EXCEPT ![a] = "purged"] /\ account[a] = "deleting"
          /\ UNCHANGED <<owner, revoked, age>> /\ stored' \subseteq stored
      BY <2>2 DEF PurgeAccount
    <3> QED  BY <1>a, <3>1 DEF Issued, TypeOK
  <2> QED  BY <1>6, <2>1, <2>2
<1>7. ASSUME Tick PROVE Goal
  <2>1. UNCHANGED <<account, owner, stored, revoked>>
    BY <1>7 DEF Tick, table
  <2>2. \A s \in Issued : age'[s] >= age[s]
    BY <1>a, <1>7 DEF Tick
  <2> QED  BY <2>1, <2>2 DEF Issued
<1>8. ASSUME NEW q \in Requests,
             \/ \E s \in Sessions : BeginRefresh(q, s) \/ BeginLogout(q, s)
             \/ TakeLock(q) \/ LockSession(q) \/ LockAccount(q) \/ Reject(q)
             \/ WalkLineage(q) \/ RevokeLineage(q) \/ Abort(q) \/ BreakDeadlock(q)
      PROVE  Goal
  BY <1>1, <1>8 DEF BeginRefresh, BeginLogout, TakeLock, LockSession,
     LockAccount, Reject, WalkLineage, RevokeLineage, Abort, BreakDeadlock,
     AbortDeletion, table
<1>9. ASSUME UNCHANGED vars PROVE Goal
  BY <1>1, <1>9 DEF vars
<1>13. ASSUME Cleanup PROVE Goal
  BY <1>1, <1>13 DEF Cleanup
<1>14. ASSUME NEW a \in Accounts, MarkDeleted(a) \/ AbortDeletion(a) PROVE Goal
  BY <1>1, <1>14 DEF table, MarkDeleted, AbortDeletion
<1> HIDE DEF Goal
<1>10. ASSUME NEW q \in Requests, Request(q) PROVE Goal
  BY <1>3, <1>4, <1>5, <1>8, <1>10 DEF Request
<1>11. ASSUME NEW a \in Accounts, Deletion(a) PROVE Goal
  BY <1>6, <1>11, <1>14 DEF Deletion
<1>12. Goal
  BY <1>7, <1>9, <1>10, <1>11, <1>13 DEF Next
<1> QED  BY <1>12 DEF Goal

\* No step makes an issued session of use again.
LEMMA UsableShrinks ==
  ASSUME TypeOK, LocksHeld, [Next]_vars, NEW d \in Issued, Usable(d)'
  PROVE  Usable(d)
<1>1. d \in stored' /\ d \notin revoked' /\ account'[owner'[d]] = "active"
      /\ age'[d] < Lifetime
  BY DEF Usable, AccessActive
<1>2. d \in stored /\ d \notin revoked /\ owner'[d] = owner[d] /\ age'[d] >= age[d]
  BY <1>1, RowsMove
<1>3. owner[d] \in Accounts /\ account[owner[d]] \in {"active", "deleting"}
  BY <1>2 DEF TypeOK, Issued
<1>4. account[owner[d]] = "active"
  BY <1>1, <1>2, <1>3, RowsMove
<1>5. age[d] \in Nat /\ age'[d] \in Nat /\ Lifetime \in Nat
  <2>1. TypeOK'
    BY TypeStep
  <2> QED  BY <2>1, AuthSessionAssumption DEF TypeOK, Issued, AuthSessionAssumption
<1>6. age[d] < Lifetime
  BY <1>1, <1>2, <1>5
<1> QED  BY <1>2, <1>4, <1>6 DEF Usable, AccessActive

\* A lineage changes only when one of its sessions is rotated.
LEMMA LineageMoves ==
  ASSUME TypeOK, LocksHeld, [Next]_vars, NEW s \in Issued,
         \A q \in Requests : Rotate(q) => request[q].session \notin Lineage(s)
  PROVE  Lineage(s)' \subseteq Lineage(s)
<1> s \in Sessions
  BY DEF Issued
<1>1. \A x \in Lineage(s) : successor'[x] = successor[x]
  <2>1. CASE successor' = successor
    BY <2>1
  <2>2. ASSUME NEW q \in Requests, Rotate(q)
        PROVE  \A x \in Lineage(s) : successor'[x] = successor[x]
    <3>1. PICK n \in Sessions : successor' = [successor EXCEPT ![request[q].session] = n]
      BY <2>2, RotateMoves
    <3>2. Lineage(s) \subseteq Sessions
      BY DEF Lineage, Reach
    <3> QED  BY <2>2, <3>1, <3>2 DEF TypeOK
  <2> QED  BY <2>1, <2>2, SuccessorMoves
<1>2. Reach(successor', s, Sessions) \subseteq Reach(successor, s, Sessions)
  BY <1>1, ReachElsewhere DEF Lineage
<1> QED  BY <1>2 DEF Lineage, Reach

\* Only a rotation gives a successor, and revokes what it replaces.
LEMMA SuccessorsStep ==
  ASSUME TypeOK, LocksHeld, SuccessorsFit, [Next]_vars
  PROVE  SuccessorsFit'
<1>1. /\ revoked \subseteq revoked' /\ Issued \subseteq Issued'
      /\ \A s \in Issued : owner'[s] = owner[s]
  BY RowsMove
<1>2. \A s \in Sessions : successor[s] # NoSession => s \in Issued
  BY DEF SuccessorsFit, TypeOK
<1>3. ASSUME successor' = successor PROVE SuccessorsFit'
  BY <1>1, <1>2, <1>3 DEF SuccessorsFit
<1>4. ASSUME NEW q \in Requests, Rotate(q) PROVE SuccessorsFit'
  <2> DEFINE p == request[q].session
  <2>1. PICK n \in Sessions \ Issued :
          /\ owner' = [owner EXCEPT ![n] = owner[p]]
          /\ successor' = [successor EXCEPT ![p] = n]
    BY <1>4, RotateMoves
  <2>2. p \in Issued /\ revoked' = revoked \cup {p} /\ owner[p] # NoAccount
    BY <1>4, RotateMoves DEF Issued
  <2> HIDE DEF p
  <2>3. SUFFICES ASSUME NEW s \in Sessions, successor'[s] # NoSession
                 PROVE  /\ s \in revoked' /\ successor'[s] \in Issued'
                        /\ owner'[successor'[s]] = owner'[s]
    BY DEF SuccessorsFit
  <2>4. CASE s = p
    <3>1. successor'[s] = n /\ owner'[n] = owner[p] /\ n # p /\ owner'[p] = owner[p]
      BY <2>1, <2>2, <2>4 DEF TypeOK, Issued
    <3> QED  BY <2>2, <2>4, <3>1 DEF Issued
  <2>5. CASE s # p
    <3>1. successor'[s] = successor[s]
      BY <2>1, <2>5 DEF TypeOK
    <3> QED  BY <1>1, <1>2, <2>3, <3>1 DEF SuccessorsFit
  <2> QED  BY <2>4, <2>5
<1> QED  BY <1>3, <1>4, SuccessorMoves

\* A transaction that is not touched still fits when what it relies on stays.
LEMMA LockStays ==
  ASSUME TypeOK, LocksHeld, NEW q \in Requests, request'[q] = request[q],
         Issued \subseteq Issued', \A s \in Issued : owner'[s] = owner[s],
         \A a \in Accounts : advisory[a] = q => advisory'[a] = q,
         ~SessionFree(request[q].session) /\ request[q].session \in stored =>
           request[q].session \in stored',
         \A a \in Accounts : HoldsAccount(q, a) =>
           account'[a] = account[a] /\ deletion'[a] = deletion[a]
  PROVE  LockFits(q)'
<1> DEFINE r == request[q]
<1>1. LockFits(q) /\ r \in Transactions
  BY DEF LocksHeld, TypeOK
<1>2. r.session \in Issued => r.session \in Issued' /\ owner'[r.session] = owner[r.session]
  OBVIOUS
<1>3. r.at \in {"session", "rows", "walked"} => r.session \in stored'
  BY <1>1 DEF LockFits, SessionFree, HoldsSession
<1>4. r.at \in {"locked", "session", "rows", "walked"} => advisory'[r.account] = q
  <2>1. r.session \in Issued => owner[r.session] \in Accounts
    BY DEF TypeOK, Issued
  <2> QED  BY <1>1, <2>1 DEF LockFits
<1>5. r.at \in {"rows", "walked"} /\ r.op = "refresh" =>
        account'[r.account] = "active" /\ deletion'[r.account] = "idle"
  <2>1. r.session \in Issued => owner[r.session] \in Accounts
    BY DEF TypeOK, Issued
  <2> QED  BY <1>1, <2>1 DEF LockFits, HoldsAccount
<1> QED  BY <1>1, <1>2, <1>3, <1>4, <1>5 DEF LockFits

\* Every transaction has the locks of its place, and no deletion changes what
\* they protect.
LEMMA LocksStep ==
  ASSUME TypeOK, LocksHeld, SuccessorsFit, [Next]_vars
  PROVE  LocksHeld'
<1> DEFINE Others(q) ==
      /\ \A p \in Requests \ {q} : request'[p] = request[p]
      /\ \A a \in Accounts, p \in Requests \ {q} :
           advisory[a] = p => advisory'[a] = p
<1>1. /\ Issued \subseteq Issued'
      /\ \A s \in Issued : owner'[s] = owner[s]
  BY RowsMove
<1>2. \A q \in Requests, a \in Accounts :
        HoldsAccount(q, a) => account[a] = "active" /\ deletion[a] = "idle"
  BY DEF HoldsAccount, LocksHeld, LockFits
<1>3. ASSUME NEW q \in Requests, Others(q), LockFits(q)', stored \subseteq stored',
             deletion' = deletion,
             \A a \in Accounts : account[a] = "active" => account'[a] = "active"
      PROVE  LocksHeld'
  <2>1. ASSUME NEW p \in Requests \ {q} PROVE LockFits(p)'
    BY <1>1, <1>2, <1>3, LockStays
  <2> QED  BY <1>3, <2>1 DEF LocksHeld
<1>4. ASSUME NEW q \in Requests, Finish(q) PROVE Others(q) /\ LockFits(q)'
  <2>1. request'[q] = Idle /\ Others(q)
    BY <1>4 DEF Finish, Unlock, TypeOK
  <2> HIDE DEF Others
  <2>2. LockFits(q)'
    BY <2>1 DEF LockFits, Idle
  <2> QED  BY <2>1, <2>2
<1>5. ASSUME NEW q \in Requests, Finish(q), stored \subseteq stored',
             UNCHANGED <<account, deletion>>
      PROVE  LocksHeld'
  BY <1>3, <1>4, <1>5
<1>6. ASSUME NEW q \in Requests, NEW t, request' = [request EXCEPT ![q] = t],
             UNCHANGED <<deletion, stored, owner, advisory>>,
             \A a \in Accounts : account[a] = "active" => account'[a] = "active",
             LockFits(q)'
      PROVE  LocksHeld'
  <2>1. Others(q)
    BY <1>6 DEF TypeOK
  <2> QED  BY <1>3, <1>6, <2>1
<1>7. ASSUME UNCHANGED <<request, advisory>>,
             \A s \in stored \ stored' : SessionFree(s),
             \A q \in Requests, a \in Accounts : HoldsAccount(q, a) =>
               account'[a] = account[a] /\ deletion'[a] = deletion[a],
             \A a \in Accounts : deletion'[a] = "marked" => account'[a] = "active"
      PROVE  LocksHeld'
  <2>1. ASSUME NEW p \in Requests PROVE LockFits(p)'
    BY <1>1, <1>7, LockStays
  <2> QED  BY <1>7, <2>1 DEF LocksHeld
<1>8. ASSUME NEW q \in Requests, NEW a \in Accounts, BeginLogin(q, a) PROVE LocksHeld'
  <2> DEFINE t == [Idle EXCEPT !.at = "found", !.op = "login", !.account = a]
  <2>1. request' = [request EXCEPT ![q] = t] /\ request'[q] = t
    BY <1>8 DEF BeginLogin, TypeOK
  <2>4. t.at = "found" /\ t.op = "login" /\ t.account = a
    BY DEF Idle
  <2> HIDE DEF t
  <2>2. LockFits(q)'
    BY <2>1, <2>4 DEF LockFits
  <2>3. \A b \in Accounts : account[b] = "active" => account'[b] = "active"
    BY <1>8 DEF BeginLogin, TypeOK
  <2> QED  BY <1>6, <1>8, <2>1, <2>2, <2>3 DEF BeginLogin, table
<1>9. ASSUME NEW q \in Requests, NEW s \in stored, NEW op \in {"refresh", "logout"},
             request' = [request EXCEPT ![q] =
               [Idle EXCEPT !.at = "waiting", !.op = op,
                            !.account = owner[s], !.session = s]],
             UNCHANGED <<account, deletion, table, advisory>>
      PROVE  LocksHeld'
  <2> DEFINE t == [Idle EXCEPT !.at = "waiting", !.op = op,
                               !.account = owner[s], !.session = s]
  <2>1. request' = [request EXCEPT ![q] = t] /\ request'[q] = t
    BY <1>9 DEF TypeOK
  <2>2. s \in Issued'
    BY <1>1 DEF TypeOK
  <2>3. LockFits(q)'
    BY <1>9, <2>1, <2>2 DEF LockFits, Idle, table
  <2> QED  BY <1>6, <1>9, <2>1, <2>3 DEF table
<1>10. ASSUME NEW q \in Requests, NEW s \in Sessions, BeginRefresh(q, s)
       PROVE  LocksHeld'
  BY <1>9, <1>10 DEF BeginRefresh
<1>11. ASSUME NEW q \in Requests, NEW s \in Sessions, BeginLogout(q, s)
       PROVE  LocksHeld'
  <2>1. CASE s \in stored
    BY <1>9, <1>11, <2>1 DEF BeginLogout
  <2>2. CASE s \notin stored
    <3>1. UNCHANGED <<request, advisory, stored, account, deletion>>
      BY <1>11, <2>2 DEF BeginLogout, table
    <3> QED  BY <1>7, <3>1 DEF LocksHeld
  <2> QED  BY <2>1, <2>2
<1>12. ASSUME NEW q \in Requests, NEW place \in Places \ {"idle", "found"},
              request[q].at \in {"waiting", "locked", "session", "rows", "walked"},
              Goto(q, place), UNCHANGED <<account, deletion, table>>,
              Others(q), advisory'[request[q].account] = q,
              request[q].session \in stored \/ place = "locked",
              place = "rows" => request[q].op = "refresh",
              place \in {"rows", "walked"} /\ request[q].op = "refresh" =>
                AccountLive(request[q].account) /\ deletion[request[q].account] = "idle"
       PROVE  LocksHeld'
  <2> DEFINE r == request[q]
  <2>1. LockFits(q)
    BY DEF LocksHeld
  <2>2. /\ request'[q].at = place /\ request'[q].op = r.op
        /\ request'[q].account = r.account /\ request'[q].session = r.session
    BY <1>12 DEF Goto, TypeOK, Transactions
  <2>3. r.session \in Issued' /\ owner'[r.session] = r.account
    BY <1>1, <1>12, <2>1 DEF LockFits
  <2>4. LockFits(q)'
    BY <1>12, <2>1, <2>2, <2>3 DEF LockFits, table, AccountLive
  <2> QED  BY <1>3, <1>12, <2>4 DEF table
<1>13. ASSUME NEW q \in Requests, NEW place, Goto(q, place), UNCHANGED advisory
       PROVE  Others(q)
  BY <1>13 DEF Goto, TypeOK
<1>14. ASSUME NEW q \in Requests, TakeLock(q) PROVE LocksHeld'
  <2>1. Goto(q, "locked") /\ request[q].at = "waiting"
        /\ advisory[request[q].account] = Nobody
        /\ advisory' = [advisory EXCEPT ![request[q].account] = q]
        /\ UNCHANGED <<account, deletion, table>>
    BY <1>14 DEF TakeLock
  <2>2. request[q].account \in Accounts
    BY <2>1 DEF LocksHeld, LockFits, TypeOK, Issued
  <2>3. Others(q) /\ advisory'[request[q].account] = q
    BY <2>1, <2>2, AuthSessionAssumption DEF Goto, TypeOK, AuthSessionAssumption
  <2> QED  BY <1>12, <2>1, <2>3 DEF Places
<1>15. ASSUME NEW q \in Requests, LockSession(q) PROVE LocksHeld'
  <2>1. advisory[request[q].account] = q /\ request[q].at = "locked"
    BY <1>15 DEF LockSession, LocksHeld, LockFits
  <2>2. UNCHANGED <<account, deletion, table>>
        /\ \/ Finish(q)
           \/ Goto(q, "session") /\ UNCHANGED advisory /\ request[q].session \in stored
    BY <1>15 DEF LockSession
  <2>3. CASE Finish(q)
    BY <1>5, <2>2, <2>3 DEF table
  <2>4. CASE Goto(q, "session") /\ UNCHANGED advisory /\ request[q].session \in stored
    <3>1. Others(q)
      BY <1>13, <2>4
    <3> QED  BY <1>12, <2>1, <2>2, <2>4, <3>1 DEF Places
  <2> QED  BY <2>2, <2>3, <2>4
<1>16. ASSUME NEW q \in Requests, LockAccount(q) PROVE LocksHeld'
  <2>1. /\ advisory[request[q].account] = q /\ request[q].at = "session"
        /\ request[q].session \in stored /\ request[q].op = "refresh"
        /\ deletion[request[q].account] = "idle"
    BY <1>16 DEF LockAccount, At, AccountFree, LocksHeld, LockFits
  <2>2. UNCHANGED <<account, deletion, table>>
        /\ \/ Finish(q)
           \/ Goto(q, "rows") /\ UNCHANGED advisory /\ AccountLive(request[q].account)
    BY <1>16 DEF LockAccount
  <2>3. CASE Finish(q)
    BY <1>5, <2>2, <2>3 DEF table
  <2>4. CASE Goto(q, "rows") /\ UNCHANGED advisory /\ AccountLive(request[q].account)
    <3>1. Others(q)
      BY <1>13, <2>4
    <3> QED  BY <1>12, <2>1, <2>2, <2>4, <3>1 DEF Places
  <2> QED  BY <2>2, <2>3, <2>4
<1>17. ASSUME NEW q \in Requests, WalkLineage(q) PROVE LocksHeld'
  <2> DEFINE r == request[q]
             t == [r EXCEPT !.at = "walked", !.walk = Walk(r.session)]
  <2>1. LockFits(q) /\ (At(q, "refresh", "rows") \/ At(q, "logout", "session"))
        /\ UNCHANGED <<account, deletion, table, advisory>>
    BY <1>17 DEF WalkLineage, LocksHeld
  <2>2. request' = [request EXCEPT ![q] = t] /\ request'[q] = t
    BY <1>17 DEF WalkLineage, TypeOK, Transactions
  <2>3. t.at = "walked" /\ t.op = r.op /\ t.account = r.account /\ t.session = r.session
    BY DEF TypeOK, Transactions
  <2> HIDE DEF t
  <2>4. LockFits(q)'
    BY <1>1, <2>1, <2>2, <2>3 DEF LockFits, At, table
  <2> QED  BY <1>6, <2>1, <2>2, <2>4 DEF table
<1>18. ASSUME NEW q \in Requests,
              CreateSession(q) \/ Rotate(q) \/ Reject(q) \/ RevokeLineage(q) \/ Abort(q)
       PROVE  LocksHeld'
  <2>1. Finish(q) /\ stored \subseteq stored' /\ UNCHANGED <<account, deletion>>
    BY <1>18 DEF CreateSession, Rotate, Insert, Reject, RevokeLineage, Abort, table
  <2> QED  BY <1>5, <2>1
<1>19. ASSUME NEW a \in Accounts, MarkDeleted(a) PROVE LocksHeld'
  <2>1. UNCHANGED <<request, advisory, stored, account>>
    BY <1>19 DEF MarkDeleted, table
  <2>2. \A q \in Requests, b \in Accounts : HoldsAccount(q, b) => deletion'[b] = deletion[b]
    BY <1>19 DEF MarkDeleted, AccountFree, TypeOK
  <2>3. \A b \in Accounts : deletion'[b] = "marked" => account'[b] = "active"
    BY <1>19 DEF MarkDeleted, LocksHeld, TypeOK
  <2> QED  BY <1>7, <2>1, <2>2, <2>3
<1>20. ASSUME NEW a \in Accounts, CommitDeletion(a) PROVE LocksHeld'
  <2>1. UNCHANGED <<request, advisory, stored>>
    BY <1>20 DEF CommitDeletion
  <2>2. \A q \in Requests, b \in Accounts : HoldsAccount(q, b) =>
          account'[b] = account[b] /\ deletion'[b] = deletion[b]
    BY <1>2, <1>20 DEF CommitDeletion, TypeOK
  <2>3. \A b \in Accounts : deletion'[b] = "marked" => account'[b] = "active"
    BY <1>20 DEF CommitDeletion, LocksHeld, TypeOK
  <2> QED  BY <1>7, <2>1, <2>2, <2>3
<1>21. ASSUME NEW a \in Accounts, AbortDeletion(a) PROVE LocksHeld'
  <2>1. UNCHANGED <<request, advisory, stored, account>>
    BY <1>21 DEF AbortDeletion, table
  <2>2. \A q \in Requests, b \in Accounts : HoldsAccount(q, b) => deletion'[b] = deletion[b]
    BY <1>2, <1>21 DEF AbortDeletion, TypeOK
  <2>3. \A b \in Accounts : deletion'[b] = "marked" => account'[b] = "active"
    BY <1>21 DEF AbortDeletion, LocksHeld, TypeOK
  <2> QED  BY <1>7, <2>1, <2>2, <2>3
<1>22. ASSUME NEW a \in Accounts, PurgeAccount(a) PROVE LocksHeld'
  <2>1. UNCHANGED <<request, advisory, deletion>>
        /\ \A s \in stored \ stored' : SessionFree(s)
    BY <1>22 DEF PurgeAccount
  <2>2. \A q \in Requests, b \in Accounts : HoldsAccount(q, b) => account'[b] = account[b]
    BY <1>22 DEF PurgeAccount, AccountFree, TypeOK
  <2>3. \A b \in Accounts : deletion'[b] = "marked" => account'[b] = "active"
    BY <1>22 DEF PurgeAccount, LocksHeld, TypeOK
  <2> QED  BY <1>7, <2>1, <2>2, <2>3
<1>23. ASSUME Cleanup PROVE LocksHeld'
  <2>1. UNCHANGED <<request, advisory, deletion, account>>
        /\ \A s \in stored \ stored' : SessionFree(s)
    BY <1>23 DEF Cleanup
  <2> QED  BY <1>7, <2>1 DEF LocksHeld
<1>24. ASSUME Tick \/ UNCHANGED vars PROVE LocksHeld'
  <2>1. UNCHANGED <<request, advisory, deletion, account, stored>>
    BY <1>24 DEF Tick, vars, table
  <2> QED  BY <1>7, <2>1 DEF LocksHeld
<1>25. ASSUME NEW q \in Requests, BreakDeadlock(q) PROVE LocksHeld'
  <2>1. request[q].account \in Accounts
    BY <1>25 DEF BreakDeadlock, At, LocksHeld, LockFits, TypeOK, Issued
  <2> QED  BY <1>18, <1>21, <1>25, <2>1 DEF BreakDeadlock
<1>26. ASSUME NEW q \in Requests, Request(q) PROVE LocksHeld'
  BY <1>8, <1>10, <1>11, <1>14, <1>15, <1>16, <1>17, <1>18, <1>25, <1>26 DEF Request
<1>27. ASSUME NEW a \in Accounts, Deletion(a) PROVE LocksHeld'
  BY <1>19, <1>20, <1>21, <1>22, <1>27 DEF Deletion
<1> QED  BY <1>23, <1>24, <1>26, <1>27 DEF Next

\* Only sessions that expired long ago or whose account is gone lose a row of
\* their lineage, so none that is of use does.
LEMMA DeletedIsUseless ==
  ASSUME TypeOK, RowsKept, NEW s \in Issued \ stored, NEW d \in Lineage(s)
  PROVE  ~Usable(d)
BY AuthSessionAssumption
   DEF RowsKept, Usable, AccessActive, AuthSessionAssumption, TypeOK

\* The walk through the rows finds every session of the lineage whose
\* retention has not run out.
LEMMA WalkFinds ==
  ASSUME TypeOK, SuccessorsFit, RowsKept, NEW s \in stored,
         NEW d \in Lineage(s), age[d] # Retention
  PROVE  d \in Walk(s)
<1>1. s \in Issued /\ stored \subseteq Sessions /\ Issued \subseteq Sessions
  BY DEF TypeOK, Issued
<1>2. d \in Issued /\ owner[d] = owner[s]
  BY <1>1, LineageFits
<1>3. account[owner[d]] # "purged"
  BY <1>2 DEF TypeOK
<1>4. ASSUME NEW x \in Sessions, d \in Lineage(x) PROVE x \in stored
  <2>1. CASE x \in Issued
    BY <1>3, <1>4, <2>1 DEF RowsKept
  <2>2. CASE x \notin Issued
    <3>1. successor[x] \notin Sessions
      BY <2>2, AuthSessionAssumption
         DEF SuccessorsFit, TypeOK, AuthSessionAssumption
    <3> DEFINE S == {x}
    <3>2. S \in SUBSET Sessions /\ x \in S
          /\ \A y \in S : successor[y] \in Sessions => successor[y] \in S
      BY <1>4, <3>1
    <3> HIDE DEF S
    <3>3. Reach(successor, x, Sessions) \subseteq S
      BY <3>2, ReachLeast
    <3> QED  BY <1>2, <1>4, <2>2, <3>3 DEF Lineage, S
  <2> QED  BY <2>1, <2>2
<1> QED  BY <1>1, <1>4, WalkReaches DEF Lineage, Walk

\* A lineage in which nothing is of use stays so: nobody can prolong it.
LEMMA UselessLineage ==
  ASSUME TypeOK, LocksHeld, SuccessorsFit, [Next]_vars, NEW s \in Issued,
         \A d \in Lineage(s) : ~Usable(d)
  PROVE  /\ Lineage(s)' \subseteq Lineage(s)
         /\ \A d \in Lineage(s)' : ~Usable(d)'
<1>1. \A q \in Requests : Rotate(q) => request[q].session \notin Lineage(s)
  BY RotateMoves
<1>2. Lineage(s)' \subseteq Lineage(s)
  BY <1>1, LineageMoves
<1>3. Lineage(s) \subseteq Issued
  BY LineageFits
<1>4. ASSUME NEW d \in Lineage(s)', Usable(d)' PROVE FALSE
  BY <1>2, <1>3, <1>4, UsableShrinks
<1> QED  BY <1>2, <1>4

\* A row goes with its account or by retention.
LEMMA RowsGo ==
  ASSUME [Next]_vars, NEW s \in stored \ stored'
  PROVE  Cleanup \/ \E a \in Accounts : PurgeAccount(a) /\ owner[s] = a
<1>1. stored \subseteq stored' \/ Cleanup \/ \E a \in Accounts : PurgeAccount(a)
  BY DEF Next, Request, Deletion, vars, table, BeginLogin, CreateSession, Insert,
     BeginRefresh, BeginLogout, TakeLock, LockSession, LockAccount, Rotate,
     Reject, WalkLineage, RevokeLineage, Abort, AbortDeletion, BreakDeadlock,
     MarkDeleted, CommitDeletion, Tick
<1>2. ASSUME NEW a \in Accounts, PurgeAccount(a) PROVE owner[s] = a
  BY <1>2 DEF PurgeAccount
<1> QED  BY <1>1, <1>2

\* Retention and purges delete no row before the whole lineage is of no use.
LEMMA RowsKeptStep ==
  ASSUME TypeOK, LocksHeld, SuccessorsFit, RowsKept, [Next]_vars
  PROVE  RowsKept'
<1> SUFFICES ASSUME NEW s \in Issued' \ stored', NEW d \in Lineage(s)'
             PROVE  age'[d] = Retention \/ account'[owner'[d]] = "purged"
  BY DEF RowsKept
<1>1. s \in Issued
  BY RowsMove
<1>2. Lineage(s) \subseteq Issued /\ \A x \in Lineage(s) : owner[x] = owner[s]
  BY <1>1, LineageFits
<1>3. CASE s \notin stored
  <2>1. \A x \in Lineage(s) : ~Usable(x)
    BY <1>1, <1>3, DeletedIsUseless
  <2>2. d \in Lineage(s) /\ d \in Issued
    BY <1>1, <1>2, <2>1, UselessLineage
  <2>3. age[d] = Retention \/ account[owner[d]] = "purged"
    BY <1>1, <1>3, <2>2 DEF RowsKept
  <2>4. age[d] = Retention => age'[d] = Retention
    <3>1. TypeOK'
      BY TypeStep
    <3>2. age'[d] \in 0..Retention /\ age'[d] >= age[d]
      BY <2>2, <3>1, RowsMove DEF TypeOK, Issued
    <3> QED  BY <3>2, AuthSessionAssumption DEF AuthSessionAssumption
  <2>5. account[owner[d]] = "purged" => account'[owner'[d]] = "purged"
    <3>1. owner[d] \in Accounts /\ owner'[d] = owner[d]
      BY <2>2, RowsMove DEF TypeOK, Issued
    <3> QED  BY <3>1, RowsMove
  <2> QED  BY <2>3, <2>4, <2>5
<1>4. CASE s \in stored
  <2>1. ASSUME Cleanup PROVE age'[d] = Retention
    <3>1. successor' = successor /\ age' = age /\ s \notin ActiveLineage
      BY <1>4, <2>1 DEF Cleanup
    <3>2. d \in Lineage(s)
      BY <3>1 DEF Lineage
    <3>3. \A x \in Walk(s) : ~(age[x] < Retention)
      BY <1>4, <3>1 DEF ActiveLineage
    <3>4. age[d] \in 0..Retention
      BY <1>2, <3>2 DEF TypeOK, Issued
    <3>5. d \in Walk(s) => age[d] = Retention
      BY <3>3, <3>4, AuthSessionAssumption DEF AuthSessionAssumption
    <3> QED  BY <1>4, <3>1, <3>2, <3>5, WalkFinds
  <2>2. ASSUME NEW a \in Accounts, PurgeAccount(a), owner[s] = a
        PROVE  account'[owner'[d]] = "purged"
    <3>1. successor' = successor /\ owner' = owner
          /\ account' = [account EXCEPT ![a] = "purged"]
      BY <2>2 DEF PurgeAccount
    <3>2. d \in Lineage(s)
      BY <3>1 DEF Lineage
    <3> QED  BY <1>2, <2>2, <3>1, <3>2 DEF TypeOK
  <2> QED  BY <1>4, <2>1, <2>2, RowsGo
<1> QED  BY <1>3, <1>4

\* A transaction is past the walk because it was, or has just walked.
LEMMA WalkedMoves ==
  ASSUME TypeOK, [Next]_vars, NEW q \in Requests, request'[q].at = "walked"
  PROVE  (request[q].at = "walked" /\ request'[q] = request[q]) \/ WalkLineage(q)
<1> DEFINE Goal == (request[q].at = "walked" /\ request'[q] = request[q]) \/ WalkLineage(q)
<1>1. ASSUME request' = request PROVE Goal
  BY <1>1
<1>2. ASSUME NEW p \in Requests, NEW t, request' = [request EXCEPT ![p] = t],
             p = q => t.at # "walked"
      PROVE  Goal
  BY <1>2 DEF TypeOK
<1>3. ASSUME NEW p \in Requests, Finish(p) PROVE Goal
  BY <1>3, <1>2 DEF Finish, Idle
<1>4. ASSUME NEW p \in Requests, NEW place \in {"locked", "session", "rows"},
             Goto(p, place)
      PROVE  Goal
  BY <1>4 DEF Goto, TypeOK, Transactions
<1>5. ASSUME NEW p \in Requests, WalkLineage(p) PROVE Goal
  BY <1>5 DEF WalkLineage, TypeOK
<1>6. ASSUME NEW p \in Requests, NEW a \in Accounts, BeginLogin(p, a) PROVE Goal
  BY <1>6 DEF BeginLogin, TypeOK, Idle
<1>7. ASSUME NEW p \in Requests, NEW s \in Sessions, BeginRefresh(p, s) PROVE Goal
  BY <1>7 DEF BeginRefresh, TypeOK, Idle
<1>8. ASSUME NEW p \in Requests, NEW s \in Sessions, BeginLogout(p, s) PROVE Goal
  BY <1>1, <1>8 DEF BeginLogout, TypeOK, Idle
<1> HIDE DEF Goal
<1>9. ASSUME NEW p \in Requests, Request(p) PROVE Goal
  <2>1. \/ Finish(p) \/ request' = request
        \/ \E place \in {"locked", "session", "rows"} : Goto(p, place)
        \/ WalkLineage(p) \/ \E a \in Accounts : BeginLogin(p, a)
        \/ \E s \in Sessions : BeginRefresh(p, s) \/ BeginLogout(p, s)
    BY <1>9 DEF Request, CreateSession, TakeLock, LockSession, LockAccount, Rotate,
       Reject, RevokeLineage, Abort, BreakDeadlock, AbortDeletion
  <2> QED  BY <1>1, <1>3, <1>4, <1>5, <1>6, <1>7, <1>8, <2>1
<1>10. ASSUME (\E a \in Accounts : Deletion(a)) \/ Cleanup \/ Tick \/ UNCHANGED vars
       PROVE  Goal
  BY <1>1, <1>10 DEF Deletion, MarkDeleted, CommitDeletion, AbortDeletion,
     PurgeAccount, Cleanup, Tick, vars
<1>11. Goal
  BY <1>9, <1>10 DEF Next
<1> QED  BY <1>11 DEF Goal

\* While a transaction has the lock, nobody else rotates in its lineage: what
\* its walk found stays all that can be of use.
LEMMA WalkStep ==
  ASSUME TypeOK, LocksHeld, SuccessorsFit, RowsKept, WalkIsWhole, [Next]_vars
  PROVE  WalkIsWhole'
<1> SUFFICES ASSUME NEW q \in Requests, request'[q].at = "walked",
                    NEW d \in Lineage(request[q].session)', Usable(d)'
             PROVE  d \in request'[q].walk
  BY DEF WalkIsWhole
<1>0. PICK s : s = request[q].session
  OBVIOUS
<1>1. /\ request[q].at \in {"walked", "rows", "session"}
      /\ request'[q].session = s
      /\ \A p \in Requests : Rotate(p) => p # q
  <2>1. CASE request[q].at = "walked" /\ request'[q] = request[q]
    BY <1>0, <2>1 DEF Rotate, At
  <2>2. CASE WalkLineage(q)
    <3>1. request[q].at \in {"rows", "session"} /\ request'[q].session = s
      BY <1>0, <2>2 DEF WalkLineage, At, TypeOK, Transactions
    <3>2. ~Rotate(q)
      BY <2>2 DEF WalkLineage, Rotate, At, Redeemable
    <3> QED  BY <2>2, <3>1, <3>2
  <2> QED  BY <2>1, <2>2, WalkedMoves
<1>2. s \in Issued /\ s \in stored /\ advisory[owner[s]] = q
  BY <1>0, <1>1 DEF LocksHeld, LockFits
<1>3. Lineage(s) \subseteq Issued /\ \A x \in Lineage(s) : owner[x] = owner[s]
  BY <1>2, LineageFits
<1>4. \A p \in Requests : Rotate(p) => request[p].session \notin Lineage(s)
  BY <1>0, <1>1, <1>2, <1>3, RotateMoves
<1>5. Lineage(s)' \subseteq Lineage(s)
  BY <1>2, <1>4, LineageMoves
<1>6. d \in Lineage(s)
  <2>1. d \in Reach(successor', request'[q].session, Sessions)
    BY DEF Lineage
  <2> QED  BY <1>1, <1>5, <2>1 DEF Lineage
<1>7. Usable(d) /\ d \in Issued
  BY <1>3, <1>6, UsableShrinks
<1>8. CASE request[q].at = "walked" /\ request'[q] = request[q]
  BY <1>0, <1>6, <1>7, <1>8 DEF WalkIsWhole
<1>9. CASE WalkLineage(q)
  <2>1. age[d] # Retention
    BY <1>7, AuthSessionAssumption DEF Usable, AuthSessionAssumption
  <2>2. d \in Walk(s)
    BY <1>2, <1>6, <2>1, WalkFinds
  <2>3. request'[q].walk = Walk(s)
    BY <1>0, <1>9 DEF WalkLineage, TypeOK, Transactions
  <2> QED  BY <2>2, <2>3
<1> QED  BY <1>8, <1>9, WalkedMoves

\* A lineage ends by a logout that found no row or by the revocation of the
\* rows of a walk.
LEMMA EndedMoves ==
  ASSUME TypeOK, LocksHeld, [Next]_vars, NEW s \in ended' \ ended
  PROVE  \/ s \in Issued \ stored
         \/ \E q \in Requests : RevokeLineage(q) /\ s = request[q].session
<1> DEFINE Goal == \/ s \in Issued \ stored
                   \/ \E q \in Requests : RevokeLineage(q) /\ s = request[q].session
<1>1. ASSUME NEW q \in Requests, LockSession(q) PROVE Goal
  <2>1. request[q].session \in Issued
    BY <1>1 DEF LockSession, LocksHeld, LockFits
  <2> QED  BY <1>1, <2>1 DEF LockSession
<1>2. ASSUME NEW q \in Requests, RevokeLineage(q) PROVE Goal
  BY <1>2 DEF RevokeLineage
<1>3. ASSUME NEW q \in Requests, NEW t \in Sessions, BeginLogout(q, t) PROVE Goal
  BY <1>3 DEF BeginLogout
<1>4. (\E q \in Requests : LockSession(q) \/ RevokeLineage(q)
         \/ \E t \in Sessions : BeginLogout(q, t)) \/ ended' = ended
  BY DEF Next, Request, Deletion, vars, BeginLogin, CreateSession, BeginRefresh,
     TakeLock, LockAccount, Rotate, Reject, WalkLineage, Abort, AbortDeletion,
     BreakDeadlock, MarkDeleted, CommitDeletion, PurgeAccount, Cleanup, Tick
<1> QED  BY <1>1, <1>2, <1>3, <1>4

\* When a lineage ends nothing in it is of use, and it stays so.
LEMMA EndedStep ==
  ASSUME TypeOK, LocksHeld, SuccessorsFit, RowsKept, WalkIsWhole,
         EndedLineageIsDead, [Next]_vars
  PROVE  EndedLineageIsDead'
<1> SUFFICES ASSUME NEW s \in ended', NEW d \in Lineage(s)', Usable(d)'
             PROVE  FALSE
  BY DEF EndedLineageIsDead
<1>1. CASE s \in Issued /\ \A x \in Lineage(s) : ~Usable(x)
  BY <1>1, UselessLineage
<1>2. CASE s \in ended
  BY <1>1, <1>2 DEF EndedLineageIsDead, TypeOK
<1>3. CASE s \in Issued \ stored
  BY <1>1, <1>3, DeletedIsUseless
<1>4. ASSUME NEW q \in Requests, RevokeLineage(q), s = request[q].session
      PROVE  FALSE
  <2>1. request[q].at = "walked" /\ s \in Issued
    BY <1>4 DEF RevokeLineage, LocksHeld, LockFits
  <2>2. successor' = successor /\ revoked' = revoked \cup (request[q].walk \cap stored)
    BY <1>4 DEF RevokeLineage
  <2>3. d \in Lineage(s)
    BY <2>2 DEF Lineage
  <2>4. d \in Issued
    BY <2>1, <2>3, LineageFits
  <2>5. Usable(d)
    BY <2>4, UsableShrinks
  <2>6. d \in request[q].walk /\ d \in stored
    BY <1>4, <2>1, <2>3, <2>5 DEF WalkIsWhole, Usable, AccessActive
  <2>7. d \notin revoked'
    BY DEF Usable, AccessActive
  <2> QED  BY <2>2, <2>6, <2>7
<1> QED  BY <1>2, <1>3, <1>4, EndedMoves

\* An account is deleted by the statement that revokes its live sessions.
LEMMA DeletionMoves ==
  ASSUME TypeOK, [Next]_vars, NEW a \in Accounts,
         account'[a] = "deleting", account[a] # "deleting"
  PROVE  CommitDeletion(a)
<1>1. ASSUME NEW b \in Accounts, CommitDeletion(b) PROVE CommitDeletion(a)
  <2>1. account' = [account EXCEPT ![b] = "deleting"]
    BY <1>1 DEF CommitDeletion
  <2>2. a = b
    BY <2>1 DEF TypeOK
  <2> QED  BY <1>1, <2>2
<1>2. ASSUME NEW b \in Accounts, PurgeAccount(b) PROVE FALSE
  BY <1>2 DEF PurgeAccount, TypeOK
<1>3. ASSUME NEW b \in Accounts, NEW q \in Requests, BeginLogin(q, b) PROVE FALSE
  BY <1>3 DEF BeginLogin, TypeOK
<1>4. \/ account' = account
      \/ \E b \in Accounts : \/ CommitDeletion(b) \/ PurgeAccount(b)
                             \/ \E q \in Requests : BeginLogin(q, b)
  BY DEF Next, Request, Deletion, vars, CreateSession, BeginRefresh, BeginLogout,
     TakeLock, LockSession, LockAccount, Rotate, Reject, WalkLineage,
     RevokeLineage, Abort, AbortDeletion, BreakDeadlock, MarkDeleted, Cleanup, Tick
<1> QED  BY <1>1, <1>2, <1>3, <1>4

\* No rotation continues what a deletion left, and a deletion leaves nothing
\* that a rotation continues.
LEMMA DeletionStep ==
  ASSUME TypeOK, LocksHeld, SuccessorsFit, DeletionEndsSessions, [Next]_vars
  PROVE  DeletionEndsSessions'
<1> SUFFICES ASSUME NEW s \in stored' \ revoked', account'[owner'[s]] = "deleting",
                    NEW t \in Sessions, successor'[t] = s
             PROVE  FALSE
  BY DEF DeletionEndsSessions
<1>1. TypeOK'
  BY TypeStep
<1>2. s \in Sessions /\ s # NoSession /\ s \in Issued'
  BY <1>1, AuthSessionAssumption DEF TypeOK, Issued, AuthSessionAssumption
<1>3. \/ successor'[t] = successor[t]
      \/ \E q \in Requests : Rotate(q) /\ s \notin Issued
  <2>1. ASSUME NEW q \in Requests, Rotate(q), s \in Issued
        PROVE  successor'[t] = successor[t]
    <3>1. PICK n \in Sessions \ Issued :
            successor' = [successor EXCEPT ![request[q].session] = n]
      BY <2>1, RotateMoves
    <3> QED  BY <2>1, <3>1 DEF TypeOK
  <2> QED  BY <2>1, SuccessorMoves
<1>4. s \in Issued
  <2>1. CASE successor'[t] = successor[t]
    BY <1>2, <2>1 DEF SuccessorsFit
  <2>2. ASSUME NEW q \in Requests, Rotate(q), s \notin Issued PROVE FALSE
    <3>1. PICK n \in Sessions \ Issued :
            /\ owner' = [owner EXCEPT ![n] = owner[request[q].session]]
            /\ successor' = [successor EXCEPT ![request[q].session] = n]
      BY <2>2, RotateMoves
    <3>2. Usable(request[q].session) /\ account' = account
      BY <2>2, RotateMoves
    <3>3. s = n
      BY <1>2, <2>2, <3>1 DEF Issued, TypeOK
    <3>4. account'[owner'[s]] = "active"
      BY <3>1, <3>2, <3>3 DEF Usable, AccessActive, TypeOK
    <3> QED  BY <3>4
  <2> QED  BY <1>3, <2>1, <2>2
<1>5. s \in stored /\ s \notin revoked /\ owner'[s] = owner[s] /\ owner[s] \in Accounts
  BY <1>4, RowsMove DEF TypeOK, Issued
<1>6. successor[t] = s
  BY <1>3, <1>4
<1>7. account[owner[s]] # "deleting"
  BY <1>5, <1>6 DEF DeletionEndsSessions
<1>8. CommitDeletion(owner[s])
  BY <1>5, <1>7, DeletionMoves
<1>9. s \in revoked'
  BY <1>5, <1>8 DEF CommitDeletion
<1> QED  BY <1>9

\* The tables are empty when the program starts.
LEMMA InductiveInit ==
  ASSUME Init
  PROVE  Inductive
<1>1. Idle \in Transactions
  BY DEF Idle, Transactions, Places
<1>2. Issued = {}
  BY DEF Init, Issued
<1>3. TypeOK
  BY <1>1, <1>2, AuthSessionAssumption DEF Init, TypeOK, AuthSessionAssumption
<1>4. SuccessorsFit
  BY DEF Init, SuccessorsFit
<1>5. LocksHeld
  BY DEF Init, LocksHeld, LockFits, Idle
<1>6. WalkIsWhole
  BY DEF Init, WalkIsWhole, Idle
<1>7. EndedLineageIsDead /\ DeletionEndsSessions
  BY DEF Init, EndedLineageIsDead, DeletionEndsSessions
<1>8. RowsKept
  BY <1>2 DEF RowsKept
<1> QED  BY <1>3, <1>4, <1>5, <1>6, <1>7, <1>8 DEF Inductive

\* Every step preserves the inductive invariant.
LEMMA InductiveStep ==
  ASSUME Inductive, [Next]_vars
  PROVE  Inductive'
<1>1. /\ TypeOK /\ SuccessorsFit /\ LocksHeld /\ RowsKept /\ WalkIsWhole
      /\ EndedLineageIsDead /\ DeletionEndsSessions
  BY DEF Inductive
<1>2. TypeOK'
  BY <1>1, TypeStep
<1>3. SuccessorsFit'
  BY <1>1, SuccessorsStep
<1>4. LocksHeld'
  BY <1>1, LocksStep
<1>5. RowsKept'
  BY <1>1, RowsKeptStep
<1>6. WalkIsWhole'
  BY <1>1, WalkStep
<1>7. EndedLineageIsDead'
  BY <1>1, EndedStep
<1>8. DeletionEndsSessions'
  BY <1>1, DeletionStep
<1> QED  BY <1>2, <1>3, <1>4, <1>5, <1>6, <1>7, <1>8 DEF Inductive

-----------------------------------------------------------------------------
\* The inductive invariant holds in every state of login, refresh, logout,
\* deletion and retention.
THEOREM InductiveInvariant == Spec => []Inductive
<1>1. Init => Inductive
  BY InductiveInit
<1>2. Inductive /\ [Next]_vars => Inductive'
  BY InductiveStep
<1> QED  BY <1>1, <1>2, PTL DEF Spec

\* The tables and the requests' transactions keep their types.
THEOREM TypeCorrect == Spec => []TypeOK
<1>1. Inductive => TypeOK
  BY DEF Inductive
<1> QED  BY <1>1, InductiveInvariant, PTL

\* After a logout, or the second use of a refresh token, nothing that was
\* issued from the token gives access, whatever refreshes were under way.
THEOREM EndedLineagesAreDead == Spec => []EndedLineageIsDead
<1>1. Inductive => EndedLineageIsDead
  BY DEF Inductive
<1> QED  BY <1>1, InductiveInvariant, PTL

\* deleteAccount leaves no session that a refresh prolongs.
THEOREM DeletionEndsEverySession == Spec => []DeletionEndsSessions
<1>1. Inductive => DeletionEndsSessions
  BY DEF Inductive
<1> QED  BY <1>1, InductiveInvariant, PTL

\* RetentionCleanup deletes no ancestor of a session that is of use.
THEOREM AncestorsAreKept == Spec => []AncestorsKept
<1>1. Inductive => AncestorsKept
  BY DeletedIsUseless DEF Inductive, AncestorsKept
<1> QED  BY <1>1, InductiveInvariant, PTL

\* rotateSession exchanges a refresh token at most once.
THEOREM TokensAreRedeemedOnce == Spec => RedeemedOnce
<1>1. Inductive /\ [Next]_vars =>
        [\A s \in Sessions : successor[s] # NoSession =>
           successor'[s] = successor[s]]_vars
  <2> SUFFICES ASSUME Inductive, [Next]_vars, NEW s \in Sessions,
                      successor[s] # NoSession
               PROVE  successor'[s] = successor[s]
    OBVIOUS
  <2>1. TypeOK /\ LocksHeld /\ s \in revoked
    BY DEF Inductive, SuccessorsFit
  <2>2. ASSUME NEW q \in Requests, Rotate(q) PROVE successor'[s] = successor[s]
    <3>1. request[q].session # s
      BY <2>1, <2>2, RotateMoves DEF Usable, AccessActive
    <3>2. \E n \in Sessions : successor' = [successor EXCEPT ![request[q].session] = n]
      BY <2>1, <2>2, RotateMoves
    <3> QED  BY <2>1, <3>1, <3>2 DEF TypeOK
  <2> QED  BY <2>2, SuccessorMoves
<1> QED  BY <1>1, InductiveInvariant, PTL DEF Spec, RedeemedOnce

-----------------------------------------------------------------------------
(* The rate limit.  A refusal binds both sides, bursts are bounded and     *)
(* refusals are earned, for every window, limit, block and clock skew.     *)
(*                                                                         *)
(* What makes it inductive: the row's block is what the client was told as *)
(* long as the row exists; the window of a polite client that was refused  *)
(* ends no later than its block (because Ttl <= Block, and the block's     *)
(* clock is read after the window's); the row's hits count what was        *)
(* admitted in its window (AdmittedInWindow, AdmittedBefore) and were all  *)
(* asked in it, but for those carried over (AskedInWindow).                *)

\* The block is the promise, and outlives the window of a polite client.
BlockIsPromise ==
  row # NoRow =>
    /\ row.blocked = promise
    /\ answer = "refused" /\ ~rude => row.window <= row.blocked

\* A request whose statement reads the clock as p says.
Incremented(p) ==
  LET new == Upsert(p)
      now(counts) == IF p < 7 THEN Older(counts) ELSE counts
  IN /\ row' = new
     /\ asked' = AndOne(now(asked))
     /\ early' = now(early)
     /\ IF new.blocked > 0
        THEN /\ answer' = "refused"
             /\ promise' = new.blocked
             /\ rude' = (rude \/ promise > 0)
             /\ admitted' = now(admitted)
        ELSE /\ answer' = "admitted"
             /\ promise' = 0
             /\ rude' = FALSE
             /\ admitted' = AndOne(now(admitted))
     /\ carried' = (/\ row # NoRow /\ new.hits > 1
                    /\ carried \/ Left(row.window, 2, p) <= 0)

BlockInv == RateTypeOK /\ BlockIsServed /\ BlockIsPromise

-----------------------------------------------------------------------------
\* The clock is read in order: what has passed at one reading has at a later
\* one.
LEMMA ElapsedGrows ==
  ASSUME NEW p \in Readings
  PROVE  /\ \A i \in 1..7 : Elapsed(i, p) \in {0, 1}
         /\ \A i, j \in 1..7 : i <= j => Elapsed(i, p) <= Elapsed(j, p)
BY DEF Readings, Elapsed

\* The statement writes a row of the table's type.
LEMMA UpsertType ==
  ASSUME RateTypeOK, NEW p \in Readings
  PROVE  Upsert(p) \in Rows
<1>1. CASE row = NoRow
  BY <1>1, RateAssumption, ElapsedGrows DEF Upsert, Rows, Until
<1>2. CASE row # NoRow
  <2>1. row \in Rows
    BY <1>2 DEF RateTypeOK
  <2>2. row.hits \in 1..Limit + 1 /\ row.window \in 0..Ttl /\ row.blocked \in 0..Block
    BY <2>1 DEF Rows
  <2>3. \A i \in 1..7 : Hits(i, p) \in 1..Limit + 1
    BY <2>2, RateAssumption DEF Hits, More, Left, Elapsed
  <2>4. Window(p) \in 0..Ttl
    BY <2>2, ElapsedGrows, RateAssumption DEF Window, Left, Until
  <2>5. Blocked(p) \in 0..Block
    <3>1. CASE Left(row.blocked, 4, p) > 0
      BY <3>1, <2>2, ElapsedGrows, RateAssumption DEF Blocked, Left
    <3>2. CASE Left(row.blocked, 4, p) <= 0 /\ Hits(5, p) > Limit
      <4>1. Blocked(p) = Until(Block, 6, p)
        BY <3>2, <2>2, ElapsedGrows DEF Blocked, Left
      <4> QED  BY <4>1, ElapsedGrows, RateAssumption DEF Until
    <3>3. CASE Left(row.blocked, 4, p) <= 0 /\ ~(Hits(5, p) > Limit)
      <4>1. Blocked(p) = 0
        BY <3>3, <2>2, ElapsedGrows DEF Blocked, Left
      <4> QED  BY <4>1, RateAssumption
    <3>4. Left(row.blocked, 4, p) \in Int
      BY <2>2, ElapsedGrows, RateAssumption DEF Left
    <3> QED  BY <3>1, <3>2, <3>3, <3>4
  <2> QED  BY <1>2, <2>3, <2>4, <2>5 DEF Upsert, Rows
<1> QED  BY <1>1, <1>2

\* A client that was polite is not blocked any more when its block is over.
LEMMA PoliteIsFree ==
  ASSUME RateTypeOK, BlockIsPromise, answer = "refused", ~rude, promise = 0,
         NEW p \in Readings
  PROVE  Upsert(p).blocked = 0
<1>1. CASE row = NoRow
  BY <1>1 DEF Upsert
<1>2. CASE row # NoRow
  <2>1. row \in Rows
    BY <1>2 DEF RateTypeOK
  <2>2. row.window = 0 /\ row.blocked = 0
    BY <1>2, <2>1, RateAssumption DEF BlockIsPromise, Rows
  <2>3. Hits(5, p) = 1
    BY <2>2, ElapsedGrows DEF Hits, Left
  <2>4. ~(Left(row.blocked, 4, p) > 0) /\ ~(Hits(5, p) > Limit)
    BY <2>2, <2>3, ElapsedGrows, RateAssumption DEF Left
  <2>5. Blocked(p) = 0
    BY <2>4 DEF Blocked
  <2> QED  BY <1>2, <2>5 DEF Upsert
<1> QED  BY <1>1, <1>2

\* A block that begins outlives the window the same statement leaves.
LEMMA BlockOutlivesWindow ==
  ASSUME RateTypeOK, row # NoRow, row.blocked = 0, NEW p \in Readings,
         Upsert(p).blocked > 0
  PROVE  Upsert(p).window <= Upsert(p).blocked
<1>1. row.window \in 0..Ttl
  BY DEF RateTypeOK, Rows
<1>2. ~(Left(row.blocked, 4, p) > 0)
  BY ElapsedGrows DEF Left
<1>3. Upsert(p).window = Window(p) /\ Upsert(p).blocked = Blocked(p)
  BY DEF Upsert
<1>4. Hits(5, p) > Limit
  BY <1>2, <1>3 DEF Blocked
<1>5. Blocked(p) = Until(Block, 6, p)
  BY <1>2, <1>4, ElapsedGrows DEF Blocked, Left
<1>6. Elapsed(3, p) <= Elapsed(6, p) /\ Elapsed(6, p) \in {0, 1}
      /\ Elapsed(3, p) \in {0, 1} /\ Elapsed(7, p) \in {0, 1}
      /\ Elapsed(2, p) \in {0, 1}
  BY ElapsedGrows
<1>7. Window(p) <= Until(Block, 6, p)
  BY <1>1, <1>6, RateAssumption DEF Window, Until, Left
<1> QED  BY <1>3, <1>5, <1>7

-----------------------------------------------------------------------------
LEMMA CountsType ==
  ASSUME NEW counts \in [Spans -> Nat]
  PROVE  /\ Older(counts) \in [Spans -> Nat] /\ AndOne(counts) \in [Spans -> Nat]
         /\ \A n \in Spans : /\ Older(counts)[n] = (IF n = 0 THEN 0 ELSE counts[n - 1])
                             /\ AndOne(counts)[n] = (IF n = 0 THEN 0 ELSE counts[n] + 1)
<1>1. ASSUME NEW n \in Spans, n # 0  PROVE n - 1 \in Spans
  BY <1>1, RateAssumption DEF Spans
<1>2. Older(counts) \in [Spans -> Nat]
  BY <1>1 DEF Older
<1>3. AndOne(counts) \in [Spans -> Nat]
  BY DEF AndOne
<1> QED  BY <1>2, <1>3 DEF Older, AndOne

LEMMA InitInv == RateInit => BlockInv
<1> SUFFICES ASSUME RateInit PROVE BlockInv
  OBVIOUS
<1>1. RateTypeOK
  <2>1. [n \in Spans |-> 0] \in [Spans -> Nat] /\ 0 \in 0..Block
    BY RateAssumption
  <2> QED  BY <2>1, Zenon DEF RateInit, RateTypeOK
<1>2. ~(promise > Skew) /\ row = NoRow
  BY RateAssumption DEF RateInit
<1> QED  BY <1>1, <1>2 DEF BlockInv, BlockIsServed, BlockIsPromise

LEMMA RequestInv == BlockInv /\ Increment => BlockInv'
<1> SUFFICES ASSUME BlockInv, Increment PROVE BlockInv'
  OBVIOUS
<1>1. PICK p \in Readings : Incremented(p)
  BY DEF Increment, Incremented
<1> USE DEF Incremented
<1>2. Upsert(p) \in Rows
  BY UpsertType DEF BlockInv
<1>3. row' = Upsert(p) /\ row' # NoRow /\ row'.blocked \in 0..Block /\ row'.blocked = promise'
  BY <1>1, <1>2, RateAssumption DEF Rows
<1>4. RateTypeOK'
  <2>1. /\ asked' \in [Spans -> Nat] /\ admitted' \in [Spans -> Nat]
        /\ early' \in [Spans -> Nat]
    <3>1. /\ Older(asked) \in [Spans -> Nat] /\ Older(admitted) \in [Spans -> Nat]
          /\ Older(early) \in [Spans -> Nat]
      BY CountsType DEF BlockInv, RateTypeOK
    <3> DEFINE now(counts) == IF p < 7 THEN Older(counts) ELSE counts
    <3>2. /\ now(asked) \in [Spans -> Nat] /\ now(admitted) \in [Spans -> Nat]
          /\ now(early) \in [Spans -> Nat]
      BY <3>1 DEF BlockInv, RateTypeOK
    <3>3. AndOne(now(asked)) \in [Spans -> Nat] /\ AndOne(now(admitted)) \in [Spans -> Nat]
      BY <3>2, CountsType
    <3> QED  BY <1>1, <3>2, <3>3
  <2>2. answer' \in {"none", "admitted", "refused"} /\ rude' \in BOOLEAN
    BY <1>1 DEF BlockInv, RateTypeOK
  <2>3. carried' \in BOOLEAN
    BY <1>1
  <2> QED  BY <1>2, <1>3, <2>1, <2>2, <2>3 DEF RateTypeOK
<1>5. BlockIsServed'
  BY <1>3 DEF BlockIsServed
<1>6. BlockIsPromise'
  <2> SUFFICES ASSUME answer' = "refused", ~rude'
               PROVE  row'.window <= row'.blocked
    BY <1>3 DEF BlockIsPromise
  <2>1. Upsert(p).blocked > 0 /\ ~rude /\ ~(promise > 0)
    BY <1>1
  <2>2. promise = 0
    BY <2>1 DEF BlockInv, RateTypeOK
  <2>3. row # NoRow
    BY <2>1 DEF Upsert
  <2>4. row.blocked = 0
    BY <2>2, <2>3 DEF BlockInv, BlockIsPromise
  <2> QED  BY <1>3, <2>1, <2>3, <2>4, BlockOutlivesWindow DEF BlockInv
<1> QED  BY <1>4, <1>5, <1>6 DEF BlockInv

LEMMA CleanupInv == BlockInv /\ CleanupRow => BlockInv'
<1> SUFFICES ASSUME BlockInv, CleanupRow PROVE BlockInv'
  OBVIOUS
<1>1. row # NoRow /\ row \in Rows
  BY DEF CleanupRow, BlockInv, RateTypeOK
<1>2. PICK ahead \in 0..Skew : Expired(ahead)
  BY DEF CleanupRow
<1>3. ~(promise > Skew)
  BY <1>1, <1>2, RateAssumption DEF Expired, BlockInv, BlockIsServed, RateTypeOK
<1>4. early' \in [Spans -> Nat]
  BY CountsType DEF CleanupRow, BlockInv, RateTypeOK
<1> QED
  BY <1>3, <1>4 DEF CleanupRow, BlockInv, RateTypeOK, BlockIsServed, BlockIsPromise

LEMMA TickInv == BlockInv /\ RateTick => BlockInv'
<1> SUFFICES ASSUME BlockInv, RateTick PROVE BlockInv'
  OBVIOUS
<1>1. /\ asked' \in [Spans -> Nat] /\ admitted' \in [Spans -> Nat]
      /\ early' \in [Spans -> Nat]
  BY CountsType DEF BlockInv, RateTypeOK, RateTick
<1>2. promise' \in 0..Block /\ promise' = Later(promise)
  BY RateAssumption DEF BlockInv, RateTypeOK, RateTick, Later
<1>3. CASE row = NoRow
  BY <1>1, <1>2, <1>3, RateAssumption
     DEF RateTick, BlockInv, RateTypeOK, BlockIsServed, BlockIsPromise, Later
<1>4. CASE row # NoRow
  <2>1. row \in Rows
    BY <1>4 DEF BlockInv, RateTypeOK
  <2>2. row' = [row EXCEPT !.window = Later(row.window), !.blocked = Later(row.blocked)]
    BY <1>4 DEF RateTick
  <2>3. row.window \in 0..Ttl /\ row.blocked \in 0..Block
    BY <2>1 DEF Rows
  <2>4. Later(row.window) \in 0..Ttl /\ Later(row.blocked) \in 0..Block
    BY <2>3, RateAssumption DEF Later
  <2>5. /\ row' \in Rows
        /\ row'.window = Later(row.window) /\ row'.blocked = Later(row.blocked)
    BY <2>1, <2>2, <2>4 DEF Rows
  <2>6. RateTypeOK'
    BY <1>1, <1>2, <2>5 DEF RateTick, BlockInv, RateTypeOK
  <2>7. row' # NoRow
    BY <2>5, RateAssumption DEF Rows
  <2>8. BlockIsPromise'
    BY <1>2, <1>4, <2>3, <2>5 DEF RateTick, BlockInv, BlockIsPromise, Later
  <2>9. BlockIsServed'
    BY <2>7, <2>8 DEF BlockIsServed, BlockIsPromise
  <2> QED  BY <2>6, <2>8, <2>9 DEF BlockInv
<1> QED  BY <1>3, <1>4

-----------------------------------------------------------------------------
\* Bursts.  What was admitted since the row's window began is counted by hits.

\* The requests of the row's window that may have been admitted: none if it
\* began during a block, which outlives the window it begins in.
Counted == IF row.blocked > 0 /\ row.window > row.blocked THEN 0
           ELSE IF row.hits > Limit THEN Limit ELSE row.hits

\* The row counts what was admitted in its window, but for a request in the
\* instant the window ended.
AdmittedInWindow ==
  /\ admitted[0] = 0
  /\ row # NoRow =>
       \A n \in 0..Ttl - row.window :
         admitted[n] <= Counted + (IF row.window = 0 THEN 1 ELSE 0)

\* What was admitted before the row's window is bounded by the limit.
AdmittedBefore ==
  \A n \in 0..Ttl :
    admitted[n] <= Limit + 1 + Limit * early[n]
                     + (IF row # NoRow /\ n > Ttl - row.window THEN Counted ELSE 0)

\* The requests a window counts were asked in it, unless one was carried over.
AskedInWindow ==
  /\ \A m, n \in Spans : m <= n => asked[m] <= asked[n]
  /\ row # NoRow /\ row.window > 0 /\ ~carried => row.hits <= asked[Ttl - row.window + 1]

RateInv ==
  BlockInv /\ AdmittedInWindow /\ AdmittedBefore /\ AskedInWindow

\* A request goes on with the row's window or begins a new one, and goes on with
\* the row's block, begins one that outlives the window, or is admitted.
LEMMA RowAfter ==
  ASSUME RateTypeOK, row # NoRow, NEW p \in Readings
  PROVE  LET new == Upsert(p)
             t == Elapsed(7, p)
         IN /\ \/ /\ Left(row.window, 2, p) > 0
                  /\ row.window > 0 /\ new.window = row.window - t
                  /\ new.hits = More(row.hits)
                  /\ new.blocked = 0 => \/ row.hits < Limit
                                        \/ row.window = 1 /\ t = 1
                                        \/ row.blocked = 1 /\ t = 1
                  /\ new.blocked > 0 /\ row.blocked = 0 => row.hits >= Limit
               \/ /\ Left(row.window, 2, p) <= 0
                  /\ row.window <= t
                  /\ new.hits \in 1..Limit + 1
                  /\ new.window = Ttl \/ (t = 1 /\ new.window = Ttl - 1)
                  /\ row.blocked = 0 => new.blocked = 0
            /\ new.blocked > 0 => \/ new.window <= new.blocked
                                  \/ row.blocked > 0 /\ new.blocked = row.blocked - t
<1> DEFINE new == Upsert(p)
           t == Elapsed(7, p)
<1>1. row.hits \in 1..Limit + 1 /\ row.window \in 0..Ttl /\ row.blocked \in 0..Block
  BY DEF RateTypeOK, Rows
<1>2. /\ \A i \in 1..7 : Elapsed(i, p) \in {0, 1} /\ Elapsed(i, p) <= t
      /\ Elapsed(1, p) <= Elapsed(2, p) /\ Elapsed(2, p) <= Elapsed(5, p)
      /\ Elapsed(2, p) <= Elapsed(3, p) /\ Elapsed(4, p) <= Elapsed(5, p)
      /\ Elapsed(3, p) <= Elapsed(6, p) /\ Elapsed(5, p) <= Elapsed(6, p)
  BY ElapsedGrows
<1>3. new.hits = Hits(1, p) /\ new.window = Window(p) /\ new.blocked = Blocked(p)
  BY DEF Upsert
<1>4. /\ Limit \in Nat \ {0} /\ Ttl \in Nat \ {0} /\ Block \in Nat /\ Ttl <= Block
  BY RateAssumption
<1>5. new.hits \in 1..Limit + 1 /\ Blocked(p) \in 0..Block /\ Window(p) \in 0..Ttl
  BY <1>3, UpsertType DEF Rows
<1>6. \A i \in 1..7 : /\ Left(row.blocked, i, p) = row.blocked - Elapsed(i, p)
                      /\ Left(row.window, i, p) = row.window - Elapsed(i, p)
  BY DEF Left
<1>7. \/ Left(row.blocked, 4, p) > 0 /\ Blocked(p) = row.blocked - t
      \/ /\ Left(row.blocked, 4, p) <= 0
         /\ Hits(5, p) > Limit /\ Blocked(p) = Until(Block, 6, p)
      \/ /\ Left(row.blocked, 4, p) <= 0 /\ Hits(5, p) <= Limit /\ Blocked(p) = 0
  <2>1. Left(row.blocked, 4, p) \in Int /\ Hits(5, p) \in Int
    BY <1>1, <1>2, <1>4, <1>6 DEF Hits, More
  <2>2. CASE Left(row.blocked, 4, p) > 0
    <3>1. Blocked(p) = Left(row.blocked, 7, p)
      BY <2>1, <2>2 DEF Blocked
    <3> QED  BY <1>6, <2>2, <3>1
  <2>3. CASE Left(row.blocked, 4, p) <= 0 /\ Hits(5, p) > Limit
    BY <2>1, <2>3 DEF Blocked
  <2>4. CASE Left(row.blocked, 4, p) <= 0 /\ ~(Hits(5, p) > Limit)
    <3>1. Blocked(p) = 0
      BY <2>1, <2>4 DEF Blocked
    <3> QED  BY <1>4, <2>1, <2>4, <3>1
  <2> QED  BY <2>1, <2>2, <2>3, <2>4
<1>8. Until(Block, 6, p) = Block - (t - Elapsed(6, p))
      /\ Until(Ttl, 3, p) = Ttl - (t - Elapsed(3, p))
  BY DEF Until
<1>9. CASE Left(row.window, 2, p) > 0
  <2>1. new.window = row.window - t /\ new.hits = More(row.hits) /\ row.window > 0
    BY <1>1, <1>2, <1>3, <1>6, <1>9 DEF Window, Hits
  <2>2. Hits(5, p) = IF row.window - Elapsed(5, p) <= 0 THEN 1 ELSE More(row.hits)
    BY <1>6 DEF Hits
  <2>3. Hits(5, p) > Limit <=> row.window - Elapsed(5, p) > 0 /\ row.hits >= Limit
    BY <1>1, <1>2, <1>4, <2>2 DEF More
  <2>4. new.blocked = 0 => \/ row.hits < Limit
                           \/ row.window = 1 /\ t = 1
                           \/ row.blocked = 1 /\ t = 1
    <3> SUFFICES ASSUME Blocked(p) = 0
                 PROVE  \/ row.hits < Limit
                        \/ row.window = 1 /\ t = 1
                        \/ row.blocked = 1 /\ t = 1
      BY <1>3
    <3>0. /\ t \in {0, 1} /\ Elapsed(4, p) \in {0, 1} /\ Elapsed(5, p) \in {0, 1}
          /\ Elapsed(6, p) \in {0, 1} /\ Elapsed(5, p) <= t
      BY <1>2
    <3>1. CASE Left(row.blocked, 4, p) > 0 /\ Blocked(p) = row.blocked - t
      BY <1>1, <1>6, <3>0, <3>1
    <3>2. CASE Hits(5, p) > Limit /\ Blocked(p) = Until(Block, 6, p)
      <4>1. Block = t - Elapsed(6, p)
        BY <1>4, <1>8, <3>0, <3>2
      <4>2. t = 1 /\ Block = 1
        BY <1>1, <1>4, <2>1, <3>0, <4>1
      <4> QED  BY <1>1, <1>4, <2>1, <4>2
    <3>3. CASE Hits(5, p) <= Limit
      <4>1. ~(Hits(5, p) > Limit)
        <5>1. Hits(5, p) \in Int
          BY <1>1, <1>4, <2>2 DEF More
        <5> QED  BY <1>4, <3>3, <5>1
      <4> QED  BY <1>1, <1>4, <2>1, <2>3, <3>0, <4>1
    <3> QED  BY <1>7, <3>1, <3>2, <3>3
  <2>5. new.blocked > 0 /\ row.blocked = 0 => row.hits >= Limit
    BY <1>1, <1>2, <1>3, <1>6, <1>7, <2>3
  <2>6. new.blocked > 0 => \/ new.window <= new.blocked
                           \/ row.blocked > 0 /\ new.blocked = row.blocked - t
    BY <1>1, <1>2, <1>3, <1>4, <1>6, <1>7, <1>8, <2>1
  <2> QED  BY <1>9, <2>1, <2>4, <2>5, <2>6
<1>10. CASE Left(row.window, 2, p) <= 0
  <2>1. row.window <= t /\ row.window - Elapsed(5, p) <= 0
    BY <1>1, <1>2, <1>6, <1>10
  <2>2. new.window = Ttl - (t - Elapsed(3, p))
    BY <1>3, <1>8, <1>10 DEF Window
  <2>3. new.window = Ttl \/ (t = 1 /\ new.window = Ttl - 1)
    BY <1>2, <1>4, <2>2
  <2>4. Hits(5, p) = 1
    BY <1>6, <2>1 DEF Hits
  <2>5. row.blocked = 0 => new.blocked = 0
    BY <1>1, <1>2, <1>3, <1>4, <1>6, <1>7, <2>4
  <2>6. new.blocked > 0 => row.blocked > 0 /\ new.blocked = row.blocked - t
    BY <1>1, <1>2, <1>3, <1>4, <1>6, <1>7, <2>4
  <2> QED  BY <1>5, <1>10, <2>1, <2>3, <2>5, <2>6
<1> QED
  BY <1>1, <1>2, <1>6, <1>9, <1>10

\* The counts of the last n ticks, one tick or none later.
LEMMA CountsAfter ==
  ASSUME RateTypeOK, NEW p \in Readings, Incremented(p)
  PROVE  LET t == Elapsed(7, p)
             d == IF Upsert(p).blocked > 0 THEN 0 ELSE 1
         IN /\ t \in {0, 1} /\ d \in {0, 1}
            /\ asked'[0] = 0 /\ (admitted[0] = 0 => admitted'[0] = 0)
            /\ \A n \in 1..Ttl + 1 : /\ n - t \in Spans
                                     /\ asked'[n] = asked[n - t] + 1
                                     /\ admitted'[n] = admitted[n - t] + d
                                     /\ early'[n] = early[n - t]
<1> DEFINE t == Elapsed(7, p)
           d == IF Upsert(p).blocked > 0 THEN 0 ELSE 1
           now(counts) == IF p < 7 THEN Older(counts) ELSE counts
<1>1. /\ asked \in [Spans -> Nat] /\ admitted \in [Spans -> Nat] /\ early \in [Spans -> Nat]
  BY DEF RateTypeOK
<1>2. t = (IF p < 7 THEN 1 ELSE 0) /\ t \in {0, 1} /\ d \in {0, 1}
  BY DEF Readings, Elapsed
<1>3. 0 \in Spans /\ \A n \in 1..Ttl + 1 : n \in Spans /\ n # 0 /\ n - t \in Spans /\ n - 0 = n
  BY <1>2, RateAssumption DEF Spans
<1>4. ASSUME NEW counts \in [Spans -> Nat]
      PROVE  /\ now(counts) \in [Spans -> Nat]
             /\ counts[0] = 0 => now(counts)[0] = 0
             /\ \A n \in 1..Ttl + 1 : now(counts)[n] = counts[n - t]
  BY <1>2, <1>3, CountsType
<1>5. /\ asked' = AndOne(now(asked)) /\ early' = now(early)
      /\ admitted' = IF d = 0 THEN now(admitted) ELSE AndOne(now(admitted))
  BY DEF Incremented
<1> HIDE DEF t, d, now
<1>6. /\ asked'[0] = 0 /\ \A n \in 1..Ttl + 1 : asked'[n] = asked[n - t] + 1
  BY <1>1, <1>3, <1>4, <1>5, CountsType
<1>7. \A n \in 1..Ttl + 1 : early'[n] = early[n - t]
  BY <1>1, <1>4, <1>5
<1>8. /\ admitted[0] = 0 => admitted'[0] = 0
      /\ \A n \in 1..Ttl + 1 : admitted'[n] = admitted[n - t] + d
  <2>1. CASE d = 0
    <3>1. \A n \in 1..Ttl + 1 : admitted[n - t] \in Nat
      BY <1>1, <1>3
    <3> QED  BY <1>1, <1>4, <1>5, <2>1, <3>1
  <2>2. CASE d = 1
    BY <1>1, <1>3, <1>4, <1>5, <2>2, CountsType
  <2> QED  BY <1>2, <2>1, <2>2
<1> QED  BY <1>2, <1>3, <1>6, <1>7, <1>8 DEF t, d
LEMMA AdmittedIncrement ==
  ASSUME RateTypeOK, AdmittedInWindow, AdmittedBefore, RateTypeOK',
         NEW p \in Readings, Incremented(p)
  PROVE  AdmittedInWindow' /\ AdmittedBefore'
<1> DEFINE new == Upsert(p)
           t == Elapsed(7, p)
           d == IF new.blocked > 0 THEN 0 ELSE 1
<1>1. /\ Limit \in Nat \ {0} /\ Ttl \in Nat \ {0}
  BY RateAssumption
<1>2. /\ row' = new /\ row' # NoRow /\ row' \in Rows /\ new \in Rows
  BY UpsertType, RateAssumption DEF Incremented, Rows
<1>3. /\ new.hits \in 1..Limit + 1 /\ new.window \in 0..Ttl /\ new.blocked \in 0..Block
  BY <1>2 DEF Rows
<1>4. /\ t \in {0, 1} /\ d \in {0, 1} /\ admitted'[0] = 0
      /\ \A n \in 1..Ttl + 1 : /\ n - t \in Spans
                               /\ admitted'[n] = admitted[n - t] + d
                               /\ early'[n] = early[n - t]
  BY CountsAfter DEF AdmittedInWindow
<1>5. /\ \A n \in Spans : admitted[n] \in Nat /\ early[n] \in Nat /\ Limit * early[n] \in Nat
      /\ \A n \in Spans : admitted'[n] \in Nat /\ early'[n] \in Nat /\ Limit * early'[n] \in Nat
  BY <1>1 DEF RateTypeOK
<1>6. Spans = 0..Ttl + 1 /\ 0 \in Spans
  BY <1>1 DEF Spans
<1>7. d = 1 <=> new.blocked = 0
  BY <1>3
<1> DEFINE c == IF new.blocked > 0 /\ new.window > new.blocked THEN 0
                ELSE IF new.hits > Limit THEN Limit ELSE new.hits
<1>8. Counted' = c /\ c \in 0..Limit /\ d <= c
  BY <1>1, <1>2, <1>3 DEF Counted
<1>9. \A n \in 0..Ttl : n # 0 => n \in 1..Ttl + 1 /\ n - t \in 0..Ttl
  BY <1>1, <1>4
<1>10. row # NoRow => /\ row.hits \in 1..Limit + 1 /\ row.window \in 0..Ttl
                      /\ row.blocked \in 0..Block /\ Counted \in 0..Limit
  <2> SUFFICES ASSUME row # NoRow
               PROVE  /\ row.hits \in 1..Limit + 1 /\ row.window \in 0..Ttl
                      /\ row.blocked \in 0..Block /\ Counted \in 0..Limit
    OBVIOUS
  <2>1. row.hits \in 1..Limit + 1 /\ row.window \in 0..Ttl /\ row.blocked \in 0..Block
    BY DEF RateTypeOK, Rows
  <2> QED  BY <1>1, <2>1 DEF Counted
<1> DEFINE GoesOn == /\ row # NoRow /\ row.window > 0 /\ new.window = row.window - t
                     /\ new.hits = More(row.hits)
                     /\ new.blocked = 0 => \/ row.hits < Limit
                                           \/ row.window = 1 /\ t = 1
                                           \/ row.blocked = 1 /\ t = 1
           Begins == /\ row # NoRow => row.window <= t
                     /\ new.window = Ttl \/ (t = 1 /\ new.window = Ttl - 1)
<1>11. GoesOn \/ Begins
  <2>1. CASE row = NoRow
    <3>1. new.window = Until(Ttl, 3, p)
      BY <2>1 DEF Upsert
    <3>2. Elapsed(3, p) \in {0, 1} /\ Elapsed(3, p) <= t
      BY ElapsedGrows
    <3> QED  BY <1>1, <1>4, <2>1, <3>1, <3>2 DEF Until
  <2>2. CASE row # NoRow
    BY <2>2, RowAfter
  <2> QED  BY <2>1, <2>2
<1>12. new.blocked > 0 => \/ new.window <= new.blocked
                          \/ /\ row # NoRow /\ row.blocked > 0
                             /\ new.blocked = row.blocked - t
  <2>1. CASE row = NoRow
    BY <2>1 DEF Upsert
  <2>2. CASE row # NoRow
    BY <2>2, RowAfter
  <2> QED  BY <2>1, <2>2
<1>13. row # NoRow => \A n \in 0..Ttl - row.window :
                        admitted[n] <= Counted + (IF row.window = 0 THEN 1 ELSE 0)
  BY DEF AdmittedInWindow
<1>14. \A n \in 0..Ttl :
         admitted[n] <= Limit + 1 + Limit * early[n]
                          + (IF row # NoRow /\ n > Ttl - row.window THEN Counted ELSE 0)
  BY DEF AdmittedBefore
<1>15. GoesOn => Counted + d <= c \/ (new.window = 0 /\ Counted <= c)
  <2> SUFFICES ASSUME GoesOn PROVE Counted + d <= c \/ (new.window = 0 /\ Counted <= c)
    OBVIOUS
  <2> DEFINE least(h) == IF h > Limit THEN Limit ELSE h
  <2>1. /\ least(row.hits) <= least(new.hits) /\ least(new.hits) \in 1..Limit
        /\ least(row.hits) \in 1..Limit
        /\ row.hits < Limit => least(row.hits) + 1 = least(new.hits)
    BY <1>1, <1>3, <1>10 DEF More
  <2>2. /\ Counted = IF row.blocked > 0 /\ row.window > row.blocked THEN 0 ELSE least(row.hits)
        /\ c = IF new.blocked > 0 /\ new.window > new.blocked THEN 0 ELSE least(new.hits)
    BY DEF Counted
  <2> HIDE DEF c, new, t, d, least
  <2>3. CASE new.blocked > 0
    <3>1. d = 0
      BY <1>4, <1>7, <2>3
    <3> QED  BY <1>3, <1>4, <1>10, <1>12, <2>1, <2>2, <2>3, <3>1
  <2>4. CASE new.blocked = 0
    <3>1. d = 1 /\ c = least(new.hits)
      BY <1>7, <2>2, <2>4
    <3> QED  BY <1>3, <1>4, <1>10, <2>1, <2>2, <2>4, <3>1
  <2> QED  BY <1>3, <2>3, <2>4
<1> HIDE DEF c, new, t, d
<1>16. \A n \in 0..Ttl : admitted[n] \in Nat /\ Limit * early[n] \in Nat
  BY <1>1, <1>5, <1>6
<1>17. \A n \in 1..Ttl - new.window :
         admitted[n - t] + d <= c + (IF new.window = 0 THEN 1 ELSE 0)
  <2> SUFFICES ASSUME NEW n \in 1..Ttl - new.window
               PROVE  admitted[n - t] + d <= c + (IF new.window = 0 THEN 1 ELSE 0)
    OBVIOUS
  <2>1. CASE GoesOn
    <3>1. n - t \in 0..Ttl - row.window /\ row # NoRow /\ row.window # 0
      BY <1>1, <1>4, <1>10, <2>1
    <3>2. admitted[n - t] <= Counted
      BY <1>10, <1>13, <3>1
    <3>3. admitted[n - t] \in Nat
      BY <1>1, <1>10, <1>16, <3>1
    <3> QED  BY <1>4, <1>8, <1>10, <1>15, <2>1, <3>2, <3>3
  <2>2. CASE Begins
    <3>1. n = 1 /\ t = 1
      BY <1>1, <1>4, <2>2
    <3>2. admitted[n - t] = 0
      BY <3>1 DEF AdmittedInWindow
    <3> QED  BY <1>4, <1>8, <3>2
  <2> QED  BY <1>11, <2>1, <2>2
<1>18. \A n \in 1..Ttl :
         admitted[n - t] + d <= Limit + 1 + Limit * early[n - t]
                                  + (IF n > Ttl - new.window THEN c ELSE 0)
  <2> SUFFICES ASSUME NEW n \in 1..Ttl
               PROVE  admitted[n - t] + d <= Limit + 1 + Limit * early[n - t]
                                               + (IF n > Ttl - new.window THEN c ELSE 0)
    OBVIOUS
  <2> DEFINE m == n - t
             e == Limit * early[m]
  <2>1. m \in 0..Ttl /\ n = m + t
    BY <1>1, <1>4
  <2>2. admitted[m] \in Nat /\ e \in Nat
    BY <1>16, <2>1
  <2>3. admitted[m] <= Limit + 1 + e
                         + (IF row # NoRow /\ m > Ttl - row.window THEN Counted ELSE 0)
    BY <1>14, <2>1
  <2> HIDE DEF m, e
  <2>4. CASE GoesOn /\ m <= Ttl - row.window
    <3>1. m \in 0..Ttl - row.window
      BY <1>1, <1>10, <2>1, <2>4
    <3>2. admitted[m] <= Counted
      BY <1>10, <1>13, <2>4, <3>1
    <3> QED  BY <1>1, <1>4, <1>8, <1>10, <2>2, <2>4, <3>2 DEF m, e
  <2>5. CASE GoesOn /\ ~(m <= Ttl - row.window)
    <3>1. m > Ttl - row.window /\ n > Ttl - new.window /\ new.window # 0
      BY <1>1, <1>4, <1>10, <2>1, <2>5
    <3>2. admitted[m] <= Limit + 1 + e + Counted
      BY <2>3, <2>5, <3>1
    <3>3. Counted + d <= c
      BY <1>15, <2>5, <3>1
    <3> QED  BY <1>1, <1>4, <1>8, <1>10, <2>2, <2>5, <3>1, <3>2, <3>3 DEF m, e
  <2>6. CASE Begins
    <3>1. admitted[m] <= Limit + 1 + e
      <4>1. CASE row = NoRow
        BY <1>1, <2>2, <2>3, <4>1
      <4>2. CASE row # NoRow
        <5>1. m \in 0..Ttl - row.window
          BY <1>1, <1>4, <1>10, <2>1, <2>6, <4>2
        <5> QED  BY <1>1, <1>10, <1>13, <2>2, <4>2, <5>1
      <4> QED  BY <4>1, <4>2
    <3>2. CASE n > Ttl - new.window
      BY <1>1, <1>4, <1>8, <2>2, <3>1, <3>2 DEF m, e
    <3>3. CASE ~(n > Ttl - new.window)
      <4>1. n = 1 /\ t = 1
        BY <1>1, <1>3, <1>4, <2>6, <3>3
      <4>2. admitted[m] = 0
        BY <4>1 DEF AdmittedInWindow, m
      <4> QED  BY <1>1, <1>4, <1>8, <2>2, <3>3, <4>2 DEF m, e
    <3> QED  BY <3>2, <3>3
  <2> QED  BY <1>11, <2>4, <2>5, <2>6
<1>19. AdmittedInWindow'
  BY <1>1, <1>2, <1>3, <1>4, <1>8, <1>17 DEF AdmittedInWindow
<1>20. AdmittedBefore'
  <2> SUFFICES ASSUME NEW n \in 0..Ttl
               PROVE  admitted'[n] <= Limit + 1 + Limit * early'[n]
                        + (IF row' # NoRow /\ n > Ttl - row'.window THEN Counted' ELSE 0)
    BY DEF AdmittedBefore
  <2>1. n \in Spans /\ Limit * early'[n] \in Nat /\ row'.window = new.window
    BY <1>1, <1>2, <1>5, <1>6
  <2>2. CASE n = 0
    BY <1>1, <1>4, <1>8, <2>1, <2>2
  <2>3. CASE n # 0
    <3>1. n \in 1..Ttl /\ n \in 1..Ttl + 1
      BY <1>1, <2>3
    <3>2. admitted'[n] = admitted[n - t] + d /\ early'[n] = early[n - t]
      BY <1>4, <3>1
    <3> QED  BY <1>2, <1>8, <1>18, <2>1, <3>1, <3>2
  <2> QED  BY <2>2, <2>3
<1> QED  BY <1>19, <1>20

LEMMA AskedIncrement ==
  ASSUME RateTypeOK, AskedInWindow, NEW p \in Readings, Incremented(p)
  PROVE  AskedInWindow'
<1> DEFINE new == Upsert(p)
           t == Elapsed(7, p)
<1>1. /\ Limit \in Nat \ {0} /\ Ttl \in Nat \ {0}
  BY RateAssumption
<1>2. /\ t \in {0, 1} /\ asked'[0] = 0
      /\ \A n \in 1..Ttl + 1 : n - t \in Spans /\ asked'[n] = asked[n - t] + 1
  BY CountsAfter
<1>3. \A n \in Spans : asked[n] \in Nat
  BY DEF RateTypeOK
<1>4. \A m, n \in Spans : m <= n => asked[m] <= asked[n]
  BY DEF AskedInWindow
<1>5. row' = new /\ new.window \in 0..Ttl /\ new.hits \in 1..Limit + 1
      /\ carried' = (row # NoRow /\ new.hits > 1 /\ (carried \/ Left(row.window, 2, p) <= 0))
  BY UpsertType DEF Incremented, Rows
<1>6. Spans = 0..Ttl + 1
  BY DEF Spans
<1> HIDE DEF t
<1>7. ASSUME NEW m \in Spans, NEW n \in Spans, m <= n PROVE asked'[m] <= asked'[n]
  <2>1. CASE m = 0
    BY <1>1, <1>2, <1>3, <1>6, <2>1
  <2>2. CASE m # 0
    <3>1. m \in 1..Ttl + 1 /\ n \in 1..Ttl + 1 /\ m - t <= n - t
      BY <1>1, <1>2, <1>6, <1>7, <2>2
    <3> QED  BY <1>2, <1>3, <1>4, <3>1
  <2> QED  BY <2>1, <2>2
<1>8. ASSUME new.window > 0, ~carried' PROVE new.hits <= asked'[Ttl - new.window + 1]
  <2> DEFINE n == Ttl - new.window + 1
  <2>1. n \in 1..Ttl + 1 /\ asked'[n] = asked[n - t] + 1 /\ asked[n - t] \in Nat
    BY <1>1, <1>2, <1>3, <1>5, <1>8
  <2> HIDE DEF n
  <2>2. CASE new.hits = 1
    BY <2>1, <2>2 DEF n
  <2>3. CASE new.hits # 1
    <3>1. row # NoRow /\ ~carried /\ ~(Left(row.window, 2, p) <= 0)
      <4>1. row # NoRow
        BY <2>3 DEF Upsert
      <4>2. new.hits > 1 /\ carried \in BOOLEAN
        BY <1>1, <1>5, <2>3 DEF RateTypeOK
      <4>3. ~(carried \/ Left(row.window, 2, p) <= 0)
        BY <1>5, <1>8, <4>1, <4>2, Zenon
      <4> QED  BY <4>1, <4>3, Zenon
    <3>2. row.window > 0 /\ new.window = row.window - t /\ new.hits = More(row.hits)
      BY <3>1, RowAfter DEF t
    <3>3. row.window \in 0..Ttl /\ row.hits \in 1..Limit + 1
      BY <3>1 DEF RateTypeOK, Rows
    <3>4. row.hits <= asked[Ttl - row.window + 1]
      BY <3>1, <3>2 DEF AskedInWindow
    <3>5. n - t = Ttl - row.window + 1
      BY <1>1, <1>2, <3>2, <3>3 DEF n
    <3>6. new.hits <= row.hits + 1
      BY <1>1, <3>2, <3>3 DEF More
    <3> QED  BY <1>5, <2>1, <3>3, <3>4, <3>5, <3>6 DEF n
  <2> QED  BY <2>2, <2>3
<1> QED  BY <1>5, <1>7, <1>8 DEF AskedInWindow

\* The row's deletion, before the window's end or after it.
LEMMA CleanupKeeps ==
  ASSUME RateTypeOK, RateTypeOK', AdmittedInWindow, AdmittedBefore, AskedInWindow, CleanupRow
  PROVE  AdmittedInWindow' /\ AdmittedBefore' /\ AskedInWindow'
<1>1. /\ Limit \in Nat \ {0} /\ Ttl \in Nat \ {0} /\ Spans = 0..Ttl + 1
      /\ \A n \in 0..Ttl : n \in Spans
  BY RateAssumption DEF Spans
<1>2. /\ row # NoRow /\ row' = NoRow /\ UNCHANGED <<asked, admitted>>
      /\ early' = IF row.window > 0 THEN AndOne(early) ELSE early
  BY DEF CleanupRow
<1>3. row.hits \in 1..Limit + 1 /\ row.window \in 0..Ttl /\ Counted \in 0..Limit
  <2>1. row.hits \in 1..Limit + 1 /\ row.window \in 0..Ttl
    BY <1>2 DEF RateTypeOK, Rows
  <2> QED  BY <1>1, <2>1 DEF Counted
<1>4. \A n \in Spans : /\ admitted[n] \in Nat /\ early[n] \in Nat /\ early'[n] \in Nat
                       /\ Limit * early[n] \in Nat /\ Limit * early'[n] \in Nat
  <2>1. \A n \in Spans : admitted[n] \in Nat /\ early[n] \in Nat /\ early'[n] \in Nat
    BY DEF RateTypeOK
  <2> QED  BY <1>1, <2>1
<1>5. ASSUME NEW n \in 0..Ttl PROVE admitted[n] <= Limit + 1 + Limit * early'[n]
  <2>1. n \in Spans
    BY <1>1
  <2>2. CASE row.window = 0
    <3>1. admitted[n] <= Counted + 1
      BY <1>1, <1>2, <2>2 DEF AdmittedInWindow
    <3> QED  BY <1>1, <1>3, <1>4, <2>1, <3>1
  <2>3. CASE row.window # 0 /\ n # 0
    <3>1. early'[n] = early[n] + 1
      <4>1. early' = AndOne(early) /\ early \in [Spans -> Nat]
        BY <1>2, <1>3, <2>3 DEF RateTypeOK
      <4> QED  BY <2>1, <2>3, <4>1, CountsType
    <3>2. Limit * (early[n] + 1) = Limit * early[n] + Limit
      BY <1>1, <1>4, <2>1
    <3>3. admitted[n] <= Limit + 1 + Limit * early[n]
                           + (IF row # NoRow /\ n > Ttl - row.window THEN Counted ELSE 0)
      BY DEF AdmittedBefore
    <3>4. admitted[n] <= Limit + 1 + Limit * early[n] + Counted
      BY <1>1, <1>3, <1>4, <2>1, <3>3, SMTT(60)
    <3>5. Limit * early'[n] = Limit * early[n] + Limit
      BY <3>1, <3>2
    <3> DEFINE x == Limit * early[n]
               y == Limit * early'[n]
    <3>6. admitted[n] \in Nat /\ x \in Nat /\ y = x + Limit /\ admitted[n] <= Limit + 1 + x + Counted
      BY <1>4, <2>1, <3>4, <3>5
    <3> HIDE DEF x, y
    <3>7. admitted[n] <= Limit + 1 + y
      BY <1>1, <1>3, <3>6
    <3> QED  BY <3>7 DEF y
  <2>4. CASE n = 0
    BY <1>1, <1>4, <2>1, <2>4 DEF AdmittedInWindow
  <2> QED  BY <2>2, <2>3, <2>4
<1>6. AdmittedBefore'
  <2> SUFFICES ASSUME NEW n \in 0..Ttl
               PROVE  admitted'[n] <= Limit + 1 + Limit * early'[n]
                        + (IF row' # NoRow /\ n > Ttl - row'.window THEN Counted' ELSE 0)
    BY DEF AdmittedBefore
  <2>1. n \in Spans /\ Limit * early'[n] \in Nat
    BY <1>1, <1>4
  <2> QED  BY <1>1, <1>2, <1>5, <2>1
<1>7. AdmittedInWindow'
  BY <1>2 DEF AdmittedInWindow
<1>8. AskedInWindow'
  BY <1>2 DEF AskedInWindow
<1> QED  BY <1>6, <1>7, <1>8

\* A tick.
LEMMA TickKeeps ==
  ASSUME RateTypeOK, RateTypeOK', AdmittedInWindow, AdmittedBefore, AskedInWindow, RateTick
  PROVE  AdmittedInWindow' /\ AdmittedBefore' /\ AskedInWindow'
<1>1. /\ Limit \in Nat \ {0} /\ Ttl \in Nat \ {0} /\ Spans = 0..Ttl + 1 /\ 0 \in Spans
      /\ \A n \in 0..Ttl : n \in Spans
      /\ \A n \in 1..Ttl + 1 : n \in Spans /\ n - 1 \in Spans /\ n # 0
  BY RateAssumption DEF Spans
<1>2. /\ asked'[0] = 0 /\ admitted'[0] = 0 /\ early'[0] = 0
      /\ \A n \in 1..Ttl + 1 : /\ asked'[n] = asked[n - 1] /\ admitted'[n] = admitted[n - 1]
                               /\ early'[n] = early[n - 1]
  <2>1. asked' = Older(asked) /\ admitted' = Older(admitted) /\ early' = Older(early)
    BY DEF RateTick
  <2>2. /\ asked \in [Spans -> Nat] /\ admitted \in [Spans -> Nat] /\ early \in [Spans -> Nat]
    BY DEF RateTypeOK
  <2> QED  BY <1>1, <2>1, <2>2, CountsType
<1>3. \A n \in Spans : /\ asked[n] \in Nat /\ admitted[n] \in Nat /\ early[n] \in Nat
                       /\ Limit * early[n] \in Nat /\ early'[n] \in Nat
                       /\ Limit * early'[n] \in Nat
  <2>1. \A n \in Spans : /\ asked[n] \in Nat /\ admitted[n] \in Nat /\ early[n] \in Nat
                         /\ early'[n] \in Nat
    BY DEF RateTypeOK
  <2> QED  BY <1>1, <2>1
<1>4. /\ row = NoRow => row' = NoRow
      /\ row # NoRow => /\ row.hits \in 1..Limit + 1 /\ row.window \in 0..Ttl
                        /\ row.blocked \in Nat
                        /\ row' # NoRow /\ row'.hits = row.hits
                        /\ row'.window = Later(row.window)
                        /\ row'.blocked = Later(row.blocked)
  <2>1. CASE row = NoRow
    BY <2>1 DEF RateTick
  <2>2. CASE row # NoRow
    <3>1. row \in Rows /\ row' = [row EXCEPT !.window = Later(row.window),
                                             !.blocked = Later(row.blocked)]
      BY <2>2 DEF RateTypeOK, RateTick
    <3>2. /\ row.hits \in 1..Limit + 1 /\ row.window \in 0..Ttl /\ row.blocked \in 0..Block
          /\ row'.hits = row.hits /\ row'.window = Later(row.window)
          /\ row'.blocked = Later(row.blocked)
      BY <3>1 DEF Rows
    <3>3. row' # NoRow
      <4>1. row' \in [hits : Nat, window : Nat, blocked : Nat]
        <5>1. row.hits \in Nat /\ Later(row.window) \in Nat /\ Later(row.blocked) \in Nat
          BY <1>1, <3>2, RateAssumption DEF Later
        <5> QED  BY <3>1, <5>1 DEF Rows
      <4> QED  BY <4>1, RateAssumption
    <3> QED  BY <2>2, <3>2, <3>3, RateAssumption
  <2> QED  BY <2>1, <2>2
<1>5. row # NoRow => Counted \in 0..Limit /\ Counted' \in 0..Limit /\ Counted <= Counted'
  BY <1>1, <1>4 DEF Counted, Later
<1>6. AdmittedInWindow'
  <2> SUFFICES ASSUME row # NoRow, NEW n \in 0..Ttl - row'.window
               PROVE  admitted'[n] <= Counted' + (IF row'.window = 0 THEN 1 ELSE 0)
    BY <1>2, <1>4 DEF AdmittedInWindow
  <2>1. CASE n = 0
    BY <1>2, <1>5, <2>1
  <2>2. CASE n # 0
    <3>1. /\ n - 1 \in 0..Ttl - row.window /\ n \in 1..Ttl + 1
          /\ row.window = 0 => row'.window = 0
      BY <1>1, <1>4, <2>2 DEF Later
    <3>2. admitted[n - 1] <= Counted + (IF row.window = 0 THEN 1 ELSE 0)
      BY <3>1 DEF AdmittedInWindow
    <3> QED  BY <1>1, <1>2, <1>3, <1>5, <3>1, <3>2
  <2> QED  BY <2>1, <2>2
<1>7. AdmittedBefore'
  <2> SUFFICES ASSUME NEW n \in 0..Ttl
               PROVE  admitted'[n] <= Limit + 1 + Limit * early'[n]
                        + (IF row' # NoRow /\ n > Ttl - row'.window THEN Counted' ELSE 0)
    BY DEF AdmittedBefore
  <2>1. n \in Spans /\ Limit * early'[n] \in Nat
    BY <1>1, <1>3
  <2>2. CASE n = 0
    <3> DEFINE y == Limit * early'[n]
    <3>1. y \in Nat /\ admitted'[n] = 0 /\ (row' # NoRow => Counted' \in Nat)
      BY <1>1, <1>2, <1>4, <1>5, <2>1, <2>2
    <3> HIDE DEF y
    <3>2. 0 <= Limit + 1 + y + (IF row' # NoRow /\ n > Ttl - row'.window THEN Counted' ELSE 0)
      BY <1>1, <3>1
    <3> QED  BY <3>1, <3>2 DEF y
  <2>3. CASE n # 0
    <3>1. n - 1 \in 0..Ttl /\ n \in 1..Ttl + 1
      BY <1>1, <2>3
    <3>2. admitted[n - 1] <= Limit + 1 + Limit * early[n - 1]
            + (IF row # NoRow /\ n - 1 > Ttl - row.window THEN Counted ELSE 0)
      BY <3>1 DEF AdmittedBefore
    <3>3. admitted'[n] = admitted[n - 1] /\ early'[n] = early[n - 1]
      BY <1>2, <3>1
    <3>4. row # NoRow /\ n - 1 > Ttl - row.window => n > Ttl - row'.window
      BY <1>1, <1>4, <3>1 DEF Later
    <3>5. admitted[n - 1] \in Nat
      BY <1>1, <1>3, <3>1
    <3> QED  BY <1>1, <1>4, <1>5, <2>1, <3>2, <3>3, <3>4, <3>5
  <2> QED  BY <2>2, <2>3
<1>8. AskedInWindow'
  <2>1. ASSUME NEW m \in Spans, NEW n \in Spans, m <= n PROVE asked'[m] <= asked'[n]
    <3>1. CASE m = 0
      <4>1. asked'[n] \in Nat
        BY DEF RateTypeOK
      <4> QED  BY <1>2, <3>1, <4>1
    <3>2. CASE m # 0
      <4>1. m \in 1..Ttl + 1 /\ n \in 1..Ttl + 1 /\ m - 1 <= n - 1
        BY <1>1, <2>1, <3>2
      <4> QED  BY <1>1, <1>2, <4>1 DEF AskedInWindow
    <3> QED  BY <3>1, <3>2
  <2>2. ASSUME row' # NoRow, row'.window > 0, ~carried'
        PROVE  row'.hits <= asked'[Ttl - row'.window + 1]
    <3>1. /\ row # NoRow /\ row.window > 0 /\ row'.window = row.window - 1
          /\ row'.hits = row.hits /\ row.window \in 0..Ttl
      BY <1>4, <2>2 DEF Later
    <3>2. ~carried
      BY <2>2 DEF RateTick
    <3>3. row.hits <= asked[Ttl - row.window + 1]
      BY <3>1, <3>2 DEF AskedInWindow
    <3> DEFINE n == Ttl - row'.window + 1
    <3>4. n \in 1..Ttl + 1 /\ n - 1 = Ttl - row.window + 1
      BY <1>1, <3>1
    <3> HIDE DEF n
    <3>5. asked'[n] = asked[n - 1]
      BY <1>2, <3>4
    <3> QED  BY <3>1, <3>3, <3>4, <3>5 DEF n
  <2> QED  BY <2>1, <2>2 DEF AskedInWindow
<1> QED  BY <1>6, <1>7, <1>8

-----------------------------------------------------------------------------
LEMMA RateInvInit == RateInit => RateInv
<1> SUFFICES ASSUME RateInit PROVE RateInv
  OBVIOUS
<1>1. /\ Limit \in Nat \ {0} /\ Ttl \in Nat \ {0} /\ Spans = 0..Ttl + 1
      /\ \A n \in 0..Ttl : n \in Spans
  BY RateAssumption DEF Spans
<1>2. row = NoRow /\ \A n \in Spans : asked[n] = 0 /\ admitted[n] = 0 /\ early[n] = 0
  BY DEF RateInit
<1>3. AdmittedInWindow /\ AskedInWindow
  BY <1>1, <1>2 DEF AdmittedInWindow, AskedInWindow
<1>4. AdmittedBefore
  <2>1. Limit * 0 = 0
    BY <1>1
  <2> QED  BY <1>1, <1>2, <2>1 DEF AdmittedBefore
<1> QED  BY <1>3, <1>4, InitInv DEF RateInv

LEMMA RateInvStep == RateInv /\ [RateNext]_rateVars => RateInv'
<1> SUFFICES ASSUME RateInv, [RateNext]_rateVars PROVE RateInv'
  OBVIOUS
<1> USE DEF RateInv
<1>1. RateTypeOK
  BY DEF BlockInv
<1>2. BlockInv'
  <2>1. UNCHANGED rateVars => BlockInv'
    BY DEF rateVars, BlockInv, RateTypeOK, BlockIsServed, BlockIsPromise
  <2> QED  BY <2>1, RequestInv, CleanupInv, TickInv DEF RateNext
<1>3. RateTypeOK'
  BY <1>2 DEF BlockInv
<1>4. CASE Increment
  <2>1. PICK p \in Readings : Incremented(p)
    BY <1>4 DEF Increment, Incremented
  <2> QED  BY <1>1, <1>2, <1>3, <2>1, AdmittedIncrement, AskedIncrement
<1>5. CASE CleanupRow
  BY <1>1, <1>2, <1>3, <1>5, CleanupKeeps
<1>6. CASE RateTick
  BY <1>1, <1>2, <1>3, <1>6, TickKeeps
<1>7. CASE UNCHANGED rateVars
  <2>1. /\ AdmittedInWindow' <=> AdmittedInWindow
        /\ AdmittedBefore' <=> AdmittedBefore
        /\ AskedInWindow' <=> AskedInWindow
    BY <1>7 DEF rateVars, AdmittedInWindow, AdmittedBefore, AskedInWindow, Counted
  <2> QED  BY <1>2, <2>1
<1> QED  BY <1>4, <1>5, <1>6, <1>7 DEF RateNext

\* The inductive invariant holds in every reachable state, for every window,
\* limit, block and skew.
THEOREM RateInvariant == RateSpec => []RateInv
  BY RateInvInit, RateInvStep, PTL DEF RateSpec

\* A refused client stays refused for as long as it was told, up to the worker's
\* skew, and is admitted when it comes back then.
THEOREM BlocksAreKept == RateSpec => []BlockIsKept
<1>1. RateInv => BlockIsKept
  <2> SUFFICES ASSUME RateInv PROVE BlockIsKept
    OBVIOUS
  <2>1. PoliteRetryIsAdmitted
    BY PoliteIsFree DEF RateInv, BlockInv, PoliteRetryIsAdmitted
  <2> QED  BY <2>1 DEF RateInv, BlockInv, BlockIsKept
<1> QED  BY <1>1, RateInvariant, PTL

\* No span of a window's length sees more admitted than twice the limit and one,
\* and the limit again for each row that was deleted too early.
THEOREM BurstsAreBounded == RateSpec => []BurstIsBounded
<1>1. ASSUME RateInv PROVE BurstIsBounded
  <2>1. /\ Limit \in Nat \ {0} /\ Ttl \in 0..Ttl /\ Ttl \in Spans /\ Ttl \in Nat
    BY RateAssumption DEF Spans
  <2>2. admitted[Ttl] \in Nat /\ early[Ttl] \in Nat
    BY <1>1, <2>1 DEF RateInv, BlockInv, RateTypeOK
  <2>3. row # NoRow => Counted \in 0..Limit
    BY <1>1, <2>1 DEF RateInv, BlockInv, RateTypeOK, Rows, Counted
  <2> DEFINE e == Limit * early[Ttl]
  <2>4. /\ e \in Nat
        /\ admitted[Ttl] <= Limit + 1 + e
             + (IF row # NoRow /\ Ttl > Ttl - row.window THEN Counted ELSE 0)
    BY <1>1, <2>1, <2>2 DEF RateInv, AdmittedBefore
  <2> HIDE DEF e
  <2>5. admitted[Ttl] <= 2 * Limit + 1 + e
    BY <2>1, <2>2, <2>3, <2>4
  <2> QED  BY <2>5 DEF BurstIsBounded, e
<1> QED  BY <1>1, RateInvariant, PTL

\* A block begins only when more than the limit was asked within a window's
\* length, or a request was carried over from the window before.
THEOREM RefusalsAreEarned == RateSpec => RefusedMeansExceeded
<1>1. ASSUME RateInv, [RateNext]_rateVars,
             row' # NoRow, row'.blocked > 0, row = NoRow \/ row.blocked = 0, ~carried'
      PROVE  asked'[Ttl + 1] > Limit
  <2>1. /\ Limit \in Nat \ {0} /\ Ttl \in Nat \ {0} /\ Spans = 0..Ttl + 1
    BY RateAssumption DEF Spans
  <2>2. RateTypeOK /\ AskedInWindow
    BY <1>1 DEF RateInv, BlockInv
  <2>3. ~RateTick /\ ~CleanupRow /\ row' # row
    <3>1. row # NoRow => row \in Rows /\ row.blocked = 0
      BY <1>1, <2>2 DEF RateTypeOK
    <3>2. ~RateTick
      <4> SUFFICES ASSUME RateTick PROVE FALSE
        OBVIOUS
      <4>1. row # NoRow /\ row \in Rows /\ row.blocked = 0
        BY <1>1, <3>1 DEF RateTick
      <4>2. row' = [row EXCEPT !.window = Later(row.window), !.blocked = Later(row.blocked)]
        BY <4>1 DEF RateTick
      <4>3. row'.blocked = Later(0)
        BY <4>1, <4>2 DEF Rows
      <4> QED  BY <1>1, <4>3 DEF Later
    <3>3. ~CleanupRow
      BY <1>1 DEF CleanupRow
    <3> QED  BY <1>1, <3>1, <3>2, <3>3
  <2>4. Increment
    BY <1>1, <2>3 DEF RateNext, rateVars
  <2>5. PICK p \in Readings : Incremented(p)
    BY <2>4 DEF Increment, Incremented
  <2> DEFINE t == Elapsed(7, p)
  <2>6. row' = Upsert(p) /\ row # NoRow /\ row.blocked = 0
    <3>1. row' = Upsert(p)
      BY <2>5 DEF Incremented
    <3>2. row # NoRow
      BY <1>1, <3>1 DEF Upsert
    <3> QED  BY <1>1, <3>1, <3>2
  <2>7. /\ Left(row.window, 2, p) > 0 /\ row.window > 0
        /\ Upsert(p).hits = More(row.hits) /\ row.hits >= Limit
    BY <1>1, <2>2, <2>6, RowAfter
  <2>8. row.window \in 0..Ttl /\ row.hits \in 1..Limit + 1 /\ carried \in BOOLEAN
    BY <2>2, <2>6 DEF RateTypeOK, Rows
  <2>9. ~carried
    <3>1. Upsert(p).hits > 1
      BY <2>1, <2>7, <2>8 DEF More
    <3>2. carried' = (row # NoRow /\ Upsert(p).hits > 1
                       /\ (carried \/ Left(row.window, 2, p) <= 0))
      BY <2>5 DEF Incremented
    <3> QED  BY <1>1, <2>6, <3>1, <3>2, Zenon
  <2>10. Limit <= asked[Ttl - row.window + 1]
    <3>1. asked[Ttl - row.window + 1] \in Nat
      <4>1. Ttl - row.window + 1 \in Spans
        BY <2>1, <2>7, <2>8
      <4> QED  BY <2>2, <4>1 DEF RateTypeOK
    <3>2. row.hits <= asked[Ttl - row.window + 1]
      BY <2>2, <2>6, <2>7, <2>9 DEF AskedInWindow
    <3> QED  BY <2>1, <2>7, <2>8, <3>1, <3>2
  <2>11. /\ t \in {0, 1} /\ Ttl + 1 \in 1..Ttl + 1 /\ Ttl + 1 - t \in Spans
         /\ asked'[Ttl + 1] = asked[Ttl + 1 - t] + 1
    BY <2>1, <2>2, <2>5, CountsAfter
  <2>12. asked[Ttl - row.window + 1] <= asked[Ttl + 1 - t]
    <3>1. /\ Ttl - row.window + 1 \in Spans /\ Ttl - row.window + 1 <= Ttl + 1 - t
      BY <2>1, <2>7, <2>8, <2>11
    <3> QED  BY <2>2, <2>11, <3>1 DEF AskedInWindow
  <2>13. asked[Ttl - row.window + 1] \in Nat /\ asked[Ttl + 1 - t] \in Nat
    <3>1. Ttl - row.window + 1 \in Spans
      BY <2>1, <2>7, <2>8
    <3> QED  BY <2>2, <2>11, <3>1 DEF RateTypeOK
  <2> QED  BY <2>1, <2>10, <2>11, <2>12, <2>13
<1>2. RateInv /\ [RateNext]_rateVars =>
        [(row' # NoRow /\ row'.blocked > 0 /\ (row = NoRow \/ row.blocked = 0)
            => asked'[Ttl + 1] > Limit \/ carried')]_rateVars
  BY <1>1
<1> QED  BY <1>2, RateInvariant, PTL DEF RateSpec, RefusedMeansExceeded
=============================================================================
