----------------------------- MODULE AuthSession -----------------------------
(***************************************************************************)
(* Refresh-token sessions: login, refresh, logout, account deletion and    *)
(* the retention job, each a transaction that other transactions run       *)
(* between the statements of.                                              *)
(*                                                                         *)
(* A refresh replaces a session by its successor; the sessions that follow *)
(* one another are a lineage.  A logout, and the use of a token that was   *)
(* replaced, revoke the session and its descendants: one statement walks   *)
(* the lineage in its snapshot and then updates the rows it found, so a    *)
(* successor that commits in between would be missed.  What keeps it from  *)
(* committing is the account's advisory lock.  An account's deletion does  *)
(* not take that lock, only row locks.                                     *)
(***************************************************************************)
EXTENDS Naturals, FiniteSets

CONSTANTS
  Accounts,    \* account ids; after a purge an identity gets a new one
  Sessions,    \* session ids
  Requests,    \* requests in progress at the same time
  NoAccount,   \* the owner of an id that was not issued yet
  NoSession,   \* replaced_by_session_id is null
  Nobody,      \* nobody holds an advisory lock
  MaxLogins,   \* bound: the lineages begun, counting logins in progress
  Lifetime,    \* the 30 days of a refresh token, in ticks
  Retention    \* 35 days after that its session may be deleted

ASSUME AuthSessionAssumption ==
  /\ NoAccount \notin Accounts
  /\ NoSession \notin Sessions
  /\ Nobody \notin Requests
  /\ MaxLogins \in Nat
  /\ Lifetime \in Nat \ {0} /\ Retention \in Nat /\ Lifetime < Retention

VARIABLES
  account,     \* accounts.deleted_at, and whether the row exists
  deletion,    \* the account's deletion transaction
  owner,       \* auth_sessions.account_id of every session ever issued
  stored,      \* the sessions whose row exists
  revoked,     \* the sessions whose revoked_at is set
  successor,   \* replaced_by_session_id, also of deleted rows
  age,         \* the time since each session was issued, up to Retention
  advisory,    \* who holds each account's advisory lock
  request,     \* the requests' transactions
  ended        \* the sessions that were logged out of or used twice

table == <<owner, stored, revoked, successor>>
vars == <<account, deletion, owner, stored, revoked, successor, age,
          advisory, request, ended>>

Idle == [at |-> "idle", op |-> "none", account |-> NoAccount,
         session |-> NoSession, walk |-> {}]

Issued == {s \in Sessions : owner[s] # NoAccount}

Places == {"idle", "found", "waiting", "locked", "session", "rows", "walked"}

Transactions ==
  [at : Places, op : {"none", "login", "refresh", "logout"},
   account : Accounts \cup {NoAccount},
   session : Sessions \cup {NoSession},
   walk : SUBSET Sessions]

TypeOK ==
  /\ account \in [Accounts -> {"absent", "active", "deleting", "purged"}]
  /\ deletion \in [Accounts -> {"idle", "marked"}]
  /\ owner \in [Sessions -> Accounts \cup {NoAccount}]
  /\ stored \subseteq Issued
  /\ \A s \in stored : account[owner[s]] \in {"active", "deleting"}
  /\ revoked \subseteq Issued
  /\ successor \in [Sessions -> Sessions \cup {NoSession}]
  /\ age \in [Sessions -> 0..Retention]
  /\ advisory \in [Accounts -> Requests \cup {Nobody}]
  /\ request \in [Requests -> Transactions]
  /\ ended \subseteq Issued

Init ==
  /\ account = [a \in Accounts |-> "absent"]
  /\ deletion = [a \in Accounts |-> "idle"]
  /\ owner = [s \in Sessions |-> NoAccount]
  /\ stored = {}
  /\ revoked = {}
  /\ successor = [s \in Sessions |-> NoSession]
  /\ age = [s \in Sessions |-> 0]
  /\ advisory = [a \in Accounts |-> Nobody]
  /\ request = [q \in Requests |-> Idle]
  /\ ended = {}

-----------------------------------------------------------------------------
(* Lineages, locks and the conditions of the statements.                   *)

\* The sessions reached from s along next through rows: the members of every
\* set that has s and, for each member, the one next to it.
Reach(next, s, rows) ==
  {d \in rows : \A S \in SUBSET rows :
     (s \in S /\ \A x \in S : next[x] \in rows => next[x] \in S) => d \in S}

\* The whole lineage from s on, whether or not the rows still exist.
Lineage(s) == Reach(successor, s, Sessions)

\* The recursive query: the descendants of s in the table.
Walk(s) == Reach(successor, s, stored)

\* isAccessActive
AccessActive(s) ==
  s \in stored /\ s \notin revoked /\ account[owner[s]] = "active"

\* An access token dies long before its session, so a session is of use to
\* its holder only until it expires.
Usable(s) == AccessActive(s) /\ age[s] < Lifetime

HoldsSession(q, s) ==
  request[q].session = s /\ request[q].at \in {"session", "rows", "walked"}
SessionFree(s) == \A q \in Requests : ~HoldsSession(q, s)

\* SELECT ... FOR UPDATE over the join locks the account's row too.
HoldsAccount(q, a) ==
  /\ request[q].account = a /\ request[q].op = "refresh"
  /\ request[q].at \in {"rows", "walked"}
AccountFree(a) ==
  deletion[a] = "idle" /\ \A q \in Requests : ~HoldsAccount(q, a)

\* Mutant: pg_advisory_lock, which the end of a transaction does not release.
UnlockKept(q) == q \in Requests /\ UNCHANGED advisory

\* pg_advisory_xact_lock is released with the transaction.
Unlock(q) ==
  advisory' = [a \in Accounts |-> IF advisory[a] = q THEN Nobody ELSE advisory[a]]

\* The transaction ends and the request is answered.
Finish(q) == request' = [request EXCEPT ![q] = Idle] /\ Unlock(q)

At(q, op, place) == request[q].op = op /\ request[q].at = place
Goto(q, place) == request' = [request EXCEPT ![q].at = place]

-----------------------------------------------------------------------------
(* Login.                                                                  *)

\* The first sessions of lineages, and those that a login will insert.
Logins ==
  Cardinality({s \in Issued : \A t \in Sessions : successor[t] # s})
    + Cardinality({q \in Requests : request[q].op = "login"})

\* findOrCreateAccount, whose advisory lock on the identity makes it one step.
\* It rejects while the account's deletion is pending.
BeginLogin(q, a) ==
  /\ request[q].at = "idle"
  /\ account[a] \in {"absent", "active"}
  /\ Logins < MaxLogins
  /\ account' = [account EXCEPT ![a] = "active"]
  /\ request' = [request EXCEPT ![q] =
                   [Idle EXCEPT !.at = "found", !.op = "login", !.account = a]]
  /\ UNCHANGED <<deletion, table, age, advisory, ended>>

\* The foreign key of auth_sessions.account_id.
References(a) == account[a] \in {"active", "deleting"}

\* Session n is inserted for the request's account.  Nothing depends on which
\* new id is the next.
Insert(q, n) ==
  /\ owner[n] = NoAccount
  /\ n = CHOOSE new \in Sessions : owner[new] = NoAccount
  /\ owner' = [owner EXCEPT ![n] = request[q].account]
  /\ stored' = stored \cup {n}
  /\ age' = [age EXCEPT ![n] = 0]

\* createSession, a statement of its own: the account may have been deleted
\* since it was found.
CreateSession(q) ==
  /\ At(q, "login", "found") /\ References(request[q].account)
  /\ \E n \in Sessions : Insert(q, n)
  /\ Finish(q)
  /\ UNCHANGED <<account, deletion, revoked, successor, ended>>

-----------------------------------------------------------------------------
(* Refresh and logout: find the owner, lock, read again, act.              *)

\* Mutant: rotateSession does not join the accounts.
AccountLiveUnchecked(a) == account[a] # "absent"

\* isNull(accounts.deletedAt), in every read of rotateSession.
AccountLive(a) == account[a] = "active"

\* The first statement.  A refresh that finds no session of a live account is
\* answered 401; any token ever issued may be presented.
BeginRefresh(q, s) ==
  /\ request[q].at = "idle"
  /\ s \in stored /\ AccountLive(owner[s])
  /\ request' = [request EXCEPT ![q] =
       [Idle EXCEPT !.at = "waiting", !.op = "refresh",
                    !.account = owner[s], !.session = s]]
  /\ UNCHANGED <<account, deletion, table, age, advisory, ended>>

\* A logout of a session whose row is gone succeeds at once.
BeginLogout(q, s) ==
  /\ request[q].at = "idle" /\ s \in Issued
  /\ \/ /\ s \in stored
        /\ request' = [request EXCEPT ![q] =
             [Idle EXCEPT !.at = "waiting", !.op = "logout",
                          !.account = owner[s], !.session = s]]
        /\ UNCHANGED ended
     \/ /\ s \notin stored
        /\ ended' = ended \cup {s}
        /\ UNCHANGED request
  /\ UNCHANGED <<account, deletion, table, age, advisory>>

\* Mutant: the lock is not taken.
TakeLockOfNobody(q) ==
  /\ request[q].at = "waiting"
  /\ Goto(q, "locked")
  /\ UNCHANGED <<account, deletion, table, age, advisory, ended>>

\* pg_advisory_xact_lock on the account
TakeLock(q) ==
  /\ request[q].at = "waiting"
  /\ advisory[request[q].account] = Nobody
  /\ advisory' = [advisory EXCEPT ![request[q].account] = q]
  /\ Goto(q, "locked")
  /\ UNCHANGED <<account, deletion, table, age, ended>>

\* The second read, under the lock, locks the session's row.  A logout that
\* finds it gone succeeds, a refresh is answered 401.
LockSession(q) ==
  LET s == request[q].session
      found == /\ s \in stored
               /\ request[q].op = "refresh" => AccountLive(owner[s])
  IN /\ request[q].at = "locked"
     /\ \/ found /\ Goto(q, "session") /\ UNCHANGED <<advisory, ended>>
        \/ /\ ~found /\ Finish(q)
           /\ ended' = IF request[q].op = "logout" THEN ended \cup {s} ELSE ended
     /\ UNCHANGED <<account, deletion, table, age>>

\* ... and the account's row, which it may have to wait for; the condition is
\* evaluated again then.
LockAccount(q) ==
  LET a == request[q].account
  IN /\ At(q, "refresh", "session") /\ AccountFree(a)
     /\ \/ AccountLive(a) /\ Goto(q, "rows") /\ UNCHANGED advisory
        \/ ~AccountLive(a) /\ Finish(q)
     /\ UNCHANGED <<account, deletion, table, age, ended>>

\* Mutant: rotateSession does not look at revoked_at.
RedeemableRevoked(s) == age[s] < Lifetime

\* The row's expires_at and revoked_at allow a rotation.
Redeemable(s) == age[s] < Lifetime /\ s \notin revoked

\* rotateSession replaces the session.
Rotate(q) ==
  LET s == request[q].session
  IN /\ At(q, "refresh", "rows") /\ Redeemable(s)
     /\ \E n \in Sessions :
          Insert(q, n) /\ successor' = [successor EXCEPT ![s] = n]
     /\ revoked' = revoked \cup {s}
     /\ Finish(q)
     /\ UNCHANGED <<account, deletion, ended>>

\* The session has expired, or the token's secret is not its secret.
Reject(q) ==
  /\ At(q, "refresh", "rows")
  /\ Finish(q)
  /\ UNCHANGED <<account, deletion, table, age, ended>>

\* The snapshot of the update that revokes a lineage: of a refresh whose
\* token was replaced or revoked before, or of a logout.
WalkLineage(q) ==
  LET s == request[q].session
  IN /\ \/ At(q, "refresh", "rows") /\ age[s] < Lifetime /\ s \in revoked
        \/ At(q, "logout", "session")
     /\ request' = [request EXCEPT ![q].at = "walked", ![q].walk = Walk(s)]
     /\ UNCHANGED <<account, deletion, table, age, advisory, ended>>

\* The rows it found are revoked and the transaction commits.
RevokeLineage(q) ==
  /\ request[q].at = "walked"
  /\ revoked' = revoked \cup (request[q].walk \cap stored)
  /\ ended' = ended \cup {request[q].session}
  /\ Finish(q)
  /\ UNCHANGED <<account, deletion, owner, stored, successor, age>>

\* The process dies or the connection fails: the transaction is rolled back.
Abort(q) ==
  /\ request[q].at # "idle"
  /\ Finish(q)
  /\ UNCHANGED <<account, deletion, table, age, ended>>

-----------------------------------------------------------------------------
(* Account deletion, purge and retention.                                  *)

\* deleteAccount's first statement locks the account's row.
MarkDeleted(a) ==
  /\ account[a] = "active" /\ AccountFree(a)
  /\ deletion' = [deletion EXCEPT ![a] = "marked"]
  /\ UNCHANGED <<account, table, age, advisory, request, ended>>

\* Its second statement waits for the rows of the live sessions and revokes
\* them; the transaction commits.
CommitDeletion(a) ==
  LET live == {s \in stored \ revoked : owner[s] = a}
  IN /\ deletion[a] = "marked"
     /\ \A s \in live : SessionFree(s)
     /\ revoked' = revoked \cup live
     /\ account' = [account EXCEPT ![a] = "deleting"]
     /\ deletion' = [deletion EXCEPT ![a] = "idle"]
     /\ UNCHANGED <<owner, stored, successor, age, advisory, request, ended>>

AbortDeletion(a) ==
  /\ deletion[a] = "marked"
  /\ deletion' = [deletion EXCEPT ![a] = "idle"]
  /\ UNCHANGED <<account, table, age, advisory, request, ended>>

\* A refresh that has the session's row waits for the account's row of a
\* deletion that waits for the session's: PostgreSQL aborts one of them.
BreakDeadlock(q) ==
  LET s == request[q].session
  IN /\ At(q, "refresh", "session")
     /\ deletion[request[q].account] = "marked" /\ s \notin revoked
     /\ Abort(q) \/ AbortDeletion(request[q].account)

\* The account.purge event: deletes the account's row, which cascades.
PurgeAccount(a) ==
  LET rows == {s \in stored : owner[s] = a}
  IN /\ account[a] = "deleting" /\ AccountFree(a)
     /\ \A s \in rows : SessionFree(s)
     /\ account' = [account EXCEPT ![a] = "purged"]
     /\ stored' = stored \ rows
     /\ UNCHANGED <<deletion, owner, revoked, successor, age, advisory,
                    request, ended>>

\* Mutant: a session is deleted for its own age.
ActiveItself == {s \in stored : age[s] < Retention}

\* The ancestors of the sessions that are younger than the cutoff.
ActiveLineage == {s \in stored : \E d \in Walk(s) : age[d] < Retention}

\* RetentionCleanup: some of the rows past the cutoff, for there is a LIMIT.
Cleanup ==
  /\ \E batch \in SUBSET {s \in stored : age[s] = Retention} \ {{}} :
       /\ batch \cap ActiveLineage = {}
       /\ \A s \in batch : SessionFree(s)
       /\ stored' = stored \ batch
  /\ UNCHANGED <<account, deletion, owner, revoked, successor, age, advisory,
                 request, ended>>

Tick ==
  /\ \E s \in Issued : age[s] < Retention
  /\ age' = [s \in Sessions |->
               IF s \in Issued /\ age[s] < Retention THEN age[s] + 1 ELSE age[s]]
  /\ UNCHANGED <<account, deletion, table, advisory, request, ended>>

-----------------------------------------------------------------------------
Request(q) ==
  \/ \E a \in Accounts : BeginLogin(q, a)
  \/ \E s \in Sessions : BeginRefresh(q, s) \/ BeginLogout(q, s)
  \/ CreateSession(q) \/ TakeLock(q) \/ LockSession(q) \/ LockAccount(q)
  \/ Rotate(q) \/ Reject(q) \/ WalkLineage(q) \/ RevokeLineage(q)
  \/ Abort(q) \/ BreakDeadlock(q)

\* What a refresh or logout waits for, and what it does when it need not wait.
Locks(q) == TakeLock(q) \/ LockAccount(q)
Proceeds(q) ==
  \/ LockSession(q) \/ Rotate(q) \/ Reject(q) \/ WalkLineage(q) \/ RevokeLineage(q)
  \/ BreakDeadlock(q)

Deletion(a) ==
  MarkDeleted(a) \/ CommitDeletion(a) \/ AbortDeletion(a) \/ PurgeAccount(a)

Next ==
  \/ \E q \in Requests : Request(q)
  \/ \E a \in Accounts : Deletion(a)
  \/ Cleanup \/ Tick

Spec == Init /\ [][Next]_vars

\* Statements complete, PostgreSQL grants locks in the order they were asked
\* for and breaks deadlocks.
Fairness ==
  /\ \A q \in Requests : SF_vars(Locks(q)) /\ WF_vars(Proceeds(q))
  /\ \A a \in Accounts : SF_vars(CommitDeletion(a))

FairSpec == Spec /\ Fairness

-----------------------------------------------------------------------------
(* Properties.                                                             *)

\* After a logout with any token of a lineage, old, expired or cleaned up,
\* and after the second use of a token, nothing issued from that token on
\* gives access again, whatever refreshes were under way.
EndedLineageIsDead ==
  \A s \in ended : \A d \in Lineage(s) : ~Usable(d)

\* A refresh token is exchanged at most once: no lineage forks, so that one
\* walk finds all the sessions that descend from a token.
RedeemedOnce ==
  [][\A s \in Sessions : successor[s] # NoSession =>
       successor'[s] = successor[s]]_vars

\* Deletion ends an account's sessions although it does not take their lock:
\* the only session it can leave unrevoked is one that a login inserted, and
\* no refresh continues that one.
DeletionEndsSessions ==
  \A s \in stored \ revoked : account[owner[s]] = "deleting" =>
    \A t \in Sessions : successor[t] # s

\* Retention keeps what a logout has to find: every ancestor of a session
\* that is still of use.
AncestorsKept ==
  \A s \in Issued : \A d \in Lineage(s) : Usable(d) => s \in stored

\* What these need to be inductive.  Only revoked sessions have a successor,
\* and it belongs to the same account.
SuccessorsFit ==
  \A s \in Sessions : successor[s] # NoSession =>
    /\ s \in revoked /\ successor[s] \in Issued
    /\ owner[successor[s]] = owner[s]

\* The locks a transaction holds at each place, and what they keep true.
LockFits(q) ==
  LET r == request[q]
  IN /\ r.at = "found" => r.op = "login" /\ r.account \in Accounts
     /\ r.at \in {"waiting", "locked", "session", "rows", "walked"} =>
          /\ r.op \in {"refresh", "logout"}
          /\ r.session \in Issued /\ r.account = owner[r.session]
     /\ r.at \in {"locked", "session", "rows", "walked"} =>
          advisory[r.account] = q
     /\ r.at \in {"session", "rows", "walked"} => r.session \in stored
     /\ r.at = "rows" => r.op = "refresh"
     /\ r.at \in {"rows", "walked"} /\ r.op = "refresh" =>
          account[r.account] = "active" /\ deletion[r.account] = "idle"

LocksHeld ==
  /\ \A q \in Requests : LockFits(q)
  /\ \A a \in Accounts : deletion[a] = "marked" => account[a] = "active"

\* The rows the walk found are all that can be of use when they are revoked.
WalkIsWhole ==
  \A q \in Requests : request[q].at = "walked" =>
    \A d \in Lineage(request[q].session) : Usable(d) => d \in request[q].walk

\* A row is deleted only with its account or after its whole lineage.
RowsKept ==
  \A s \in Issued \ stored : \A d \in Lineage(s) :
    age[d] = Retention \/ account[owner[d]] = "purged"

\* The inductive invariant behind the theorems of AccessProofs.
Inductive ==
  /\ TypeOK
  /\ SuccessorsFit
  /\ LocksHeld
  /\ RowsKept
  /\ WalkIsWhole
  /\ EndedLineageIsDead
  /\ DeletionEndsSessions

\* Refresh and logout requests end: waiting for the advisory lock, the rows
\* and the deletion that waits for them never lasts for ever.
RequestsEnd ==
  \A q \in Requests : request[q].at = "waiting" ~> request[q].at = "idle"
=============================================================================
