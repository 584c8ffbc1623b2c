------------------------------- MODULE Archive -------------------------------
(***************************************************************************)
(* The messages of one conversation between the table and the archive:     *)
(* ArchiveWriter moves the oldest to an object and a manifest, the message *)
(* page reads both, and the conversation's purge deletes all three.        *)
(*                                                                         *)
(* Messages are numbered in the order of (created_at, id).  The writer's   *)
(* transaction covers the rows of many conversations; here it is this      *)
(* conversation's share of the LIMIT, and it may fail at any step because  *)
(* of another's.  A message's parts go with its row.  The advisory lock    *)
(* lets one writer work at a time, but a put of a writer that has given up *)
(* may still land.  An object is known by its key, the first and the last  *)
(* message, and checked by its checksum: it stands for its content.        *)
(***************************************************************************)
EXTENDS Integers, FiniteSets, FiniteSetsExt

CONSTANTS
  MaxMessages,  \* bound: messages ever sent
  PageSize,     \* maximumMessages
  Limit,        \* the writer's LIMIT
  MaxFaults     \* bound: failed calls

ASSUME ArchiveAssumption ==
  /\ MaxMessages \in Nat /\ PageSize \in Nat \ {0} /\ Limit \in Nat \ {0}
  /\ MaxFaults \in Nat

Messages == 1..MaxMessages
Groups == (SUBSET Messages) \ {{}}

VARIABLES
  sent,          \* messages inserted so far
  old,           \* how many of them are older than 90 days
  table,         \* messages that have a row
  manifests,     \* archive_manifests, each by the messages it counts
  objects,       \* the objects of the archive bucket
  flying,        \* puts whose writer has given up
  writer,        \* where the writer's transaction is
  group,         \* the rows it has locked
  conversation,  \* live, deleted, emptied (its prefix), deleting (its rows),
                 \* locked (the deletion holds them all), gone
  reader,        \* where the reading of a page is
  seen,          \* the number of messages when it began
  current,       \* what it read from the table
  archived,      \* what it read from the archive
  bare,          \* messages of the page whose parts it did not find
  crossed,       \* a writer has committed during the read
  overlapped,    \* a writer worked while the purge deleted prefix and rows
  faults

stored == <<table, manifests, objects>>
archiver == <<flying, writer, group>>
page == <<reader, seen, current, archived, bare>>
vars == <<sent, old, table, manifests, objects, flying, writer, group,
          conversation, reader, seen, current, archived, bare, crossed,
          overlapped, faults>>

TypeOK ==
  /\ sent \in 0..MaxMessages
  /\ old \in 0..sent
  /\ table \subseteq 1..sent
  /\ manifests \subseteq Groups
  /\ objects \subseteq Groups
  /\ flying \subseteq Groups
  /\ writer \in {"idle", "selected", "put", "verified"}
  /\ group \subseteq table
  /\ writer = "idle" <=> group = {}
  /\ conversation \in {"live", "deleted", "emptied", "deleting",
                      "locked", "gone"}
  /\ reader \in {"idle", "table", "archive", "done"}
  /\ seen \in 0..sent
  /\ current \subseteq 1..seen
  /\ archived \subseteq 1..sent
  /\ bare \subseteq current \cup archived
  /\ crossed \in BOOLEAN
  /\ overlapped \in BOOLEAN
  /\ faults \in 0..MaxFaults

Init ==
  /\ sent = 0 /\ old = 0
  /\ table = {} /\ manifests = {} /\ objects = {}
  /\ flying = {} /\ writer = "idle" /\ group = {}
  /\ conversation = "live"
  /\ reader = "idle" /\ seen = 0
  /\ current = {} /\ archived = {} /\ bare = {}
  /\ crossed = FALSE
  /\ overlapped = FALSE
  /\ faults = 0

-----------------------------------------------------------------------------
Fault == faults < MaxFaults /\ faults' = faults + 1

\* The last n of a set of messages.
Newest(S, n) == {m \in S : Cardinality({k \in S : k > m}) < n}

\* Every object of one key: the same first and last message.
SameKey(g, h) == Min(g) = Min(h) /\ Max(g) = Max(h)

Store(g) == {h \in objects : ~SameKey(g, h)} \cup {g}

\* A run stores a user's or the assistant's message.
Send ==
  /\ conversation = "live" /\ sent < MaxMessages
  /\ sent' = sent + 1
  /\ table' = table \cup {sent'}
  /\ UNCHANGED <<old, manifests, objects, archiver, conversation, page, crossed,
                 overlapped, faults>>

\* A message turns 90 days old.
Age ==
  /\ old < sent
  /\ old' = old + 1
  /\ UNCHANGED <<sent, stored, archiver, conversation, page, crossed,
                 overlapped, faults>>

-----------------------------------------------------------------------------
\* The sets of rows SKIP LOCKED may pass over: the cascade locks them one
\* after the other.
Skippable == CASE conversation = "deleting" -> SUBSET table
               [] conversation = "locked" -> {table}
               [] OTHER -> {{}}

PurgeRunning == conversation \in {"emptied", "deleting", "locked"}

\* Mutant: the rows are taken in no order.
PickAny(S) == {g \in SUBSET S : g # {} /\ Cardinality(g) <= Limit}

\* Mutant: only a full batch is archived.
PickFull(S) ==
  {g \in SUBSET S : /\ Cardinality(g) = Limit
                    /\ \A m \in g, n \in S \ g : m < n}

\* ORDER BY created_at, id LIMIT.
Pick(S) ==
  {g \in SUBSET S : /\ g # {} /\ Cardinality(g) <= Limit
                    /\ \A m \in g, n \in S \ g : m < n}

\* The transaction begins: the advisory lock, and SELECT FOR UPDATE SKIP LOCKED.
Select ==
  /\ writer = "idle"
  /\ \E skipped \in Skippable :
       \E g \in Pick({m \in table : m <= old} \ skipped) : group' = g
  /\ writer' = "selected"
  /\ overlapped' = (overlapped \/ PurgeRunning)
  /\ UNCHANGED <<sent, old, stored, flying, conversation, page, crossed, faults>>

Put ==
  /\ writer = "selected"
  /\ objects' = Store(group)
  /\ writer' = "put"
  /\ UNCHANGED <<sent, old, table, manifests, flying, group, conversation, page,
                 crossed, overlapped, faults>>

\* get and decodeArchive: what is stored has the checksum of what was sent.
Verify ==
  /\ writer = "put" /\ group \in objects
  /\ writer' = "verified"
  /\ UNCHANGED <<sent, old, stored, flying, group, conversation, page, crossed,
                 overlapped, faults>>

\* Mutant: the manifest counts the group, only its last row is deleted.
CommitLastOnly ==
  /\ writer = "verified" /\ conversation # "deleting"
  /\ manifests' = manifests \cup {group}
  /\ table' = table \ {Max(group)}
  /\ writer' = "idle" /\ group' = {}
  /\ crossed' = (crossed \/ reader # "idle")
  /\ UNCHANGED <<sent, old, objects, flying, conversation, page, overlapped,
                 faults>>

\* Insert the manifest, delete parts and messages, commit.  The insert waits
\* for a conversation row that is being deleted.
Commit ==
  /\ writer = "verified" /\ conversation # "deleting"
  /\ manifests' = manifests \cup {group}
  /\ table' = table \ group
  /\ writer' = "idle" /\ group' = {}
  /\ crossed' = (crossed \/ reader # "idle")
  /\ UNCHANGED <<sent, old, objects, flying, conversation, page, overlapped,
                 faults>>

GiveUp == writer' = "idle" /\ group' = {}

\* Mutant: the manifest is not part of the transaction.
FailsAfterManifest ==
  /\ writer # "idle"
  /\ Fault
  /\ GiveUp
  /\ manifests' = manifests \cup {group}
  /\ flying' = IF writer = "selected" THEN flying \cup {group} ELSE flying
  /\ UNCHANGED <<sent, old, table, objects, conversation, page, crossed,
                 overlapped>>

\* The transaction is rolled back (a call failed, the process died); the
\* object stays, and a put without an answer may still be on its way.
WriterFails ==
  /\ writer # "idle"
  /\ Fault
  /\ GiveUp
  /\ flying' = IF writer = "selected" THEN flying \cup {group} ELSE flying
  /\ UNCHANGED <<sent, old, stored, conversation, page, crossed, overlapped>>

\* The object is not what was put: decodeArchive throws.
VerifyFails ==
  /\ writer = "put" /\ group \notin objects
  /\ GiveUp
  /\ UNCHANGED <<sent, old, stored, flying, conversation, page, crossed,
                 overlapped, faults>>

LatePut ==
  /\ \E g \in flying : objects' = Store(g) /\ flying' = flying \ {g}
  /\ UNCHANGED <<sent, old, table, manifests, writer, group, conversation, page,
                 crossed, overlapped, faults>>

-----------------------------------------------------------------------------
\* The conversation is deleted; its purge comes 15 minutes later.
Delete ==
  /\ conversation = "live"
  /\ conversation' = "deleted"
  /\ UNCHANGED <<sent, old, stored, archiver, page, crossed, overlapped, faults>>

\* Mutant: the purge deletes the objects the manifests name.
DeletePrefixOfManifests ==
  /\ conversation = "deleted" /\ reader = "idle"
  /\ objects' = objects \ manifests
  /\ conversation' = "emptied"
  /\ overlapped' = (writer # "idle" \/ flying # {})
  /\ UNCHANGED <<sent, old, table, manifests, archiver, page, crossed, faults>>

\* deletePrefix.  A page begun before the deletion has long been read.
DeletePrefix ==
  /\ conversation = "deleted" /\ reader = "idle"
  /\ objects' = {}
  /\ conversation' = "emptied"
  /\ overlapped' = (writer # "idle" \/ flying # {})
  /\ UNCHANGED <<sent, old, table, manifests, archiver, page, crossed, faults>>

\* Mutant: archive_manifests has no ON DELETE CASCADE.
BeginCascadeRestricted ==
  /\ conversation = "emptied" /\ manifests = {}
  /\ conversation' = "deleting"
  /\ UNCHANGED <<sent, old, stored, archiver, page, crossed, overlapped, faults>>

\* DELETE FROM conversations begins and takes the rows it can lock.
BeginCascade ==
  /\ conversation = "emptied"
  /\ conversation' = "deleting"
  /\ UNCHANGED <<sent, old, stored, archiver, page, crossed, overlapped, faults>>

\* It has all the rows, and commits.
EndCascade ==
  /\ conversation \in {"deleting", "locked"} /\ writer = "idle"
  /\ conversation' = "gone"
  /\ table' = {} /\ manifests' = {}
  /\ UNCHANGED <<sent, old, objects, archiver, page, crossed, overlapped, faults>>

\* The writer waits for the conversation's row, the cascade for the writer's
\* messages: PostgreSQL aborts one of the two.  If it is the writer, the
\* cascade, which has been waiting for the rows, gets them.
DeadlockKillsWriter ==
  /\ conversation = "deleting" /\ writer = "verified"
  /\ GiveUp
  /\ conversation' = "locked"
  /\ UNCHANGED <<sent, old, stored, flying, page, crossed, overlapped, faults>>

\* A call of the purge fails, or it is the deadlock's victim: it is retried
\* from its beginning.
PurgeFails ==
  /\ PurgeRunning
  /\ Fault
  /\ conversation' = "deleted"
  /\ UNCHANGED <<sent, old, stored, archiver, page, crossed, overlapped>>

-----------------------------------------------------------------------------
\* messagesFor: the newest rows.
ReadTable ==
  /\ reader = "idle" /\ conversation = "live"
  /\ reader' = "table"
  /\ seen' = sent
  /\ current' = Newest(table, PageSize)
  /\ crossed' = FALSE
  /\ UNCHANGED <<sent, old, stored, archiver, conversation, archived, bare,
                 overlapped, faults>>

\* Mutant: the manifests are read oldest first.
WantedOldestFirst(g) ==
  PageSize - Cardinality(current)
           - Cardinality(UNION {h \in manifests : Min(h) < Min(g)})

\* Mutant: what the table gave is not taken off the limit.
WantedBesidesTable(g) ==
  PageSize - Cardinality(UNION {h \in manifests : Min(h) > Min(g)})

\* What is left of the limit for a manifest: the newer ones come first.
Wanted(g) ==
  PageSize - Cardinality(current)
           - Cardinality(UNION {h \in manifests : Min(h) > Min(g)})

\* forConversations: the last records of each manifest that is wanted.
ReadArchive ==
  /\ reader = "table"
  /\ \A g \in manifests : Wanted(g) > 0 => g \in objects
  /\ reader' = "archive"
  /\ archived' = UNION {Newest(g, Wanted(g)) : g \in manifests}
  /\ UNCHANGED <<sent, old, stored, archiver, conversation, seen, current, bare,
                 crossed, overlapped, faults>>

\* partsFor: the parts of what is still in the table; the archive's records
\* have brought theirs.
ReadParts ==
  /\ reader = "archive"
  /\ reader' = "done"
  /\ bare' = current \ (table \cup archived)
  /\ UNCHANGED <<sent, old, stored, archiver, conversation, seen, current,
                 archived, crossed, overlapped, faults>>

EndRead ==
  /\ reader = "done"
  /\ reader' = "idle"
  /\ seen' = 0 /\ current' = {} /\ archived' = {} /\ bare' = {}
  /\ crossed' = FALSE
  /\ UNCHANGED <<sent, old, stored, archiver, conversation, overlapped, faults>>

Archiver == Select \/ Put \/ Verify \/ VerifyFails \/ Commit

Purger ==
  DeletePrefix \/ BeginCascade \/ EndCascade \/ DeadlockKillsWriter

Reader == ReadTable \/ ReadArchive \/ ReadParts \/ EndRead

Next ==
  Send \/ Age \/ Archiver \/ WriterFails \/ LatePut \/ Delete \/ Purger \/ PurgeFails
    \/ Reader

Spec == Init /\ [][Next]_vars

\* The maintenance loop archives again and again, and a page is read to its
\* end.
FairSpec ==
  /\ Spec
  /\ WF_vars(Archiver)
  /\ WF_vars(ReadArchive \/ ReadParts \/ EndRead)
  /\ WF_vars(Purger)

-----------------------------------------------------------------------------
\* No message is lost or stored twice by the move to the archive: whatever
\* fails between the put, the manifest and the deletions, a message of a
\* conversation has its row or is counted by exactly one manifest.
EachMessageOnce ==
  conversation # "gone" =>
    \A m \in 1..sent :
      IF m \in table THEN \A g \in manifests : m \notin g
                     ELSE Cardinality({g \in manifests : m \in g}) = 1

\* The object of every manifest of a live conversation is there and is what
\* its checksum says, although objects of failed attempts stay under the same
\* keys and puts without an answer land late: equal keys mean equal groups.
ManifestsReadable == conversation = "live" => manifests \subseteq objects

\* A purged conversation leaves no object, unless the writer was at work on it
\* while its prefix and its rows were deleted.
ArchivePurged == (conversation = "gone" /\ ~overlapped) => objects = {}

\* The move to the archive and the purge keep the messages and the objects
\* that stand for them together.
MessagesKept ==
  TypeOK /\ EachMessageOnce /\ ManifestsReadable /\ ArchivePurged

\* A page has no hole: it is made of the newest messages there were when its
\* reading began, even when the archive took some of them in between.
PageHasNoHole ==
  reader \in {"archive", "done"} =>
    \A m \in current \cup archived :
      \A n \in m..seen : n \in current \cup archived

\* Unless the archive writer commits during the read, a page is full, has no
\* message twice and no message without its parts.
PageIsExact ==
  reader = "done" /\ ~crossed =>
    /\ current \cap archived = {}
    /\ bare = {}
    /\ Cardinality(current \cup archived) =
         IF seen < PageSize THEN seen ELSE PageSize

\* What a reader is shown while messages move.
PagesAreRight == PageHasNoHole /\ PageIsExact

\* An old message leaves the table.
EventuallyArchived ==
  \A m \in Messages : (m <= old) ~> (m \notin table)

\* A deleted conversation is purged, deadlocks with the writer included.
PurgeCompletes == conversation = "deleted" ~> conversation = "gone"

\* Writer and purge make progress although they wait for each other's rows.
ArchiveProgress == EventuallyArchived /\ PurgeCompletes
=============================================================================
