-------------------------- MODULE ConversationProofs --------------------------
(***************************************************************************)
(* Theorems about Archive, for every number of messages, page size, LIMIT  *)
(* and number of failures, and then about Connections.                     *)
(*                                                                         *)
(* The messages are kept because the groups are disjoint (Counted) and the *)
(* objects because, until the purge, every group is an interval of the     *)
(* messages (Consecutively): the writer takes the oldest rows and leaves a *)
(* table without holes, so that equal keys, the first and the last message *)
(* of a group, are equal groups (Kept).  A page has no hole because what   *)
(* was read from the table is the end of the messages there were (Reading) *)
(* and the intervals of the archive lie below it in order.                 *)
(***************************************************************************)
EXTENDS Archive, Connections, FiniteSetTheorems, SequenceTheorems,
        WellFoundedInduction, TLAPS

Consecutive(g) == \A m, n \in g : m..n \subseteq g

\* A message has a row or is counted by one manifest.
Counted ==
  /\ \A g \in manifests \cup flying : g \subseteq 1..sent
  /\ conversation # "gone" =>
       \A m \in 1..sent : m \in table <=> \A g \in manifests : m \notin g
  /\ \A g, h \in manifests : g \cap h = {} \/ g = h
  /\ conversation = "gone" => writer = "idle" /\ table = {} /\ manifests = {}

\* Where pages are read, the table has the newest messages, without a hole, and
\* groups are intervals.
Consecutively ==
  conversation = "live" \/ reader # "idle" =>
    /\ \A m \in table : m..sent \subseteq table
    /\ \A g \in manifests \cup flying \cup {group} : Consecutive(g)
    /\ \A m \in group, n \in table \ group : m < n

\* The objects of the manifests there are and of the one there will be.
Kept ==
  conversation = "live" =>
    /\ manifests \subseteq objects
    /\ writer = "verified" => group \in objects

\* After the prefix was deleted nothing comes back, unless a writer was at work.
Emptied ==
  conversation \in {"emptied", "deleting", "locked", "gone"} =>
    /\ reader = "idle"
    /\ ~overlapped => objects = {} /\ flying = {} /\ writer = "idle"

\* What was read from the table is the end of the messages there were, as long
\* as a page or all there was.
Reading ==
  /\ reader # "done" => bare = {}
  /\ reader # "idle" =>
       /\ \A m \in current : m..seen \subseteq current
       /\ Cardinality(current) <= PageSize
       /\ Cardinality(current) < PageSize => \A m \in table : m <= seen => m \in current
       /\ ~crossed => /\ current \subseteq table
                      /\ \A g \in manifests : \A m \in g : m <= seen

\* What is known of a page once the archive was read.
Page ==
  /\ PageHasNoHole
  /\ reader \in {"archive", "done"} /\ ~crossed =>
       /\ current \cap archived = {}
       /\ Cardinality(current \cup archived) =
            IF seen < PageSize THEN seen ELSE PageSize
  /\ reader = "done" /\ ~crossed => bare = {}

Inv ==
  /\ TypeOK /\ Counted /\ Consecutively /\ Kept /\ Emptied /\ Reading /\ Page

-----------------------------------------------------------------------------
\* A set of naturals that is not empty has a least element.
LEMMA Least ==
  ASSUME NEW T \in SUBSET Nat, T # {}
  PROVE  \E x \in T : \A y \in T : x <= y
<1>1. PICK x \in T : \A y \in T : ~ (<<y, x>> \in OpToRel(<, Nat))
  BY NatLessThanWellFounded, WFMin
<1>2. ASSUME NEW y \in T PROVE x <= y
  <2>1. x \in Nat /\ y \in Nat
    OBVIOUS
  <2>2. ASSUME y < x PROVE <<y, x>> \in {ss \in Nat \X Nat : ss[1] < ss[2]}
    BY <2>1, <2>2
  <2>3. ~(y < x)
    BY <1>1, <2>2, Zenon DEF OpToRel
  <2> QED  BY <2>1, <2>3
<1> QED  BY <1>2

\* The first and the last message of a set.
LEMMA Ends ==
  ASSUME NEW n \in Nat, NEW S \in SUBSET (1..n), S # {}
  PROVE  /\ Min(S) \in S /\ \A y \in S : Min(S) <= y
         /\ Max(S) \in S /\ \A y \in S : Max(S) >= y
<1>1. \E x \in S : \A y \in S : x <= y
  <2>1. S \in SUBSET Nat
    OBVIOUS
  <2> QED  BY <2>1, Least
<1>2. \E x \in S : \A y \in S : x >= y
  <2> DEFINE T == {n - x : x \in S}
  <2>1. T \in SUBSET Nat /\ T # {}
    <3>1. PICK x \in S : TRUE
      OBVIOUS
    <3>2. n - x \in T
      OBVIOUS
    <3>3. \A y \in S : n - y \in Nat
      OBVIOUS
    <3> QED  BY <3>2, <3>3
  <2>2. PICK t \in T : \A y \in T : t <= y
    BY <2>1, Least
  <2>3. PICK x \in S : t = n - x
    OBVIOUS
  <2>4. \A y \in S : n - x <= n - y
    BY <2>2, <2>3
  <2>5. \A y \in S : x >= y
    BY <2>4
  <2> QED  BY <2>5
<1> QED  BY <1>1, <1>2 DEF Min, Max

\* A set of messages is finite.
LEMMA Finite ==
  ASSUME NEW n \in Nat, NEW S \in SUBSET (1..n)
  PROVE  IsFiniteSet(S) /\ Cardinality(S) \in Nat /\ Cardinality(S) <= n
<1>1. IsFiniteSet(1..n) /\ Cardinality(1..n) = n
  BY FS_Interval
<1> QED  BY <1>1, FS_Subset, FS_CardinalityType

LEMMA Larger ==
  ASSUME NEW n \in Nat, NEW T \in SUBSET (1..n), NEW S \in SUBSET T
  PROVE  Cardinality(S) <= Cardinality(T)
  BY Finite, FS_Subset

\* Intervals with the same key are equal.
LEMMA SameKeyIsSame ==
  ASSUME NEW n \in Nat, NEW g \in SUBSET (1..n), NEW h \in SUBSET (1..n),
         g # {}, h # {}, Consecutive(g), Consecutive(h), SameKey(g, h)
  PROVE  g = h
<1>1. /\ Min(g) \in g /\ Max(g) \in g /\ \A y \in g : Min(g) <= y /\ y <= Max(g)
      /\ Min(h) \in h /\ Max(h) \in h /\ \A y \in h : Min(h) <= y /\ y <= Max(h)
      /\ Min(g) = Min(h) /\ Max(g) = Max(h)
  BY Ends DEF SameKey
<1>2. g \subseteq h
  <2>1. \A y \in g : y \in Min(h)..Max(h)
    BY <1>1
  <2> QED  BY <1>1, <2>1 DEF Consecutive
<1>3. h \subseteq g
  <2>1. \A y \in h : y \in Min(g)..Max(g)
    BY <1>1
  <2> QED  BY <1>1, <2>1 DEF Consecutive
<1> QED  BY <1>2, <1>3

\* The newest of a set: with a message it has all later ones of the set, it is
\* no larger than asked for, and smaller only if it is the whole set.
LEMMA NewestFacts ==
  ASSUME NEW n \in Nat, NEW S \in SUBSET (1..n), NEW k \in Int
  PROVE  /\ Newest(S, k) \subseteq S
         /\ \A m \in Newest(S, k), l \in S : m <= l => l \in Newest(S, k)
         /\ k <= 0 => Newest(S, k) = {}
         /\ k > 0 => Cardinality(Newest(S, k)) <= k
         /\ Cardinality(Newest(S, k)) < k => Newest(S, k) = S
<1> DEFINE Later(m) == {l \in S : l > m}
<1>0. \A m \in S : /\ Later(m) \in SUBSET (1..n)
                   /\ Cardinality(Later(m)) \in Nat /\ IsFiniteSet(Later(m))
  BY Finite
<1>l. \A m, l \in S : l \in Later(m) <=> l > m
  OBVIOUS
<1>1. Newest(S, k) = {m \in S : Cardinality(Later(m)) < k}
  BY DEF Newest
<1>s. \A m \in S : Later(m) \subseteq S
  OBVIOUS
<1> HIDE DEF Later
<1>2. Newest(S, k) \subseteq S /\ (k <= 0 => Newest(S, k) = {})
  <2>1. Newest(S, k) \subseteq S
    BY <1>1
  <2>2. ASSUME k <= 0, NEW m \in Newest(S, k) PROVE FALSE
    <3>1. m \in S /\ Cardinality(Later(m)) < k
      BY <1>1, <2>2
    <3>2. Cardinality(Later(m)) \in Nat
      BY <1>0, <3>1
    <3> QED  BY <2>2, <3>1, <3>2
  <2> QED  BY <2>1, <2>2
<1>3. ASSUME NEW m \in Newest(S, k), NEW l \in S, m <= l PROVE l \in Newest(S, k)
  <2>1. m \in S /\ Cardinality(Later(m)) < k
    BY <1>1
  <2>2. Later(l) \in SUBSET Later(m)
    <3> SUFFICES ASSUME NEW y \in Later(l) PROVE y \in Later(m)
      OBVIOUS
    <3>1. y \in S /\ y > l
      BY <1>l, <1>s
    <3>2. y \in 1..n /\ l \in 1..n /\ m \in 1..n
      BY <2>1, <3>1
    <3> QED  BY <1>3, <1>l, <2>1, <3>1, <3>2
  <2>3. Cardinality(Later(l)) <= Cardinality(Later(m))
    BY <1>0, <2>1, <2>2, Larger
  <2>4. Cardinality(Later(l)) \in Nat /\ Cardinality(Later(m)) \in Nat
    BY <1>0, <2>1
  <2>5. Cardinality(Later(l)) < k
    BY <2>1, <2>3, <2>4
  <2> QED  BY <1>1, <2>5
<1>4. ASSUME k > 0 PROVE Cardinality(Newest(S, k)) <= k
  <2>1. CASE Newest(S, k) = {}
    BY <1>4, <2>1, FS_EmptySet
  <2>2. CASE Newest(S, k) # {}
    <3> DEFINE lo == Min(Newest(S, k))
    <3>1. lo \in Newest(S, k) /\ \A y \in Newest(S, k) : lo <= y
      BY <1>2, <2>2, Ends
    <3>2. lo \in S /\ Cardinality(Later(lo)) < k /\ Cardinality(Later(lo)) \in Nat
          /\ IsFiniteSet(Later(lo))
      BY <1>0, <1>1, <3>1
    <3>3. Newest(S, k) \subseteq Later(lo) \cup {lo}
      <4> SUFFICES ASSUME NEW y \in Newest(S, k), y # lo PROVE y \in Later(lo)
        OBVIOUS
      <4>1. y \in S /\ lo \in S /\ lo <= y
        BY <1>2, <3>1
      <4>2. y \in 1..n /\ lo \in 1..n
        BY <4>1
      <4> QED  BY <1>l, <4>1, <4>2
    <3>4. /\ IsFiniteSet(Later(lo) \cup {lo})
          /\ Cardinality(Later(lo) \cup {lo}) <= Cardinality(Later(lo)) + 1
      <4>1. /\ IsFiniteSet(Later(lo) \cup {lo})
            /\ Cardinality(Later(lo) \cup {lo}) =
                 IF lo \in Later(lo) THEN Cardinality(Later(lo)) ELSE Cardinality(Later(lo)) + 1
        BY <3>2, FS_AddElement
      <4> QED  BY <3>2, <4>1
    <3>5. Cardinality(Newest(S, k)) <= Cardinality(Later(lo) \cup {lo})
      BY <3>3, <3>4, FS_Subset
    <3>6. Cardinality(Newest(S, k)) \in Nat /\ Cardinality(Later(lo) \cup {lo}) \in Nat
      BY <3>3, <3>4, FS_CardinalityType, FS_Subset
    <3> QED  BY <3>2, <3>4, <3>5, <3>6
  <2> QED  BY <2>1, <2>2
<1>5. ASSUME Newest(S, k) # S PROVE ~(Cardinality(Newest(S, k)) < k)
  <2> DEFINE R == S \ Newest(S, k)
             hi == Max(R)
  <2>1. R \in SUBSET (1..n) /\ R # {}
    BY <1>2, <1>5
  <2>2. hi \in R /\ \A y \in R : hi >= y
    BY <2>1, Ends
  <2>3. ~(Cardinality(Later(hi)) < k) /\ hi \in S
    BY <1>1, <2>2
  <2>4. Later(hi) \in SUBSET Newest(S, k)
    <3> SUFFICES ASSUME NEW y \in Later(hi), y \notin Newest(S, k) PROVE FALSE
      OBVIOUS
    <3>1. y \in S /\ hi \in S /\ y > hi
      BY <1>s, <1>l, <2>3
    <3>2. y \in R /\ y \in 1..n /\ hi \in 1..n
      BY <3>1
    <3> QED  BY <2>2, <3>1, <3>2
  <2>5. Cardinality(Later(hi)) <= Cardinality(Newest(S, k))
    BY <1>2, <2>4, Larger
  <2>6. Cardinality(Later(hi)) \in Nat /\ Cardinality(Newest(S, k)) \in Nat
    <3>1. Newest(S, k) \in SUBSET (1..n)
      BY <1>2
    <3> QED  BY <1>0, <2>3, <3>1, Finite
  <2> QED  BY <2>3, <2>5, <2>6
<1> QED  BY <1>2, <1>3, <1>4, <1>5

-----------------------------------------------------------------------------
LEMMA Bounds ==
  /\ MaxMessages \in Nat /\ PageSize \in Nat /\ PageSize > 0
  /\ Limit \in Nat /\ Limit > 0 /\ MaxFaults \in Nat
  BY ArchiveAssumption DEF ArchiveAssumption

LEMMA GroupsMean ==
  \A g : g \in Groups <=> g \subseteq 1..MaxMessages /\ g # {}
<1> SUFFICES ASSUME NEW g PROVE g \in Groups <=> g \subseteq 1..MaxMessages /\ g # {}
  OBVIOUS
<1>1. g \in Groups <=> g \in SUBSET Messages /\ g \notin {{}}
  BY DEF Groups
<1>2. g \in {{}} <=> g = {}
  BY Zenon
<1>3. g \in SUBSET Messages <=> g \subseteq 1..MaxMessages
  BY DEF Messages
<1> QED  BY <1>1, <1>2, <1>3, Zenon

\* What the writer has locked while it works.
LEMMA GroupFacts ==
  ASSUME TypeOK, writer # "idle"
  PROVE  group \in Groups /\ group \subseteq table /\ group \subseteq 1..sent /\ group # {}
<1>1. group \subseteq table /\ table \subseteq 1..sent /\ group # {} /\ sent \in 0..MaxMessages
  BY DEF TypeOK
<1>2. 1..sent \subseteq 1..MaxMessages
  BY <1>1, Bounds
<1> QED  BY <1>1, <1>2, GroupsMean

\* A group is among the rows that are old enough, before those it leaves.
LEMMA SelectFacts ==
  ASSUME TypeOK, Select
  PROVE  \E skipped \in Skippable :
           /\ group' # {} /\ group' \subseteq {m \in table : m <= old} \ skipped
           /\ \A m \in group', n \in ({m \in table : m <= old} \ skipped) \ group' : m < n
  BY DEF Select, Pick

\* Every step keeps every variable within its type.
LEMMA TypeStep ==
  ASSUME TypeOK, Counted, Reading, [Next]_vars
  PROVE  TypeOK'
<1> USE Bounds DEF TypeOK, stored, archiver, page
<1>0. Fault => faults' \in 0..MaxFaults
  BY DEF Fault
<1>1. CASE Send
  BY <1>1 DEF Send
<1>2. CASE Age
  BY <1>2 DEF Age
<1>3. CASE Select
  <2>1. group' # {} /\ group' \subseteq table
    BY <1>3, SelectFacts
  <2> QED  BY <1>3, <2>1 DEF Select
<1>4. CASE Put
  <2>1. objects' \subseteq Groups
    BY <1>4, GroupFacts DEF Put, Store
  <2> QED  BY <1>4, <2>1 DEF Put
<1>5. CASE Verify
  BY <1>5 DEF Verify
<1>6. CASE VerifyFails
  BY <1>6 DEF VerifyFails, GiveUp
<1>7. CASE Commit
  <2>1. manifests' \subseteq Groups /\ table' \subseteq 1..sent
    BY <1>7, GroupFacts DEF Commit
  <2> QED  BY <1>7, <2>1 DEF Commit
<1>8. CASE WriterFails
  <2>1. flying' \subseteq Groups
    BY <1>8, GroupFacts DEF WriterFails
  <2> QED  BY <1>0, <1>8, <2>1 DEF WriterFails, GiveUp
<1>9. CASE LatePut
  <2>1. objects' \subseteq Groups /\ flying' \subseteq Groups
    BY <1>9 DEF LatePut, Store
  <2> QED  BY <1>9, <2>1 DEF LatePut
<1>10. CASE Delete \/ DeletePrefix \/ BeginCascade \/ EndCascade \/ DeadlockKillsWriter
  BY <1>10 DEF Delete, DeletePrefix, BeginCascade, EndCascade, DeadlockKillsWriter, GiveUp
<1>11. CASE PurgeFails
  BY <1>0, <1>11 DEF PurgeFails
<1>12. CASE ReadTable
  <2>1. current' \subseteq table
    BY <1>12 DEF ReadTable, Newest
  <2>2. bare = {}
    BY <1>12 DEF ReadTable, Reading
  <2>3. /\ reader' = "table" /\ seen' = sent /\ crossed' = FALSE
        /\ UNCHANGED <<sent, old, stored, archiver, conversation, archived, bare,
                       overlapped, faults>>
    BY <1>12 DEF ReadTable
  <2>4. current' \subseteq 1..seen' /\ seen' \in 0..sent' /\ bare' = {}
    BY <2>1, <2>2, <2>3
  <2> QED  BY <2>3, <2>4
<1>13. CASE ReadArchive
  <2>1. archived' \subseteq 1..sent
    <3> SUFFICES ASSUME NEW m \in archived' PROVE m \in 1..sent
      OBVIOUS
    <3>1. PICK g \in manifests : m \in Newest(g, Wanted(g))
      BY <1>13 DEF ReadArchive
    <3> QED  BY <3>1 DEF Newest, Counted
  <2>2. bare = {}
    BY <1>13 DEF ReadArchive, Reading
  <2> QED  BY <1>13, <2>1, <2>2 DEF ReadArchive
<1>14. CASE ReadParts
  <2>1. bare' \subseteq current' \cup archived'
    BY <1>14 DEF ReadParts
  <2> QED  BY <1>14, <2>1 DEF ReadParts
<1>16. CASE EndRead
  <2>1. /\ reader' = "idle" /\ seen' = 0 /\ current' = {} /\ archived' = {} /\ bare' = {}
        /\ crossed' = FALSE
        /\ UNCHANGED <<sent, old, stored, archiver, conversation, overlapped, faults>>
    BY <1>16 DEF EndRead
  <2>2. seen' \in 0..sent' /\ current' \subseteq 1..seen' /\ archived' \subseteq 1..sent'
    BY <2>1
  <2> QED  BY <2>1, <2>2
<1>15. CASE UNCHANGED vars
  BY <1>15 DEF vars
<1> QED
  BY <1>1, <1>2, <1>3, <1>4, <1>5, <1>6, <1>7, <1>8, <1>9, <1>10, <1>11, <1>12, <1>13,
     <1>14, <1>15, <1>16 DEF Next, Archiver, Purger, Reader

\* No step loses a message or counts it twice.
LEMMA CountedStep ==
  ASSUME TypeOK, Counted, [Next]_vars
  PROVE  Counted'
<1> USE Bounds DEF TypeOK, Counted, stored, archiver
<1>0. ASSUME UNCHANGED <<sent, table, manifests, writer, conversation>>, flying' \subseteq flying
      PROVE  Counted'
  BY <1>0
<1>1. CASE Send
  BY <1>1 DEF Send
<1>2. CASE Select
  <2>1. group' # {} /\ group' \subseteq table
    BY <1>2, SelectFacts
  <2> QED  BY <1>2, <2>1 DEF Select
<1>3. CASE Put \/ Verify \/ VerifyFails
  BY <1>3 DEF Put, Verify, VerifyFails, GiveUp
<1>4. CASE Commit
  <2>1. group \subseteq table /\ group \subseteq 1..sent /\ conversation # "gone"
    BY <1>4, GroupFacts DEF Commit
  <2>2. \A g \in manifests : g \cap group = {}
    BY <2>1
  <2>3. /\ manifests' = manifests \cup {group} /\ table' = table \ group
        /\ UNCHANGED <<sent, flying, conversation>>
    BY <1>4 DEF Commit
  <2>4. \A m \in 1..sent : m \in table' <=> \A g \in manifests' : m \notin g
    BY <2>1, <2>3
  <2>5. \A g, h \in manifests' : g \cap h = {} \/ g = h
    BY <2>2, <2>3
  <2>6. ASSUME NEW g \in manifests' \cup flying' PROVE g \subseteq 1..sent'
    <3>1. g \in manifests \cup flying \/ g = group
      BY <2>3
    <3> QED  BY <2>1, <2>3, <3>1
  <2> QED  BY <2>1, <2>3, <2>4, <2>5, <2>6
<1>5. CASE WriterFails
  <2>1. ASSUME NEW g \in flying' PROVE g \subseteq 1..sent'
    <3>1. g \in flying \/ g = group
      BY <1>5 DEF WriterFails
    <3>2. group \subseteq 1..sent /\ sent' = sent
      BY <1>5, GroupFacts DEF WriterFails
    <3> QED  BY <3>1, <3>2
  <2> QED  BY <1>5, <2>1 DEF WriterFails, GiveUp
<1>6. CASE LatePut
  BY <1>0, <1>6 DEF LatePut
<1>7. CASE Delete \/ DeletePrefix \/ BeginCascade \/ DeadlockKillsWriter \/ PurgeFails
  BY <1>7 DEF Delete, DeletePrefix, BeginCascade, DeadlockKillsWriter, PurgeFails, GiveUp,
     PurgeRunning
<1>8. CASE EndCascade
  BY <1>8 DEF EndCascade
<1>9. CASE Age \/ Reader \/ UNCHANGED vars
  BY <1>0, <1>9 DEF Age, Reader, ReadTable, ReadArchive, ReadParts, EndRead, vars
<1> QED
  BY <1>1, <1>2, <1>3, <1>4, <1>5, <1>6, <1>7, <1>8, <1>9 DEF Next, Archiver, Purger

\* Where pages are read no step makes a hole.
LEMMA ConsecutivelyStep ==
  ASSUME TypeOK, Counted, Consecutively, Emptied, [Next]_vars
  PROVE  Consecutively'
<1> USE Bounds DEF TypeOK, Consecutively, stored, archiver
<1>0. Consecutive({})
  BY DEF Consecutive
<1>1. ASSUME UNCHANGED <<sent, table, manifests>>, flying' \subseteq flying \cup {group},
             group' = group \/ group' = {},
             conversation' = "live" \/ reader' # "idle" => conversation = "live" \/ reader # "idle"
      PROVE  Consecutively'
  BY <1>0, <1>1
<1>2. CASE Send
  <2>1. /\ sent' = sent + 1 /\ table' = table \cup {sent + 1} /\ conversation = "live"
        /\ UNCHANGED <<manifests, flying, group>>
    BY <1>2 DEF Send
  <2>2. \A m \in table' : m..sent' \subseteq table'
    BY <2>1
  <2>3. \A m \in group, n \in table' \ group : m < n
    BY <2>1
  <2> QED  BY <2>1, <2>2, <2>3
<1>3. CASE Select
  <2> SUFFICES ASSUME conversation = "live" \/ reader # "idle"
               PROVE  /\ Consecutive(group')
                      /\ \A m \in group', n \in table \ group' : m < n
    <3>1. UNCHANGED <<sent, table, manifests, flying, conversation, reader>>
      BY <1>3 DEF Select, page
    <3> QED  BY <3>1
  <2>1. Skippable = {{}}
    BY DEF Skippable, Emptied
  <2>2. PICK skipped \in Skippable :
           /\ group' # {} /\ group' \subseteq {m \in table : m <= old} \ skipped
           /\ \A m \in group', n \in ({m \in table : m <= old} \ skipped) \ group' : m < n
    BY <1>3, SelectFacts
  <2>3. /\ group' \subseteq table /\ \A m \in group' : m <= old
        /\ \A m \in group', n \in table \ group' : n <= old => m < n
    BY <2>1, <2>2
  <2>4. \A m \in group', n \in table \ group' : m < n
    BY <2>3
  <2>5. ASSUME NEW m \in group', NEW n \in group', NEW k \in m..n PROVE k \in group'
    <3>1. m \in 1..sent /\ n \in 1..sent /\ k \in m..sent
      BY <2>3
    <3>2. k \in table
      BY <2>3, <3>1
    <3>3. ~(n < k)
      BY <3>1
    <3> QED  BY <2>4, <3>2, <3>3
  <2> QED  BY <2>4, <2>5 DEF Consecutive
<1>4. CASE Commit
  <2> SUFFICES ASSUME conversation = "live" \/ reader # "idle"
               PROVE  \A m \in table \ group : m..sent \subseteq table \ group
    <3>1. /\ UNCHANGED <<sent, flying, conversation, reader>> /\ group' = {}
          /\ manifests' = manifests \cup {group} /\ table' = table \ group
      BY <1>4 DEF Commit, page
    <3> QED  BY <1>0, <3>1
  <2> SUFFICES ASSUME NEW m \in table \ group, NEW k \in m..sent PROVE k \in table \ group
    OBVIOUS
  <2>1. k \in table
    OBVIOUS
  <2>2. m \in 1..sent /\ ~(k < m)
    OBVIOUS
  <2> QED  BY <2>1, <2>2
<1>5. CASE Put \/ Verify \/ VerifyFails \/ WriterFails \/ LatePut
  BY <1>1, <1>5 DEF Put, Verify, VerifyFails, WriterFails, LatePut, GiveUp, page
<1>6. CASE Delete \/ DeletePrefix \/ BeginCascade \/ DeadlockKillsWriter \/ PurgeFails
  BY <1>1, <1>6 DEF Delete, DeletePrefix, BeginCascade, DeadlockKillsWriter, PurgeFails, GiveUp,
     page
<1>7. CASE EndCascade
  BY <1>7 DEF EndCascade, Emptied, page
<1>8. CASE Age \/ Reader \/ UNCHANGED vars
  BY <1>1, <1>8 DEF Age, Reader, ReadTable, ReadArchive, ReadParts, EndRead, vars, page
<1> QED
  BY <1>2, <1>3, <1>4, <1>5, <1>6, <1>7, <1>8 DEF Next, Archiver, Purger

\* A put removes only objects of its own group.
LEMMA StoreKeeps ==
  ASSUME TypeOK, Counted, Consecutively, conversation = "live" \/ reader # "idle",
         NEW g \in flying \cup {group}, g # {}, NEW h \in manifests \cup {group}, h # {}
  PROVE  h \in objects => h \in Store(g)
<1>1. /\ sent \in Nat /\ g \in SUBSET (1..sent) /\ h \in SUBSET (1..sent)
      /\ Consecutive(g) /\ Consecutive(h)
  <2>1. sent \in Nat /\ group \subseteq 1..sent
    BY Bounds DEF TypeOK
  <2> QED  BY <2>1 DEF Counted, Consecutively
<1> QED  BY <1>1, SameKeyIsSame DEF Store

LEMMA KeptStep ==
  ASSUME TypeOK, Counted, Consecutively, Kept, [Next]_vars
  PROVE  Kept'
<1> USE DEF TypeOK, Kept, stored, archiver
<1>1. CASE conversation' = conversation /\ UNCHANGED <<manifests, objects, group>>
           /\ (writer' = "verified" => writer = "verified")
  BY <1>1
<1>2. CASE Select \/ WriterFails \/ VerifyFails
  BY <1>2 DEF Select, WriterFails, VerifyFails, GiveUp
<1>3. CASE Put
  <2> SUFFICES ASSUME conversation = "live", NEW h \in manifests PROVE h \in Store(group)
    BY <1>3 DEF Put
  <2>1. h # {} /\ group # {}
    BY <1>3, GroupsMean DEF Put
  <2> QED  BY <2>1, StoreKeeps
<1>4. CASE Verify
  BY <1>4 DEF Verify
<1>5. CASE Commit
  BY <1>5 DEF Commit
<1>6. CASE LatePut
  <2> SUFFICES ASSUME conversation = "live", NEW g \in flying, objects' = Store(g),
                      NEW h \in manifests \cup {group}, h \in objects, h # {}
               PROVE  h \in Store(g)
    BY <1>6, GroupsMean DEF LatePut
  <2>1. g # {}
    BY GroupsMean
  <2> QED  BY <2>1, StoreKeeps
<1>7. CASE Delete \/ DeletePrefix \/ BeginCascade \/ EndCascade \/ DeadlockKillsWriter
           \/ PurgeFails
  BY <1>7 DEF Delete, DeletePrefix, BeginCascade, EndCascade, DeadlockKillsWriter, PurgeFails
<1>8. CASE Send \/ Age \/ Reader \/ UNCHANGED vars
  BY <1>1, <1>8 DEF Send, Age, Reader, ReadTable, ReadArchive, ReadParts, EndRead, vars
<1> QED
  BY <1>2, <1>3, <1>4, <1>5, <1>6, <1>7, <1>8 DEF Next, Archiver, Purger

\* What the purge has emptied stays empty, unless a writer was at work.
LEMMA EmptiedStep ==
  ASSUME TypeOK, Counted, Emptied, [Next]_vars
  PROVE  Emptied'
<1> USE DEF TypeOK, Emptied, stored, archiver, page
<1>1. CASE Select
  <2>1. group' # {} /\ group' \subseteq table
    BY <1>1, SelectFacts
  <2>2. conversation # "gone"
    BY <2>1 DEF Counted
  <2> QED  BY <1>1, <2>2 DEF Select, PurgeRunning
<1>2. CASE Put \/ Verify \/ VerifyFails \/ Commit \/ WriterFails \/ LatePut
  BY <1>2 DEF Put, Verify, VerifyFails, Commit, WriterFails, LatePut, GiveUp
<1>3. CASE Delete \/ DeletePrefix \/ BeginCascade \/ EndCascade \/ DeadlockKillsWriter
           \/ PurgeFails
  BY <1>3 DEF Delete, DeletePrefix, BeginCascade, EndCascade, DeadlockKillsWriter, PurgeFails,
     GiveUp
<1>4. CASE Send \/ Age \/ Reader \/ UNCHANGED vars
  BY <1>4 DEF Send, Age, Reader, ReadTable, ReadArchive, ReadParts, EndRead, vars
<1> QED  BY <1>1, <1>2, <1>3, <1>4 DEF Next, Archiver, Purger

-----------------------------------------------------------------------------
Archived == UNION manifests

\* The groups lie in a row: one that has a later message has only later ones.
LEMMA GroupsInOrder ==
  ASSUME TypeOK, Counted, Consecutively, reader # "idle",
         NEW g \in manifests, NEW h \in manifests, g # h,
         NEW x \in g, NEW y \in h, x < y
  PROVE  \A a \in g, b \in h : a < b
<1>1. g \subseteq 1..sent /\ h \subseteq 1..sent /\ sent \in Nat /\ g \cap h = {}
  BY Bounds DEF TypeOK, Counted
<1>2. Consecutive(g) /\ Consecutive(h)
  BY DEF Consecutively
<1>3. ASSUME NEW a \in g, NEW b \in h, ~(a < b) PROVE FALSE
  <2>1. a \in 1..sent /\ b \in 1..sent /\ x \in 1..sent /\ y \in 1..sent
    BY <1>1
  <2>2. CASE b <= x
    <3>1. x \in b..y
      BY <2>1, <2>2
    <3> QED  BY <1>1, <1>2, <3>1 DEF Consecutive
  <2>3. CASE ~(b <= x)
    <3>1. b \in x..a
      BY <1>3, <2>1, <2>3
    <3> QED  BY <1>1, <1>2, <3>1 DEF Consecutive
  <2> QED  BY <2>2, <2>3
<1> QED  BY <1>3

\* What forConversations takes of the manifests, one after the other, is the
\* newest of all they have.
LEMMA ArchivedIsNewest ==
  ASSUME TypeOK, Counted, Consecutively, reader # "idle"
  PROVE  UNION {Newest(g, Wanted(g)) : g \in manifests}
           = Newest(Archived, PageSize - Cardinality(current))
<1> DEFINE Newer(g) == UNION {h \in manifests : Min(h) > Min(g)}
           Rest(g, n) == {k \in g : k > n}
           Over(n) == {k \in Archived : k > n}
<1>0. /\ sent \in Nat /\ \A g \in manifests : g \in SUBSET (1..sent) /\ g # {}
      /\ Archived \in SUBSET (1..sent) /\ Cardinality(current) \in Nat /\ PageSize \in Nat
  <2>1. sent \in Nat /\ seen \in Nat
    BY Bounds DEF TypeOK
  <2>2. current \in SUBSET (1..seen) /\ manifests \subseteq Groups
    BY DEF TypeOK
  <2>3. \A g \in manifests : g \in SUBSET (1..sent) /\ g # {}
    BY <2>2, GroupsMean DEF Counted
  <2> QED  BY <2>1, <2>2, <2>3, Finite, Bounds DEF Archived
<1>1. ASSUME NEW g \in manifests, NEW n \in g
      PROVE  n \in Newest(g, Wanted(g)) <=>
               Cardinality(Over(n)) < PageSize - Cardinality(current)
  <2>1. \A h \in manifests : Min(h) \in h /\ h \subseteq 1..sent
    BY <1>0, Ends
  <2>2. \A h \in manifests : \A b \in h : Min(h) > Min(g) => b > n /\ b \notin g
    <3> SUFFICES ASSUME NEW h \in manifests, NEW b \in h, Min(h) > Min(g)
                 PROVE  b > n /\ b \notin g
      OBVIOUS
    <3>1. Min(g) \in g /\ Min(h) \in h /\ Min(g) \in 1..sent /\ Min(h) \in 1..sent
      BY <2>1
    <3>2. g # h /\ Min(g) < Min(h)
      BY <3>1
    <3>3. n < b
      BY <3>1, <3>2, GroupsInOrder
    <3>4. b \notin g
      BY <3>2 DEF Counted
    <3> QED  BY <2>1, <3>3, <3>4
  <2>3. \A h \in manifests : \A b \in h : b > n => b \in Rest(g, n) \/ Min(h) > Min(g)
    <3> SUFFICES ASSUME NEW h \in manifests, NEW b \in h, b > n, h # g
                 PROVE  Min(h) > Min(g)
      OBVIOUS
    <3>1. Min(g) \in g /\ Min(h) \in h /\ Min(g) \in 1..sent /\ Min(h) \in 1..sent
          /\ n \in 1..sent /\ b \in 1..sent
      BY <2>1
    <3>2. n < b
      BY <3>1
    <3>3. Min(g) < Min(h)
      BY <3>1, <3>2, GroupsInOrder
    <3> QED  BY <3>1, <3>3
  <2>4. Over(n) = Rest(g, n) \cup Newer(g) /\ Rest(g, n) \cap Newer(g) = {}
    <3>1. \A b \in Over(n) : b \in Rest(g, n) \/ b \in Newer(g)
      BY <2>3 DEF Archived
    <3>2. \A b \in Newer(g) : b \in Over(n) /\ b \notin Rest(g, n)
      BY <2>2 DEF Archived
    <3>3. \A b \in Rest(g, n) : b \in Over(n)
      BY DEF Archived
    <3> QED  BY <3>1, <3>2, <3>3
  <2>5. /\ Rest(g, n) \in SUBSET (1..sent) /\ Newer(g) \in SUBSET (1..sent)
    BY <2>1
  <2> HIDE DEF Rest, Newer, Over
  <2>6. Cardinality(Over(n)) = Cardinality(Rest(g, n)) + Cardinality(Newer(g))
    <3>1. /\ IsFiniteSet(Rest(g, n)) /\ Cardinality(Rest(g, n)) \in Nat
          /\ IsFiniteSet(Newer(g)) /\ Cardinality(Newer(g)) \in Nat
      BY <1>0, <2>5, Finite
    <3>2. Cardinality(Rest(g, n) \cup Newer(g)) =
            Cardinality(Rest(g, n)) + Cardinality(Newer(g)) - Cardinality(Rest(g, n) \cap Newer(g))
      BY <3>1, FS_Union
    <3> QED  BY <2>4, <3>1, <3>2, FS_EmptySet
  <2>7. Cardinality(Rest(g, n)) \in Nat /\ Cardinality(Newer(g)) \in Nat
    BY <1>0, <2>5, Finite
  <2>8. Wanted(g) = PageSize - Cardinality(current) - Cardinality(Newer(g))
    BY DEF Wanted, Newer
  <2>9. n \in Newest(g, Wanted(g)) <=> Cardinality(Rest(g, n)) < Wanted(g)
    BY DEF Newest, Rest
  <2> QED  BY <1>0, <2>6, <2>7, <2>8, <2>9
<1>2. \A n \in Archived : n \in Newest(Archived, PageSize - Cardinality(current)) <=>
                            Cardinality(Over(n)) < PageSize - Cardinality(current)
  BY DEF Newest
<1>3. \A g \in manifests : Newest(g, Wanted(g)) \subseteq g
  BY DEF Newest
<1>4. Newest(Archived, PageSize - Cardinality(current)) \subseteq Archived
  BY DEF Newest
<1> HIDE DEF Over
<1>5. ASSUME NEW n \in UNION {Newest(g, Wanted(g)) : g \in manifests}
      PROVE  n \in Newest(Archived, PageSize - Cardinality(current))
  <2>1. PICK g \in manifests : n \in Newest(g, Wanted(g))
    OBVIOUS
  <2>2. n \in g /\ n \in Archived
    BY <1>3, <2>1 DEF Archived
  <2> QED  BY <1>1, <1>2, <2>1, <2>2
<1>6. ASSUME NEW n \in Newest(Archived, PageSize - Cardinality(current))
      PROVE  n \in UNION {Newest(g, Wanted(g)) : g \in manifests}
  <2>1. n \in Archived
    BY <1>4
  <2>2. PICK g \in manifests : n \in g
    BY <2>1 DEF Archived
  <2>3. n \in Newest(g, Wanted(g))
    BY <1>1, <1>2, <2>1, <2>2
  <2> QED  BY <2>3
<1> QED  BY <1>5, <1>6

\* A page is the end of the messages there were, and as long as it can be if no
\* message moved meanwhile.
LEMMA PageIsRead ==
  ASSUME TypeOK, Counted, Consecutively, Emptied, Reading, ReadArchive
  PROVE  /\ \A m \in current \cup archived' : m..seen \subseteq current \cup archived'
         /\ ~crossed =>
              /\ current \cap archived' = {}
              /\ Cardinality(current \cup archived') =
                   IF seen < PageSize THEN seen ELSE PageSize
<1> DEFINE C == Cardinality(current)
<1>0. /\ sent \in Nat /\ seen \in Nat /\ seen <= sent
      /\ current \in SUBSET (1..seen) /\ Archived \in SUBSET (1..sent)
      /\ conversation # "gone" /\ reader # "idle" /\ PageSize \in Nat
  <2>1. sent \in Nat /\ seen \in Nat /\ seen <= sent /\ PageSize \in Nat
    BY Bounds DEF TypeOK
  <2>2. current \in SUBSET (1..seen)
    BY DEF TypeOK
  <2>3. Archived \in SUBSET (1..sent)
    BY DEF Archived, Counted
  <2>4. conversation # "gone" /\ reader # "idle"
    BY DEF ReadArchive, Emptied
  <2> QED  BY <2>1, <2>2, <2>3, <2>4
<1>1. C \in Nat /\ IsFiniteSet(current) /\ C <= PageSize /\ C <= seen
  BY <1>0, Finite DEF Reading
<1>2. archived' = Newest(Archived, PageSize - C)
  BY <1>0, ArchivedIsNewest DEF ReadArchive
<1>3. /\ archived' \subseteq Archived
      /\ \A m \in archived', l \in Archived : m <= l => l \in archived'
      /\ PageSize - C <= 0 => archived' = {}
      /\ PageSize - C > 0 => Cardinality(archived') <= PageSize - C
      /\ Cardinality(archived') < PageSize - C => archived' = Archived
  <2> DEFINE k == PageSize - C
  <2>1. k \in Int /\ archived' = Newest(Archived, k)
    BY <1>0, <1>1, <1>2
  <2> HIDE DEF k
  <2>2. /\ Newest(Archived, k) \subseteq Archived
        /\ \A m \in Newest(Archived, k), l \in Archived : m <= l => l \in Newest(Archived, k)
        /\ k <= 0 => Newest(Archived, k) = {}
        /\ k > 0 => Cardinality(Newest(Archived, k)) <= k
        /\ Cardinality(Newest(Archived, k)) < k => Newest(Archived, k) = Archived
    BY <1>0, <2>1, NewestFacts
  <2> QED  BY <2>1, <2>2 DEF k
<1> HIDE DEF C
<1>4. \A n \in 1..seen : n \in table \/ n \in Archived
  <2> SUFFICES ASSUME NEW n \in 1..seen, n \notin table PROVE n \in Archived
    OBVIOUS
  <2>1. n \in 1..sent
    BY <1>0
  <2> QED  BY <1>0, <2>1 DEF Counted, Archived
<1>5. C < PageSize => \A n \in table : n <= seen => n \in current
  BY <1>0 DEF Reading, C
<1>6. ASSUME NEW m \in current \cup archived', NEW n \in m..seen
      PROVE  n \in current \cup archived'
  <2>1. CASE m \in current
    BY <1>0, <2>1 DEF Reading
  <2>2. CASE m \in archived'
    <3>1. m \in 1..sent /\ n \in 1..seen /\ m <= n
      BY <1>0, <1>3, <2>2
    <3>2. C < PageSize
      BY <1>0, <1>1, <1>3, <2>2
    <3> QED  BY <1>3, <1>4, <1>5, <2>2, <3>1, <3>2
  <2> QED  BY <2>1, <2>2
<1>7. ASSUME ~crossed
      PROVE  /\ current \cap archived' = {}
             /\ Cardinality(current \cup archived') =
                  IF seen < PageSize THEN seen ELSE PageSize
  <2>1. current \subseteq table /\ Archived \in SUBSET (1..seen)
    <3>1. current \subseteq table /\ \A g \in manifests : \A m \in g : m <= seen
      BY <1>0, <1>7 DEF Reading
    <3> QED  BY <1>0, <3>1 DEF Archived
  <2>2. table \cap Archived = {}
    <3> SUFFICES ASSUME NEW m \in table, NEW g \in manifests, m \in g PROVE FALSE
      BY DEF Archived
    <3>1. m \in 1..sent
      BY DEF TypeOK
    <3> QED  BY <1>0, <3>1 DEF Counted
  <2>3. current \cap archived' = {} /\ archived' \in SUBSET (1..seen)
    BY <1>3, <2>1, <2>2
  <2>4. IsFiniteSet(archived') /\ Cardinality(archived') \in Nat
    BY <1>0, <2>3, Finite
  <2>5. Cardinality(current \cup archived') = C + Cardinality(archived')
    <3>1. Cardinality(current \cup archived')
            = C + Cardinality(archived') - Cardinality(current \cap archived')
      BY <1>1, <2>4, FS_Union DEF C
    <3> QED  BY <1>1, <2>3, <2>4, <3>1, FS_EmptySet
  <2>6. current \cup archived' \in SUBSET (1..seen)
        /\ Cardinality(current \cup archived') <= seen
    <3>1. current \cup archived' \in SUBSET (1..seen)
      BY <1>0, <2>3
    <3> QED  BY <1>0, <3>1, Finite
  <2>7. CASE C = PageSize
    <3>1. Cardinality(archived') = 0
      <4>1. PageSize - C <= 0
        BY <1>0, <2>7
      <4>2. archived' = {}
        BY <1>3, <4>1
      <4> QED  BY <4>2, FS_EmptySet
    <3> QED  BY <1>0, <1>1, <2>3, <2>5, <2>7, <3>1
  <2>8. CASE C < PageSize /\ Cardinality(archived') < PageSize - C
    <3>1. archived' = Archived
      BY <1>3, <2>8
    <3>2. current \cup archived' = 1..seen
      <4>1. \A n \in 1..seen : n \in current \/ n \in archived'
        BY <1>4, <1>5, <2>8, <3>1
      <4> QED  BY <2>6, <4>1
    <3>3. Cardinality(current \cup archived') = seen
      <4>1. Cardinality(1..seen) = seen
        BY <1>0, FS_Interval
      <4> QED  BY <3>2, <4>1
    <3> QED  BY <1>0, <1>1, <2>3, <2>4, <2>5, <2>8, <3>3
  <2>9. CASE C < PageSize /\ ~(Cardinality(archived') < PageSize - C)
    <3>1. Cardinality(archived') = PageSize - C
      BY <1>0, <1>1, <1>3, <2>4, <2>9
    <3> QED  BY <1>0, <1>1, <2>3, <2>5, <2>6, <3>1
  <2> QED  BY <1>0, <1>1, <2>7, <2>8, <2>9
<1> QED  BY <1>6, <1>7

\* No step changes that what was read from the table is the end of it.
LEMMA ReadingStep ==
  ASSUME TypeOK, Counted, Consecutively, Emptied, Reading, [Next]_vars
  PROVE  Reading'
<1> USE Bounds DEF stored, archiver, page
<1>0. sent \in Nat /\ seen \in Nat /\ seen <= sent /\ table \subseteq 1..sent
  BY DEF TypeOK
<1>1. ASSUME UNCHANGED <<table, manifests, seen, current, crossed>>,
             reader' # "done" => bare' = {}, reader' # "idle" => reader # "idle"
      PROVE  Reading'
  BY <1>1 DEF Reading
<1>2. CASE Send
  <2>1. /\ table' = table \cup {sent + 1}
        /\ UNCHANGED <<manifests, reader, seen, current, bare, crossed>>
    BY <1>2 DEF Send
  <2> QED  BY <1>0, <2>1 DEF Reading
<1>3. CASE Commit
  <2>1. /\ table' \subseteq table /\ UNCHANGED <<reader, seen, current, bare>>
        /\ reader # "idle" => crossed'
    BY <1>3 DEF Commit
  <2> QED  BY <2>1 DEF Reading
<1>4. CASE EndCascade
  BY <1>4 DEF EndCascade, Emptied, Reading
<1>5. CASE ReadTable
  <2>1. /\ reader' = "table" /\ seen' = sent /\ current' = Newest(table, PageSize)
        /\ bare' = {} /\ crossed' = FALSE /\ conversation = "live"
        /\ UNCHANGED <<table, manifests>>
    BY <1>5 DEF ReadTable, Reading
  <2>2. /\ current' \subseteq table
        /\ \A m \in current', l \in table : m <= l => l \in current'
        /\ Cardinality(current') <= PageSize
        /\ Cardinality(current') < PageSize => current' = table
    <3>1. table \in SUBSET (1..sent) /\ PageSize \in Int /\ PageSize > 0
      BY <1>0
    <3>2. /\ Newest(table, PageSize) \subseteq table
          /\ \A m \in Newest(table, PageSize), l \in table :
               m <= l => l \in Newest(table, PageSize)
          /\ Cardinality(Newest(table, PageSize)) <= PageSize
          /\ Cardinality(Newest(table, PageSize)) < PageSize => Newest(table, PageSize) = table
      BY <1>0, <3>1, NewestFacts
    <3> QED  BY <2>1, <3>2
  <2>3. ASSUME NEW m \in current', NEW l \in m..seen' PROVE l \in current'
    <3>1. m \in table /\ l \in m..sent /\ m <= l
      BY <1>0, <2>1, <2>2
    <3>2. l \in table
      BY <2>1, <3>1 DEF Consecutively
    <3> QED  BY <2>2, <3>1, <3>2
  <2>4. \A g \in manifests : \A m \in g : m <= seen'
    BY <1>0, <2>1 DEF Counted
  <2> QED  BY <2>1, <2>2, <2>3, <2>4 DEF Reading
<1>6. CASE ReadArchive \/ ReadParts \/ EndRead
  <2>1. CASE ReadArchive
    BY <1>1, <2>1 DEF ReadArchive, Reading
  <2>2. CASE ReadParts
    BY <1>1, <2>2 DEF ReadParts
  <2>3. CASE EndRead
    BY <2>3 DEF EndRead, Reading
  <2> QED  BY <1>6, <2>1, <2>2, <2>3
<1>7. CASE Age \/ Select \/ Put \/ Verify \/ VerifyFails \/ WriterFails \/ LatePut \/ Delete
           \/ DeletePrefix \/ BeginCascade \/ DeadlockKillsWriter \/ PurgeFails \/ UNCHANGED vars
  <2>1. UNCHANGED <<table, manifests, seen, current, crossed, reader, bare>>
    BY <1>7 DEF Age, Select, Put, Verify, VerifyFails, WriterFails, LatePut, Delete, DeletePrefix,
       BeginCascade, DeadlockKillsWriter, PurgeFails, vars
  <2> QED  BY <1>1, <2>1 DEF Reading
<1> QED
  BY <1>2, <1>3, <1>4, <1>5, <1>6, <1>7 DEF Next, Archiver, Purger, Reader

LEMMA PageStep ==
  ASSUME TypeOK, Counted, Consecutively, Emptied, Reading, Page, [Next]_vars
  PROVE  Page'
<1> USE DEF stored, archiver, page
<1>1. CASE ReadTable \/ EndRead
  BY <1>1 DEF ReadTable, EndRead, Page, PageHasNoHole
<1>2. CASE ReadArchive
  <2>1. reader' = "archive" /\ UNCHANGED <<seen, current, crossed>>
    BY <1>2 DEF ReadArchive
  <2>2. /\ \A m \in current \cup archived' : m..seen \subseteq current \cup archived'
        /\ ~crossed =>
             /\ current \cap archived' = {}
             /\ Cardinality(current \cup archived') =
                  IF seen < PageSize THEN seen ELSE PageSize
    BY <1>2, PageIsRead
  <2> QED  BY <2>1, <2>2 DEF Page, PageHasNoHole
<1>3. CASE ReadParts
  <2>1. /\ reader = "archive" /\ reader' = "done" /\ bare' = current \ (table \cup archived)
        /\ UNCHANGED <<seen, current, archived, crossed>>
    BY <1>3 DEF ReadParts
  <2>2. ~crossed => bare' = {}
    BY <2>1 DEF Reading
  <2> QED  BY <2>1, <2>2 DEF Page, PageHasNoHole
<1>4. ASSUME UNCHANGED <<reader, seen, current, archived, bare>>,
             reader # "idle" /\ crossed => crossed'
      PROVE  Page'
  BY <1>4 DEF Page, PageHasNoHole
<1>5. CASE Commit
  BY <1>4, <1>5 DEF Commit
<1>6. CASE Send \/ Age \/ Select \/ Put \/ Verify \/ VerifyFails \/ WriterFails \/ LatePut
           \/ Delete \/ Purger \/ PurgeFails \/ UNCHANGED vars
  BY <1>4, <1>6 DEF Send, Age, Select, Put, Verify, VerifyFails, WriterFails, LatePut, Delete,
     Purger, DeletePrefix, BeginCascade, EndCascade, DeadlockKillsWriter, PurgeFails, vars
<1> QED  BY <1>1, <1>2, <1>3, <1>5, <1>6 DEF Next, Archiver, Reader

-----------------------------------------------------------------------------
LEMMA InvInit == Init => Inv
<1> SUFFICES ASSUME Init PROVE Inv
  OBVIOUS
<1> USE Bounds DEF Init
<1>1. TypeOK
  <2>1. 0 \in 0..MaxMessages /\ 0 \in 0..0 /\ 0 \in 0..MaxFaults
    BY DEF Init
  <2> QED  BY <2>1 DEF TypeOK
<1>2. Counted /\ Kept /\ Emptied /\ Reading
  BY DEF Counted, Kept, Emptied, Reading
<1>3. Consecutively
  BY DEF Consecutively, Consecutive
<1>4. Page
  BY DEF Page, PageHasNoHole
<1> QED  BY <1>1, <1>2, <1>3, <1>4 DEF Inv

LEMMA InvStep == Inv /\ [Next]_vars => Inv'
<1> SUFFICES ASSUME Inv, [Next]_vars PROVE Inv'
  OBVIOUS
<1> QED
  BY TypeStep, CountedStep, ConsecutivelyStep, KeptStep, EmptiedStep, ReadingStep, PageStep
     DEF Inv

\* Every reachable state of the archive satisfies the inductive invariant.
THEOREM InductiveInvariant == Spec => []Inv
  BY InvInit, InvStep, PTL DEF Spec

\* Type correctness of the table, the archive, the writer and the reader.
THEOREM TypeCorrect == Spec => []TypeOK
<1>1. Inv => TypeOK
  BY DEF Inv
<1> QED  BY <1>1, InductiveInvariant, PTL

\* Every message of a conversation has its row or is counted by exactly one
\* manifest, whose object is there, until the purge leaves nothing.
THEOREM MessagesAreKept == Spec => []MessagesKept
<1>1. ASSUME Inv PROVE MessagesKept
  <2> USE <1>1 DEF Inv
  <2>1. EachMessageOnce
    <3> SUFFICES ASSUME conversation # "gone", NEW m \in 1..sent, m \notin table
                 PROVE  Cardinality({g \in manifests : m \in g}) = 1
      BY DEF EachMessageOnce, Counted
    <3>1. PICK g \in manifests : m \in g
      BY DEF Counted
    <3>2. {h \in manifests : m \in h} = {g}
      BY <3>1 DEF Counted
    <3> QED  BY <3>2, FS_Singleton
  <2>2. ManifestsReadable /\ ArchivePurged
    BY DEF ManifestsReadable, ArchivePurged, Kept, Emptied
  <2> QED  BY <2>1, <2>2 DEF MessagesKept
<1> QED  BY <1>1, InductiveInvariant, PTL

\* No page has a hole, and one read while nothing moved is full and exact.
THEOREM PagesAreAlwaysRight == Spec => []PagesAreRight
<1>1. Inv => PagesAreRight
  BY DEF Inv, Page, PagesAreRight, PageIsExact
<1> QED  BY <1>1, InductiveInvariant, PTL

-----------------------------------------------------------------------------
(* Connections: the walks through conversations and saved products, for    *)
(* every set of ids, page size, number of units a millisecond and lag.     *)
(*                                                                         *)
(* A walk goes down because a cursor, rounded down, is at or below its     *)
(* row; it repeats no id because a row that comes back is newer (AgeInv).  *)
(* It misses nothing that stayed because such a row is at every moment     *)
(* returned, or dropped, or hidden by the rounding, or in the page that is *)
(* being read, or below it, or under the cursor (StayInv).                 *)

Returned(id) == \E i \in DOMAIN got : got[i].id = id

\* Rows in the order of the list are read below the cursor, and the client asks
\* on with the cursor of the last one it got.
AskingInv ==
  /\ request # None => client = "asking"
  /\ client = "asking" => after = EndCursor(got)
  /\ request # None =>
       /\ \A i, j \in DOMAIN request.rows :
            i < j => /\ Above(request.rows[i], request.rows[j])
                     /\ request.rows[i].id # request.rows[j].id
       /\ \A i \in DOMAIN request.rows : Below(request.rows[i])

\* A row that was read is still the one there is, or comes back newer.
NotNewer(row) ==
  /\ row.time <= clock
  /\ rows[row.id] # None => row.time <= rows[row.id]
  /\ list = "conversations" => rows[row.id] # None

AgeInv ==
  /\ \A id \in Ids : rows[id] # None => rows[id] <= clock
  /\ \A i \in DOMAIN got : NotNewer(got[i])
  /\ request # None =>
       \A j \in DOMAIN request.rows :
         /\ NotNewer(request.rows[j])
         /\ \A i \in DOMAIN got :
              got[i].id = request.rows[j].id => got[i].time <= request.rows[j].time

OrderedInv == WalkTypeOK /\ AskingInv /\ AgeInv /\ NothingTwice /\ NewestFirst

\* The row lies below every one of the request, which has more than its page.
Beyond(id) ==
  /\ HasNextPage(request)
  /\ \A i \in DOMAIN request.rows : Above(request.rows[i], Row(id))

Remains(row) == Present(row.id) /\ row = Row(row.id)

\* What stayed was returned, dropped or hidden, or is read, or is still to come.
StayInv ==
  /\ \A id \in stay : Present(id)
  /\ client = "asking" =>
       \A id \in stay :
         \/ Returned(id) \/ id \in dropped \/ Hidden(id)
         \/ request = None /\ Below(Row(id))
         \/ request # None /\ (Beyond(id) \/ \E i \in DOMAIN request.rows :
                                              request.rows[i] = Row(id))
  /\ request # None =>
       removed \/ \A i \in DOMAIN request.rows : Remains(request.rows[i])

-----------------------------------------------------------------------------
\* A row lies under a cursor.
Under(cursor, row) ==
  \/ cursor = None
  \/ row.time < cursor.time
  \/ row.time = cursor.time /\ row.id < cursor.id

\* Milliseconds: rounding down, and what shares one.
LEMMA MsFacts ==
  ASSUME NEW t \in Times
  PROVE  /\ Ms(t) \in Times /\ Ms(t) <= t
         /\ \A u \in Times : Ms(t) <= u /\ u <= t => Ms(u) = Ms(t)
<1>1. PerMs \in Nat /\ PerMs > 0 /\ MaxTime \in Nat
  BY ConnectionsAssumption DEF ConnectionsAssumption
<1>2. ASSUME NEW x \in Times
      PROVE  /\ x \div PerMs \in Nat /\ Ms(x) \in Nat
             /\ Ms(x) <= x /\ x < Ms(x) + PerMs
  <2>1. x \in Nat
    BY <1>1, <1>2 DEF Times
  <2> DEFINE q == x \div PerMs
  <2>2. q \in Nat
    BY <1>1, <2>1
  <2>3. x = PerMs * q + (x % PerMs) /\ x % PerMs \in 0..PerMs - 1
    BY <1>1, <2>1
  <2>4. PerMs * q \in Nat
    BY <1>1, <2>2
  <2>5. Ms(x) = PerMs * q
    BY DEF Ms
  <2> HIDE DEF q
  <2>6. PerMs * q <= x /\ x < PerMs * q + PerMs
    BY <1>1, <2>1, <2>3, <2>4
  <2> QED  BY <2>2, <2>4, <2>5, <2>6 DEF q
<1>3. ASSUME NEW u \in Times, Ms(t) <= u, u <= t
      PROVE  Ms(u) = Ms(t)
  <2> DEFINE q == t \div PerMs
             r == u \div PerMs
  <2>1. /\ q \in Nat /\ r \in Nat /\ Ms(t) = PerMs * q /\ Ms(u) = PerMs * r
        /\ t \in Nat /\ u \in Nat
    BY <1>1, <1>2 DEF Ms, Times
  <2>2. /\ PerMs * q <= u /\ u < PerMs * q + PerMs
        /\ PerMs * r <= u /\ u < PerMs * r + PerMs
    <3>1. /\ Ms(t) <= t /\ t < Ms(t) + PerMs /\ Ms(u) <= u /\ u < Ms(u) + PerMs
          /\ Ms(t) \in Nat /\ Ms(u) \in Nat
      BY <1>2
    <3> HIDE DEF q, r
    <3> QED  BY <1>1, <1>3, <2>1, <3>1
  <2> HIDE DEF q, r
  <2>3. ASSUME NEW a \in Nat, NEW b \in Nat, a < b PROVE PerMs * a + PerMs <= PerMs * b
    <3>1. PICK d \in Nat : b = a + 1 + d
      <4>1. b - a - 1 \in Nat /\ b = a + 1 + (b - a - 1)
        BY <2>3
      <4> QED  BY <4>1
    <3>2. PerMs * (a + 1 + d) = PerMs * a + PerMs + PerMs * d
      BY <1>1, <3>1
    <3>3. PerMs * d \in Nat /\ PerMs * a \in Nat
      BY <1>1, <3>1
    <3>4. PerMs * a + PerMs <= PerMs * a + PerMs + PerMs * d
      BY <1>1, <3>3
    <3> QED  BY <3>1, <3>2, <3>4
  <2>4. PerMs * q \in Nat /\ PerMs * r \in Nat
    BY <1>1, <2>1
  <2>5. ~(q < r)
    <3> SUFFICES ASSUME q < r PROVE FALSE
      OBVIOUS
    <3>1. PerMs * q + PerMs <= PerMs * r
      BY <2>1, <2>3
    <3> QED  BY <1>1, <2>1, <2>2, <2>4, <3>1
  <2>6. ~(r < q)
    <3> SUFFICES ASSUME r < q PROVE FALSE
      OBVIOUS
    <3>1. PerMs * r + PerMs <= PerMs * q
      BY <2>1, <2>3
    <3> QED  BY <1>1, <2>1, <2>2, <2>4, <3>1
  <2>7. q = r
    BY <2>1, <2>5, <2>6
  <2> QED  BY <2>1, <2>7
<1>4. Ms(t) \in Times /\ Ms(t) <= t
  BY <1>1, <1>2 DEF Times
<1> QED  BY <1>3, <1>4

LEMMA RowFields ==
  ASSUME NEW x \in Rows
  PROVE  /\ x.id \in Ids /\ x.id \in Int /\ x.time \in Times /\ x.time \in Int
         /\ Cursor(x) \in Rows /\ Cursor(x).id = x.id /\ Cursor(x).time = Ms(x.time)
         /\ Cursor(x) # None
<1>0. /\ x.id \in Ids /\ x.time \in Times /\ Ids \subseteq Int /\ Times \subseteq Int
  BY ConnectionsAssumption DEF ConnectionsAssumption, Rows, Times
<1>1. /\ x.id \in Ids /\ x.id \in Int /\ x.time \in Times /\ x.time \in Int
  BY <1>0
<1>2. Ms(x.time) \in Times
  BY <1>1, MsFacts
<1>3. Cursor(x) \in Rows
  BY <1>1, <1>2 DEF Cursor, Rows
<1> QED  BY <1>1, <1>3, ConnectionsAssumption DEF ConnectionsAssumption, Cursor

LEMMA AboveIsOrder ==
  ASSUME NEW x \in Rows, NEW y \in Rows, NEW z \in Rows
  PROVE  /\ Above(x, y) /\ Above(y, z) => Above(x, z)
         /\ ~Above(x, x)
         /\ x = y \/ Above(x, y) \/ Above(y, x)
<1>1. /\ x.id \in Int /\ x.time \in Int /\ y.id \in Int /\ y.time \in Int
      /\ z.id \in Int /\ z.time \in Int
  BY RowFields
<1>2. x.id = y.id /\ x.time = y.time => x = y
  BY DEF Rows
<1> QED  BY <1>1, <1>2 DEF Above

\* What is under the cursor of a row is below the row; what is below the row is
\* under its cursor, or has its millisecond.
LEMMA CursorFacts ==
  ASSUME NEW last \in Rows, NEW row \in Rows
  PROVE  /\ Under(Cursor(last), row) => Above(last, row)
         /\ Above(last, row) =>
              \/ Under(Cursor(last), row)
              \/ last.time # Ms(last.time) /\ Ms(last.time) = Ms(row.time)
<1> DEFINE c == Cursor(last)
<1>1. /\ last.id \in Int /\ last.time \in Times /\ last.time \in Int
      /\ row.id \in Int /\ row.time \in Times /\ row.time \in Int
      /\ c # None /\ c.id = last.id /\ c.time = Ms(last.time)
  BY RowFields
<1>2. Ms(last.time) \in Int /\ Ms(last.time) <= last.time
  BY <1>1, MsFacts DEF Times
<1>3. Ms(last.time) <= row.time /\ row.time <= last.time => Ms(row.time) = Ms(last.time)
  BY <1>1, MsFacts
<1> HIDE DEF c
<1>4. Under(c, row) => Above(last, row)
  BY <1>1, <1>2 DEF Under, Above
<1>5. Above(last, row) =>
         \/ Under(c, row)
         \/ last.time # Ms(last.time) /\ Ms(last.time) = Ms(row.time)
  BY <1>1, <1>2, <1>3 DEF Under, Above
<1> QED  BY <1>4, <1>5 DEF c
-----------------------------------------------------------------------------
\* A sequence of a finite set has each of its elements once.
LEMMA SeqsOfSet ==
  ASSUME NEW S, IsFiniteSet(S), NEW s \in SetToSeqs(S)
  PROVE  /\ s \in Seq(S) /\ Len(s) = Cardinality(S) /\ Len(s) \in Nat
         /\ DOMAIN s = 1..Len(s)
         /\ \A x \in S : \E i \in DOMAIN s : s[i] = x
<1> DEFINE n == Cardinality(S)
<1>1. n \in Nat
  BY FS_CardinalityType
<1>2. s \in [1..n -> S] /\ \A i, j \in 1..n : i # j => s[i] # s[j]
  BY DEF SetToSeqs
<1>3. s \in Injection(1..n, S)
  BY <1>2 DEF Injection, IsInjective
<1>4. Cardinality(1..n) = n
  BY <1>1, FS_Interval
<1>5. s \in Surjection(1..n, S)
  BY <1>3, <1>4, FS_Injection DEF n
<1>6. \A x \in S : \E i \in 1..n : s[i] = x
  BY <1>5 DEF Surjection
<1> HIDE DEF n
<1>7. s \in Seq(S) /\ Len(s) = n /\ DOMAIN s = 1..n
  BY <1>1, <1>2
<1> QED  BY <1>1, <1>6, <1>7 DEF n

LEMMA FirstOfFacts ==
  ASSUME NEW S, NEW s \in Seq(S), NEW n \in Nat
  PROVE  LET f == FirstOf(s, n)
         IN /\ f \in Seq(S) /\ Len(f) \in Nat
            /\ Len(f) = IF Len(s) < n THEN Len(s) ELSE n
            /\ DOMAIN f = 1..Len(f) /\ DOMAIN f \subseteq DOMAIN s
            /\ \A i \in DOMAIN f : f[i] = s[i]
<1> DEFINE m == IF Len(s) < n THEN Len(s) ELSE n
           f == SubSeq(s, 1, m)
<1>1. Len(s) \in Nat /\ DOMAIN s = 1..Len(s) /\ m \in Nat /\ m <= Len(s)
  OBVIOUS
<1> HIDE DEF m
<1>2. \A i \in 1..m : i \in 1..Len(s) /\ s[i] \in S
  BY <1>1
<1>3. f \in Seq(S) /\ Len(f) = m /\ \A i \in 1..m : f[i] = s[i]
  BY <1>1, <1>2
<1>4. FirstOf(s, n) = f
  BY DEF FirstOf, m
<1> HIDE DEF f
<1>5. DOMAIN f = 1..m /\ \A i \in DOMAIN f : i \in DOMAIN s
  BY <1>1, <1>2, <1>3
<1> QED  BY <1>1, <1>3, <1>4, <1>5 DEF m

LEMMA FoundIsFinite ==
  ASSUME WalkTypeOK
  PROVE  Found \in SUBSET Rows /\ IsFiniteSet(Found)
<1>1. Found \subseteq Rows
  <2>1. ASSUME NEW id \in Ids, Present(id) PROVE Row(id) \in Rows
    BY <2>1 DEF Present, WalkTypeOK, Row, Rows
  <2> QED  BY <2>1 DEF Found
<1>2. IsFiniteSet(Found)
  <2>1. IsFiniteSet({i \in Ids : Present(i)})
    BY FS_Subset, ConnectionsAssumption DEF ConnectionsAssumption
  <2> DEFINE T == {i \in Ids : Present(i)}
             R == {Row(id) : id \in T}
             f == [id \in T |-> Row(id)]
  <2>2. f \in Surjection(T, R)
    BY DEF Surjection
  <2>3. IsFiniteSet(R)
    BY <2>1, <2>2, FS_Surjection
  <2> QED  BY <2>3, FS_Subset DEF Found
<1> QED  BY <1>1, <1>2

\* A page is the top of the rows below the cursor.
LEMMA ListedFacts ==
  ASSUME WalkTypeOK, NEW first \in Nat, NEW listed \in Listed(first)
  PROVE  /\ listed \in Seq(Rows) /\ Len(listed) \in Nat /\ DOMAIN listed = 1..Len(listed)
         /\ \A i, j \in DOMAIN listed : i < j => Above(listed[i], listed[j])
         /\ \A i \in DOMAIN listed : listed[i] \in Found
         /\ \A row \in Found :
              \/ \E i \in DOMAIN listed : listed[i] = row
              \/ Len(listed) > first /\ \A i \in DOMAIN listed : Above(listed[i], row)
<1>1. PICK s \in InOrder(Found) : listed = FirstOf(s, first + 1)
  BY DEF Listed
<1>2. Found \subseteq Rows /\ IsFiniteSet(Found)
  BY FoundIsFinite
<1>4. /\ s \in SetToSeqs(Found)
      /\ \A i, j \in DOMAIN s : i < j => Above(s[i], s[j])
  BY DEF InOrder
<1>5. /\ s \in Seq(Found) /\ Len(s) \in Nat /\ DOMAIN s = 1..Len(s)
      /\ \A x \in Found : \E i \in DOMAIN s : s[i] = x
  BY <1>2, <1>4, SeqsOfSet
<1>6. first + 1 \in Nat
  OBVIOUS
<1>7. /\ listed \in Seq(Found) /\ Len(listed) \in Nat
      /\ Len(listed) = IF Len(s) < first + 1 THEN Len(s) ELSE first + 1
      /\ DOMAIN listed = 1..Len(listed) /\ DOMAIN listed \subseteq DOMAIN s
      /\ \A i \in DOMAIN listed : listed[i] = s[i]
  BY <1>1, <1>5, <1>6, FirstOfFacts
<1>8. \A i \in DOMAIN listed : listed[i] \in Found
  BY <1>7
<1>9. listed \in Seq(Rows)
  BY <1>2, <1>7, <1>8
<1>10. ASSUME NEW row \in Found, ~\E i \in DOMAIN listed : listed[i] = row
       PROVE  Len(listed) > first /\ \A i \in DOMAIN listed : Above(listed[i], row)
  <2>1. PICK k \in DOMAIN s : s[k] = row
    BY <1>5
  <2>2. k \notin DOMAIN listed
    BY <1>7, <1>10, <2>1
  <2>3. Len(listed) = first + 1 /\ k > Len(listed)
    BY <1>5, <1>7, <2>2
  <2>4. \A i \in DOMAIN listed : i \in DOMAIN s /\ i < k
    BY <1>5, <1>7, <2>3
  <2>5. \A i \in DOMAIN listed : Above(listed[i], row)
    BY <1>4, <1>7, <2>1, <2>4
  <2> QED  BY <2>3, <2>5
<1> QED  BY <1>4, <1>7, <1>8, <1>9, <1>10

\* The edges of a page: the places of its rows that have a snapshot.
LEMMA EdgesFacts ==
  ASSUME NEW p \in Requests, NEW edges \in Edges(p)
  PROVE  /\ edges \in Seq(Rows) /\ Len(edges) \in Nat /\ DOMAIN edges = 1..Len(edges)
         /\ p.rows \in Seq(Rows) /\ p.first \in Nat /\ Len(p.rows) \in Nat
         /\ DOMAIN p.rows = 1..Len(p.rows)
         /\ \E s \in [DOMAIN edges -> {i \in DOMAIN p.rows : i <= p.first}] :
              /\ \A i \in DOMAIN edges : edges[i] = p.rows[s[i]]
              /\ \A i, j \in DOMAIN edges : i < j => s[i] < s[j]
              /\ \A k \in DOMAIN p.rows : k <= p.first /\ p.rows[k].id \notin plain =>
                   \E i \in DOMAIN edges : s[i] = k
<1> DEFINE read == FirstOf(p.rows, p.first)
           kept == {i \in DOMAIN read : read[i].id \notin plain}
<1>1. p.rows \in Seq(Rows) /\ p.first \in 1..MaxFirst
  BY DEF Requests
<1>2. p.first \in Nat
  BY <1>1
<1>3. PICK s \in Ascending(kept) : edges = [i \in DOMAIN s |-> read[s[i]]]
  BY DEF Edges
<1>4. /\ read \in Seq(Rows) /\ Len(read) \in Nat
      /\ Len(read) = IF Len(p.rows) < p.first THEN Len(p.rows) ELSE p.first
      /\ DOMAIN read = 1..Len(read) /\ DOMAIN read \subseteq DOMAIN p.rows
      /\ \A i \in DOMAIN read : read[i] = p.rows[i]
  BY <1>1, <1>2, FirstOfFacts
<1> HIDE DEF read
<1>5. IsFiniteSet(kept)
  <2>1. IsFiniteSet(1..Len(read))
    BY <1>4, FS_Interval
  <2> QED  BY <1>4, <2>1, FS_Subset
<1>6. /\ s \in SetToSeqs(kept)
      /\ \A i, j \in DOMAIN s : i < j => s[i] < s[j]
  BY DEF Ascending
<1>7. /\ s \in Seq(kept) /\ Len(s) \in Nat /\ DOMAIN s = 1..Len(s)
      /\ \A x \in kept : \E i \in DOMAIN s : s[i] = x
  BY <1>5, <1>6, SeqsOfSet
<1>8. \A i \in DOMAIN s : s[i] \in kept /\ s[i] \in DOMAIN read
  BY <1>7
<1>9. /\ edges \in [1..Len(s) -> Rows]
  BY <1>3, <1>4, <1>7, <1>8
<1>10. edges \in Seq(Rows) /\ Len(edges) = Len(s) /\ DOMAIN edges = DOMAIN s
  BY <1>7, <1>9
<1>11. Len(p.rows) \in Nat /\ DOMAIN p.rows = 1..Len(p.rows)
  BY <1>1
<1>12. \A i \in DOMAIN p.rows : i \in DOMAIN read <=> i <= p.first
  BY <1>2, <1>4, <1>11
<1>13. s \in [DOMAIN edges -> {i \in DOMAIN p.rows : i <= p.first}]
  BY <1>4, <1>7, <1>8, <1>10, <1>12
<1>14. \A i \in DOMAIN edges : edges[i] = p.rows[s[i]]
  BY <1>3, <1>4, <1>8, <1>10
<1>15. \A k \in DOMAIN p.rows : k <= p.first /\ p.rows[k].id \notin plain =>
         \E i \in DOMAIN edges : s[i] = k
  BY <1>4, <1>7, <1>10, <1>12
<1> QED  BY <1>1, <1>2, <1>6, <1>7, <1>10, <1>11, <1>13, <1>14, <1>15
-----------------------------------------------------------------------------
LEMMA NoneIsNoOther ==
  /\ \A t \in Times : t # None
  /\ \A x \in Rows : x # None
  /\ \A p \in Requests : p # None
BY ConnectionsAssumption DEF ConnectionsAssumption

LEMMA WalkInitially == WalkInit => OrderedInv /\ StayInv /\ PromisedPageHasRows
<1> SUFFICES ASSUME WalkInit PROVE OrderedInv /\ StayInv /\ PromisedPageHasRows
  OBVIOUS
<1>1. 0 \in Times /\ 0 <= 0
  BY ConnectionsAssumption DEF ConnectionsAssumption, Times
<1>2. \A id \in Ids : rows[id] \in {0, None}
  BY DEF WalkInit
<1>3. WalkTypeOK
  <2>1. rows \in [Ids -> Times \cup {None}] /\ plain \subseteq Ids
    BY <1>1 DEF WalkInit
  <2>2. << >> \in Seq(Rows)
    OBVIOUS
  <2> QED  BY <1>1, <2>1, <2>2 DEF WalkInit, WalkTypeOK
<1>4. AskingInv /\ NothingTwice /\ NewestFirst
  BY DEF WalkInit, AskingInv, NothingTwice, NewestFirst, IsInjective
<1>5. AgeInv
  BY <1>1, <1>2 DEF WalkInit, AgeInv
<1>6. StayInv /\ PromisedPageHasRows
  BY DEF WalkInit, StayInv, PromisedPageHasRows
<1> QED  BY <1>3, <1>4, <1>5, <1>6 DEF OrderedInv

\* The rows change: those that were read come back newer, if at all.
LEMMA AgeKept ==
  ASSUME OrderedInv, UNCHANGED <<list, request, got>>,
         clock' \in Times, clock <= clock', rows' \in [Ids -> Times \cup {None}],
         \A id \in Ids :
           \/ rows'[id] = rows[id]
           \/ list = "savedProducts" /\ rows'[id] \in {None, clock}
           \/ rows[id] = None /\ list = "conversations" /\ rows'[id] <= clock
  PROVE  AgeInv'
<1>1. clock \in Int /\ clock' \in Int /\ \A t \in Times : t \in Int
  BY ConnectionsAssumption DEF OrderedInv, WalkTypeOK, Times, ConnectionsAssumption
<1>2. ASSUME NEW id \in Ids, rows'[id] # None PROVE rows'[id] <= clock'
  <2>1. rows'[id] \in Times
    BY <1>2
  <2>2. rows'[id] <= clock
    <3>1. rows[id] # None => rows[id] <= clock
      BY DEF OrderedInv, AgeInv
    <3> QED  BY <1>1, <1>2, <3>1
  <2>3. rows'[id] \in Int /\ clock \in Int /\ clock' \in Int /\ clock <= clock'
    BY <1>1, <2>1
  <2> QED  BY <2>2, <2>3
<1>3. ASSUME NEW row \in Rows, NotNewer(row) PROVE NotNewer(row)'
  <2>1. row.id \in Ids /\ row.time \in Int
    BY RowFields
  <2>2. row.time <= clock'
    BY <1>1, <1>3, <2>1 DEF NotNewer
  <2>3. ASSUME rows'[row.id] # None PROVE row.time <= rows'[row.id]
    BY <1>3, <2>1, <2>3 DEF NotNewer
  <2>4. ASSUME list = "conversations" PROVE rows'[row.id] # None
    BY <1>3, <2>1, <2>4 DEF NotNewer
  <2> QED  BY <2>2, <2>3, <2>4 DEF NotNewer
<1>4. \A i \in DOMAIN got : got[i] \in Rows /\ NotNewer(got[i])
  BY DEF OrderedInv, WalkTypeOK, AgeInv
<1>5. request # None =>
        \A j \in DOMAIN request.rows : request.rows[j] \in Rows /\ NotNewer(request.rows[j])
  BY DEF OrderedInv, WalkTypeOK, AgeInv, Requests
<1>6. request # None =>
        \A j \in DOMAIN request.rows : \A i \in DOMAIN got :
          got[i].id = request.rows[j].id => got[i].time <= request.rows[j].time
  BY DEF OrderedInv, AgeInv
<1> QED  BY <1>2, <1>3, <1>4, <1>5, <1>6 DEF AgeInv

\* The writes keep the order of the walk.
LEMMA WritesKeepOrder ==
  ASSUME OrderedInv, UNCHANGED <<list, walk>>, WalkTypeOK', AgeInv'
  PROVE  OrderedInv'
<1>1. UNCHANGED <<client, after, request, got>>
  BY DEF walk
<1>2. AskingInv'
  BY <1>1 DEF OrderedInv, AskingInv, EndCursor, Below, Last, Cursor, Ms
<1> QED  BY <1>1, <1>2 DEF OrderedInv, NothingTwice, NewestFirst

\* The rows that stay are still the same, and where one left it is known.
LEMMA WritesKeepStay ==
  ASSUME OrderedInv, StayInv, PromisedPageHasRows, UNCHANGED walk,
         stay' \subseteq stay,
         \A id \in stay' : rows'[id] = rows[id] /\ id \notin gone',
         \/ removed' = TRUE
         \/ /\ removed' = removed /\ gone' = gone
            /\ \A id \in Ids : rows[id] # None => rows'[id] = rows[id]
  PROVE  StayInv' /\ PromisedPageHasRows'
<1>1. /\ client' = client /\ after' = after /\ request' = request /\ got' = got
      /\ dropped' = dropped
  BY DEF walk
<1>2. ASSUME NEW id, rows'[id] = rows[id]
      PROVE  /\ Row(id)' = Row(id) /\ Hidden(id)' = Hidden(id) /\ Returned(id)' = Returned(id)
             /\ Beyond(id)' = Beyond(id) /\ Below(Row(id))' = Below(Row(id))
  <2>1. Row(id)' = Row(id)
    BY <1>2 DEF Row
  <2>2. Returned(id)' = Returned(id)
    BY <1>1 DEF Returned
  <2>3. Hidden(id)' = Hidden(id)
    BY <1>1, <1>2, <2>1 DEF Hidden, Above, Ms
  <2>4. Beyond(id)' = Beyond(id)
    BY <1>1, <2>1 DEF Beyond, HasNextPage, Above
  <2>5. Below(Row(id))' = Below(Row(id))
    BY <1>1, <2>1 DEF Below
  <2> QED  BY <2>1, <2>2, <2>3, <2>4, <2>5
<1>3. \A id \in stay' : Present(id)'
  BY DEF StayInv, Present
<1>4. ASSUME client' = "asking", NEW id \in stay'
      PROVE  \/ Returned(id)' \/ id \in dropped' \/ Hidden(id)'
             \/ request' = None /\ Below(Row(id))'
             \/ request' # None /\ (Beyond(id)' \/ \E i \in DOMAIN request'.rows :
                                                  request'.rows[i] = Row(id)')
  BY <1>1, <1>2, <1>4 DEF StayInv
<1>5. ASSUME request # None, removed' # TRUE, NEW i \in DOMAIN request.rows
      PROVE  Remains(request.rows[i])'
  <2> DEFINE row == request.rows[i]
  <2>1. ~removed
    BY <1>5 DEF OrderedInv, WalkTypeOK
  <2>2. Present(row.id) /\ row = Row(row.id)
    BY <1>5, <2>1 DEF StayInv, Remains
  <2>3. row.id \in Ids
    BY <1>5, RowFields DEF OrderedInv, WalkTypeOK, Requests
  <2>4. rows'[row.id] = rows[row.id] /\ gone' = gone /\ row' = row
    BY <1>1, <1>5, <2>2, <2>3 DEF Present
  <2> HIDE DEF row
  <2>5. Remains(row)'
    BY <2>2, <2>4 DEF Present, Row, Remains
  <2> QED  BY <2>5 DEF row
<1>6. StayInv'
  <2>1. request' # None =>
          removed' \/ \A i \in DOMAIN request'.rows : Remains(request.rows[i])'
    BY <1>1, <1>5
  <2> QED  BY <1>3, <1>4, <2>1 DEF StayInv
<1>7. PromisedPageHasRows'
  <2>1. SUFFICES ASSUME client = "asking", after # None, request = None, removed' # TRUE
                 PROVE  Found' # {} \/ \E id \in Ids : rows'[id] # None /\ Hidden(id)'
    BY <1>1 DEF PromisedPageHasRows
  <2>2. /\ ~removed /\ gone' = gone
        /\ \A id \in Ids : rows[id] # None => rows'[id] = rows[id]
    BY <2>1 DEF OrderedInv, WalkTypeOK
  <2>3. ASSUME NEW id \in Ids, rows[id] # None, Hidden(id)
        PROVE  rows'[id] # None /\ Hidden(id)'
    BY <1>2, <2>2, <2>3
  <2>4. ASSUME NEW row \in Found PROVE row \in Found'
    <3>1. PICK id \in Ids : Present(id) /\ row = Row(id) /\ Below(row)
      BY <2>4 DEF Found
    <3>2. rows'[id] = rows[id]
      BY <2>2, <3>1 DEF Present
    <3>3. Present(id)' /\ Row(id)' = row /\ Below(row)'
      BY <1>1, <2>2, <3>1, <3>2 DEF Present, Row, Below
    <3> QED  BY <3>3 DEF Found
  <2> QED  BY <2>1, <2>2, <2>3, <2>4 DEF PromisedPageHasRows
<1> QED  BY <1>6, <1>7
LEMMA BeginKeeps ==
  ASSUME OrderedInv, Begin
  PROVE  OrderedInv' /\ StayInv' /\ PromisedPageHasRows'
<1>1. /\ client' = "asking" /\ after' = None /\ got' = << >> /\ dropped' = {}
      /\ stay' = {id \in Ids : Present(id)} /\ removed' = FALSE
      /\ request' = None /\ UNCHANGED <<list, clock, rows, gone, plain>>
  BY DEF Begin, OrderedInv, AskingInv
<1>2. WalkTypeOK'
  <2>1. << >> \in Seq(Rows)
    OBVIOUS
  <2> QED  BY <1>1, <2>1 DEF OrderedInv, WalkTypeOK
<1>3. AskingInv' /\ NothingTwice' /\ NewestFirst'
  BY <1>1 DEF AskingInv, NothingTwice, NewestFirst, IsInjective, EndCursor
<1>4. AgeInv'
  BY <1>1 DEF OrderedInv, AgeInv
<1>5. PromisedPageHasRows'
  BY <1>1 DEF PromisedPageHasRows
<1>6. StayInv'
  <2>1. \A id \in stay' : Present(id)' /\ Below(Row(id))'
    BY <1>1 DEF Present, Below
  <2> QED  BY <1>1, <2>1 DEF StayInv
<1> QED  BY <1>2, <1>3, <1>4, <1>5, <1>6 DEF OrderedInv

LEMMA FoundFacts ==
  ASSUME WalkTypeOK, NEW row \in Found
  PROVE  row \in Rows /\ row.id \in Ids /\ Remains(row) /\ row.time = rows[row.id] /\ Below(row)
<1>1. PICK id \in Ids : Present(id) /\ row = Row(id) /\ Below(row)
  BY DEF Found
<1>2. rows[id] \in Times
  BY <1>1 DEF WalkTypeOK, Present
<1> QED  BY <1>1, <1>2 DEF Row, Rows, Remains

\* A request reads the top of what is below the cursor.
LEMMA ListKeeps ==
  ASSUME OrderedInv, StayInv, List
  PROVE  OrderedInv' /\ StayInv' /\ PromisedPageHasRows'
<1>0. PICK requested \in 0..MaxFirst + 1 : \E listed \in Listed(Clamp(requested)) :
        request' = [first |-> Clamp(requested), rows |-> listed]
  BY DEF List
<1> DEFINE first == Clamp(requested)
<1>1. PICK listed \in Listed(first) : request' = [first |-> first, rows |-> listed]
  BY <1>0
<1>2. first \in 1..MaxFirst /\ first \in Nat
  BY ConnectionsAssumption DEF Clamp, ConnectionsAssumption
<1> HIDE DEF first
<1>3. WalkTypeOK
  BY DEF OrderedInv
<1>4. /\ listed \in Seq(Rows) /\ Len(listed) \in Nat /\ DOMAIN listed = 1..Len(listed)
      /\ \A i, j \in DOMAIN listed : i < j => Above(listed[i], listed[j])
      /\ \A i \in DOMAIN listed : listed[i] \in Found
      /\ \A row \in Found :
           \/ \E i \in DOMAIN listed : listed[i] = row
           \/ Len(listed) > first /\ \A i \in DOMAIN listed : Above(listed[i], row)
  BY <1>2, <1>3, ListedFacts
<1>5. /\ request' \in Requests /\ request' # None
      /\ request'.rows = listed /\ request'.first = first
  BY <1>1, <1>2, <1>4, NoneIsNoOther DEF Requests
<1>6. /\ UNCHANGED <<list, clock, rows, gone, plain, client, after, got, stay, dropped>>
      /\ client = "asking" /\ request = None /\ removed' = FALSE
  BY DEF List
<1>7. WalkTypeOK'
  BY <1>3, <1>5, <1>6 DEF WalkTypeOK
<1>8. AskingInv'
  <2>1. \A i \in DOMAIN listed : Below(listed[i])'
    BY <1>3, <1>4, <1>6, FoundFacts DEF Below
  <2>2. after' = EndCursor(got')
    BY <1>6 DEF OrderedInv, AskingInv
  <2>3. ASSUME NEW i \in DOMAIN listed, NEW j \in DOMAIN listed, i < j
        PROVE  Above(listed[i], listed[j]) /\ listed[i].id # listed[j].id
    <3>1. Above(listed[i], listed[j])
      BY <1>4, <2>3
    <3>2. /\ listed[i] \in Rows /\ listed[i] = Row(listed[i].id)
          /\ listed[j] \in Rows /\ listed[j] = Row(listed[j].id)
      BY <1>3, <1>4, FoundFacts DEF Remains
    <3> QED  BY <3>1, <3>2, AboveIsOrder
  <2> QED  BY <1>4, <1>5, <1>6, <2>1, <2>2, <2>3 DEF AskingInv
<1>9. AgeInv'
  <2>1. ASSUME NEW j \in DOMAIN listed
        PROVE  /\ NotNewer(listed[j])'
               /\ \A i \in DOMAIN got :
                    got[i].id = listed[j].id => got[i].time <= listed[j].time
    <3> DEFINE row == listed[j]
    <3>1. /\ row \in Rows /\ row.id \in Ids /\ row.time = rows[row.id]
          /\ rows[row.id] # None
      BY <1>3, <1>4, <2>1, FoundFacts DEF Remains, Present
    <3> HIDE DEF row
    <3>2. row.time <= clock /\ row.time \in Int
      BY <3>1, RowFields DEF OrderedInv, AgeInv
    <3>3. NotNewer(row)'
      BY <1>6, <3>1, <3>2 DEF NotNewer
    <3>4. \A i \in DOMAIN got : got[i].id = row.id => got[i].time <= row.time
      BY <3>1 DEF OrderedInv, AgeInv, NotNewer
    <3> QED  BY <3>3, <3>4 DEF row
  <2>2. \A i \in DOMAIN got : NotNewer(got[i])'
    BY <1>6 DEF OrderedInv, AgeInv, NotNewer
  <2>3. \A id \in Ids : rows'[id] # None => rows'[id] <= clock'
    BY <1>6 DEF OrderedInv, AgeInv
  <2> QED  BY <1>5, <1>6, <2>1, <2>2, <2>3 DEF AgeInv
<1>10. NothingTwice' /\ NewestFirst'
  BY <1>6 DEF OrderedInv, NothingTwice, NewestFirst
<1>11. PromisedPageHasRows'
  BY <1>5 DEF PromisedPageHasRows
<1>12. StayInv'
  <2>1. \A id \in stay' : Present(id)'
    BY <1>6 DEF StayInv, Present
  <2>2. \A i \in DOMAIN listed : Remains(listed[i])'
    BY <1>3, <1>4, <1>6, FoundFacts DEF Remains, Present, Row
  <2>3. ASSUME NEW id \in stay'
        PROVE  \/ Returned(id)' \/ id \in dropped' \/ Hidden(id)'
               \/ Beyond(id)' \/ \E i \in DOMAIN listed : listed[i] = Row(id)'
    <3>1. id \in stay /\ id \in Ids /\ Present(id)
      BY <1>3, <1>6 DEF WalkTypeOK, StayInv
    <3>2. Returned(id) \/ id \in dropped \/ Hidden(id) \/ Below(Row(id))
      BY <1>6, <3>1 DEF StayInv
    <3>3. CASE Returned(id) \/ id \in dropped \/ Hidden(id)
      BY <1>6, <3>3 DEF Returned, Hidden, Above, Row, Ms
    <3>4. CASE Below(Row(id))
      <4>1. Row(id) \in Found
        BY <3>1, <3>4 DEF Found
      <4>2. Row(id)' = Row(id)
        BY <1>6 DEF Row
      <4>3. CASE \E i \in DOMAIN listed : listed[i] = Row(id)
        BY <4>2, <4>3
      <4>4. CASE Len(listed) > first /\ \A i \in DOMAIN listed : Above(listed[i], Row(id))
        BY <1>5, <4>2, <4>4 DEF Beyond, HasNextPage, Above
      <4> QED  BY <1>4, <4>1, <4>3, <4>4
    <3> QED  BY <3>2, <3>3, <3>4
  <2> QED  BY <1>5, <2>1, <2>2, <2>3 DEF StayInv
<1> QED  BY <1>7, <1>8, <1>9, <1>10, <1>11, <1>12 DEF OrderedInv
\* The page's edges go below what the walk has.
LEMMA AnswerKeepsOrder ==
  ASSUME OrderedInv, Answer, NEW edges \in Edges(request),
         got' = got \o edges, after' = EndCursor(edges),
         client' = IF ~HasNextPage(request) THEN "ended"
                   ELSE IF EndCursor(edges) = None THEN "stuck" ELSE "asking"
  PROVE  OrderedInv'
<1> DEFINE n == Len(got)
           m == Len(edges)
<1>1. /\ request \in Requests /\ request # None /\ client = "asking"
      /\ after = EndCursor(got) /\ got \in Seq(Rows) /\ WalkTypeOK
  BY NoneIsNoOther DEF OrderedInv, WalkTypeOK, AskingInv, Answer
<1>2. /\ request' = None /\ UNCHANGED <<list, clock, rows, gone, plain, stay, removed>>
      /\ dropped' \subseteq dropped \cup plain
  BY DEF Answer
<1>3. /\ edges \in Seq(Rows) /\ m \in Nat /\ DOMAIN edges = 1..m
  BY <1>1, EdgesFacts
<1>4. PICK s \in [DOMAIN edges -> {i \in DOMAIN request.rows : i <= request.first}] :
        /\ \A i \in DOMAIN edges : edges[i] = request.rows[s[i]]
        /\ \A i, j \in DOMAIN edges : i < j => s[i] < s[j]
  BY <1>1, EdgesFacts
<1>5. /\ n \in Nat /\ DOMAIN got = 1..n
      /\ \A i \in DOMAIN got : got[i] \in Rows
      /\ \A i \in DOMAIN edges : edges[i] \in Rows /\ s[i] \in DOMAIN request.rows
  BY <1>1, <1>3, <1>4
<1>6. /\ got' \in Seq(Rows) /\ Len(got') = n + m /\ DOMAIN got' = 1..n + m
      /\ \A i \in 1..n + m : got'[i] = IF i <= n THEN got[i] ELSE edges[i - n]
  BY <1>1, <1>3, ConcatProperties
<1> HIDE DEF n, m
<1>7. \A i \in 1..n + m : i \in DOMAIN got \/ (i > n /\ i - n \in DOMAIN edges)
  BY <1>3, <1>5
<1>8. ASSUME NEW i \in DOMAIN edges, NEW j \in DOMAIN edges, i < j
      PROVE  Above(edges[i], edges[j]) /\ edges[i].id # edges[j].id
  BY <1>1, <1>4, <1>5, <1>8 DEF OrderedInv, AskingInv
<1>9. ASSUME NEW i \in DOMAIN got, NEW k \in DOMAIN edges
      PROVE  Above(got[i], edges[k]) /\ got[i].id # edges[k].id
  <2> DEFINE last == got[n]
             row == edges[k]
  <2>1. last \in Rows /\ row \in Rows /\ got[i] \in Rows /\ n \in DOMAIN got
        /\ got # << >>
    BY <1>1, <1>5 DEF n
  <2>2. after = Cursor(last)
    BY <1>1, <2>1 DEF EndCursor, Last, n
  <2>3. Below(row)
    BY <1>1, <1>4, <1>5 DEF OrderedInv, AskingInv
  <2>4. Above(last, row)
    <3>1. Under(Cursor(last), row)
      BY <2>2, <2>3 DEF Below, Under
    <3> HIDE DEF last, row
    <3> QED  BY <2>1, <3>1, CursorFacts
  <2>5. i = n \/ Above(got[i], last)
    <3>1. i = n \/ i < n
      BY <1>5
    <3> QED  BY <1>5, <2>1, <3>1 DEF OrderedInv, NewestFirst
  <2>6. Above(got[i], row)
    BY <2>1, <2>4, <2>5, AboveIsOrder
  <2>7. got[i].id = row.id => got[i].time <= row.time
    BY <1>1, <1>4, <1>5 DEF OrderedInv, AgeInv
  <2>8. got[i].id # row.id
    <3>1. got[i].id \in Int /\ got[i].time \in Int /\ row.id \in Int /\ row.time \in Int
      BY <2>1, RowFields
    <3> QED  BY <2>6, <2>7, <3>1 DEF Above
  <2> QED  BY <2>6, <2>8
<1>10. ASSUME NEW i \in DOMAIN got', NEW j \in DOMAIN got', i < j
       PROVE  Above(got'[i], got'[j]) /\ got'[i].id # got'[j].id
  <2>1. CASE j \in DOMAIN got
    <3>1. i \in DOMAIN got /\ got'[i] = got[i] /\ got'[j] = got[j]
      BY <1>3, <1>5, <1>6, <1>10, <2>1
    <3>2. Above(got[i], got[j])
      BY <1>10, <2>1, <3>1 DEF OrderedInv, NewestFirst
    <3>3. got[i].id # got[j].id
      <4>1. i # j
        BY <1>5, <1>10, <2>1, <3>1
      <4> QED  BY <2>1, <3>1, <4>1 DEF OrderedInv, NothingTwice, IsInjective
    <3> QED  BY <3>1, <3>2, <3>3
  <2>2. CASE i \in DOMAIN got /\ j > n /\ j - n \in DOMAIN edges
    <3>1. got'[i] = got[i] /\ got'[j] = edges[j - n]
      BY <1>3, <1>5, <1>6, <2>2
    <3> QED  BY <1>9, <2>2, <3>1
  <2>3. CASE /\ i > n /\ i - n \in DOMAIN edges
             /\ j > n /\ j - n \in DOMAIN edges
    <3>1. got'[i] = edges[i - n] /\ got'[j] = edges[j - n] /\ i - n < j - n
      BY <1>3, <1>5, <1>6, <1>10, <2>3
    <3> QED  BY <1>8, <2>3, <3>1
  <2>4. i \in 1..n + m /\ j \in 1..n + m
    BY <1>6
  <2> QED
    <3>1. CASE i > n /\ i - n \in DOMAIN edges /\ j \in DOMAIN got
      BY <1>3, <1>5, <1>10, <3>1
    <3> QED  BY <1>7, <2>1, <2>2, <2>3, <2>4, <3>1
<1>11. NewestFirst'
  BY <1>10 DEF NewestFirst
<1>12. NothingTwice'
  <2> SUFFICES ASSUME NEW i \in DOMAIN got', NEW j \in DOMAIN got', got'[i].id = got'[j].id
               PROVE  i = j
    BY DEF NothingTwice, IsInjective
  <2>1. i = j \/ i < j \/ j < i
    BY <1>3, <1>5, <1>6
  <2> QED  BY <1>10, <2>1
<1>13. WalkTypeOK'
  <2>1. after' \in {Cursor(row) : row \in Rows} \cup {None}
    <3>1. CASE edges = << >>
      BY <3>1 DEF EndCursor
    <3>2. CASE edges # << >>
      <4>1. Last(edges) \in Rows
        BY <1>3, <3>2 DEF Last
      <4> QED  BY <3>2, <4>1 DEF EndCursor
    <3> QED  BY <3>1, <3>2
  <2>2. dropped' \subseteq Ids
    BY <1>1, <1>2 DEF WalkTypeOK
  <2>3. client' \in {"idle", "asking", "ended", "stuck"}
    OBVIOUS
  <2> QED  BY <1>1, <1>2, <1>6, <2>1, <2>2, <2>3 DEF WalkTypeOK
<1>14. AskingInv'
  <2>1. ASSUME client' = "asking" PROVE after' = EndCursor(got)'
    <3>1. edges # << >>
      BY <2>1 DEF EndCursor
    <3>2. m > 0 /\ m \in Nat
      BY <1>3, <3>1 DEF m
    <3>3. got' # << >> /\ Last(got') = Last(edges)
      <4>1. n + m \in 1..n + m /\ ~(n + m <= n) /\ (n + m) - n = m
        BY <1>5, <3>2
      <4>2. got'[n + m] = edges[m]
        BY <1>6, <4>1
      <4> QED  BY <1>6, <4>1, <4>2 DEF Last, m
    <3> QED  BY <3>1, <3>3 DEF EndCursor, Cursor, Ms
  <2> QED  BY <1>2, <2>1 DEF AskingInv
<1>15. AgeInv'
  <2>1. \A i \in DOMAIN got : NotNewer(got[i])
    BY DEF OrderedInv, AgeInv
  <2>2. \A i \in DOMAIN edges : NotNewer(edges[i])
    BY <1>1, <1>4, <1>5 DEF OrderedInv, AgeInv
  <2>3. ASSUME NEW i \in DOMAIN got' PROVE NotNewer(got[i])'
    <3>1. NotNewer(got'[i])
      <4>1. CASE i \in DOMAIN got
        BY <1>3, <1>5, <1>6, <2>1, <4>1
      <4>2. CASE i > n /\ i - n \in DOMAIN edges
        BY <1>3, <1>5, <1>6, <2>2, <4>2
      <4> QED  BY <1>6, <1>7, <4>1, <4>2
    <3> QED  BY <1>2, <3>1 DEF NotNewer
  <2>4. \A id \in Ids : rows'[id] # None => rows'[id] <= clock'
    BY <1>2 DEF OrderedInv, AgeInv
  <2> QED  BY <1>2, <2>3, <2>4 DEF AgeInv
<1> QED  BY <1>11, <1>12, <1>13, <1>14, <1>15 DEF OrderedInv
\* What the page held was returned or dropped; what lies below it lies below its
\* cursor, or shares its millisecond.
LEMMA AnswerKeepsStay ==
  ASSUME OrderedInv, OrderedInv', StayInv, Answer, NEW edges \in Edges(request),
         got' = got \o edges, after' = EndCursor(edges),
         client' = IF ~HasNextPage(request) THEN "ended"
                   ELSE IF EndCursor(edges) = None THEN "stuck" ELSE "asking"
  PROVE  StayInv' /\ PromisedPageHasRows' /\ NothingMissed'
<1> DEFINE n == Len(got)
           m == Len(edges)
           p == request
<1>1. /\ p \in Requests /\ p # None /\ client = "asking"
      /\ got \in Seq(Rows) /\ WalkTypeOK
  BY NoneIsNoOther DEF OrderedInv, WalkTypeOK, AskingInv, Answer
<1>2. /\ request' = None /\ UNCHANGED <<list, clock, rows, gone, plain, stay, removed>>
      /\ dropped' = dropped \cup (plain \cap
                      {row.id : row \in ToSet(FirstOf(p.rows, p.first))})
  BY DEF Answer
<1>3. /\ edges \in Seq(Rows) /\ m \in Nat /\ DOMAIN edges = 1..m
      /\ p.rows \in Seq(Rows) /\ p.first \in Nat /\ Len(p.rows) \in Nat
      /\ DOMAIN p.rows = 1..Len(p.rows)
  BY <1>1, EdgesFacts
<1>4. PICK s \in [DOMAIN edges -> {i \in DOMAIN p.rows : i <= p.first}] :
        /\ \A i \in DOMAIN edges : edges[i] = p.rows[s[i]]
        /\ \A k \in DOMAIN p.rows : k <= p.first /\ p.rows[k].id \notin plain =>
             \E i \in DOMAIN edges : s[i] = k
  BY <1>1, EdgesFacts
<1>5. /\ n \in Nat /\ DOMAIN got = 1..n
      /\ \A i \in DOMAIN edges : edges[i] \in Rows /\ s[i] \in DOMAIN p.rows /\ s[i] <= p.first
  BY <1>1, <1>3, <1>4
<1>6. /\ DOMAIN got' = 1..n + m
      /\ \A i \in 1..n + m : got'[i] = IF i <= n THEN got[i] ELSE edges[i - n]
  <2>1. /\ got' \in Seq(Rows) /\ Len(got') = n + m
        /\ \A i \in 1..n + m : got'[i] = IF i <= n THEN got[i] ELSE edges[i - n]
    BY <1>1, <1>3, ConcatProperties
  <2> QED  BY <2>1
<1>7. /\ \A j \in DOMAIN p.rows : p.rows[j] \in Rows
      /\ \A i, j \in DOMAIN p.rows : i < j => Above(p.rows[i], p.rows[j])
  BY <1>1, <1>3 DEF OrderedInv, AskingInv
<1>8. edges # << >> => m \in DOMAIN edges /\ Last(edges) = edges[m]
  BY <1>3 DEF Last
<1>9. /\ \A i \in DOMAIN got : i \in DOMAIN got' /\ got'[i] = got[i]
      /\ \A i \in DOMAIN edges : n + i \in DOMAIN got' /\ got'[n + i] = edges[i]
  <2> HIDE DEF n, m, p
  <2>1. ASSUME NEW i \in DOMAIN got PROVE i \in DOMAIN got' /\ got'[i] = got[i]
    BY <1>3, <1>5, <1>6
  <2>2. ASSUME NEW i \in DOMAIN edges PROVE n + i \in DOMAIN got' /\ got'[n + i] = edges[i]
    <3>1. n + i \in 1..n + m /\ ~(n + i <= n) /\ (n + i) - n = i
      BY <1>3, <1>5
    <3> QED  BY <1>6, <3>1
  <2> QED  BY <2>1, <2>2
<1> HIDE DEF n, m, p
\* A row below the page's rows.
<1>10. ASSUME NEW id \in Ids, rows[id] # None, client' = "asking",
              \A k \in DOMAIN p.rows : k <= p.first => Above(p.rows[k], Row(id))
       PROVE  Below(Row(id))' \/ Hidden(id)'
  <2> DEFINE last == Last(edges)
             row == Row(id)
  <2>1. edges # << >> /\ after' = Cursor(last)
    BY <1>10 DEF EndCursor
  <2>2. last \in Rows /\ m \in DOMAIN edges /\ last = edges[m] /\ Above(last, row)
    BY <1>4, <1>5, <1>8, <1>10, <2>1
  <2>3. row \in Rows /\ row' = row
    BY <1>1, <1>2, <1>10 DEF Row, Rows, WalkTypeOK
  <2>4. n + m \in DOMAIN got' /\ got'[n + m] = last
    BY <1>9, <2>2
  <2>5. row.time = rows[id] /\ rows'[id] = rows[id]
    BY <1>2 DEF Row
  <2> HIDE DEF last, row
  <2>6. \/ Under(Cursor(last), row)
        \/ last.time # Ms(last.time) /\ Ms(last.time) = Ms(row.time)
    BY <2>2, <2>3, CursorFacts
  <2>7. CASE Under(Cursor(last), row)
    <3>1. Below(row)'
      BY <2>1, <2>3, <2>7 DEF Below, Under
    <3> QED  BY <3>1 DEF row
  <2>8. CASE last.time # Ms(last.time) /\ Ms(last.time) = Ms(row.time)
    <3>1. Row(id)' = row
      BY <2>3 DEF row
    <3> QED  BY <2>2, <2>4, <2>5, <2>8, <3>1 DEF Hidden, Above, Ms
  <2> QED  BY <2>6, <2>7, <2>8
\* A row of the page.
<1>11. ASSUME NEW id \in stay, NEW i \in DOMAIN p.rows, i <= p.first, p.rows[i].id = id
       PROVE  Returned(id)' \/ id \in dropped'
  <2>1. CASE id \in plain
    <3> DEFINE f == FirstOf(p.rows, p.first)
    <3>1. /\ Len(f) = IF Len(p.rows) < p.first THEN Len(p.rows) ELSE p.first
          /\ DOMAIN f = 1..Len(f) /\ \A j \in DOMAIN f : f[j] = p.rows[j]
      BY <1>3, FirstOfFacts
    <3> HIDE DEF f
    <3>2. i \in DOMAIN f /\ f[i] = p.rows[i]
      BY <1>3, <1>11, <3>1
    <3>3. p.rows[i] \in ToSet(f)
      BY <3>2 DEF ToSet
    <3> QED  BY <1>2, <1>11, <2>1, <3>3 DEF f
  <2>2. CASE id \notin plain
    <3>1. PICK k \in DOMAIN edges : s[k] = i
      BY <1>4, <1>11, <2>2
    <3>2. got'[n + k].id = id /\ n + k \in DOMAIN got'
      BY <1>4, <1>9, <1>11, <3>1
    <3> QED  BY <3>2 DEF Returned
  <2> QED  BY <2>1, <2>2
<1>12. ASSUME NEW id \in stay
       PROVE  /\ id \in Ids /\ Present(id) /\ rows[id] # None
              /\ \/ Returned(id) \/ id \in dropped \/ Hidden(id)
                 \/ Beyond(id) \/ \E i \in DOMAIN p.rows : p.rows[i] = Row(id)
  BY <1>1 DEF StayInv, WalkTypeOK, Present, p
<1>13. ASSUME NEW id \in stay, Returned(id) \/ id \in dropped \/ Hidden(id)
       PROVE  Returned(id)' \/ id \in dropped' \/ Hidden(id)'
  <2>1. CASE Returned(id)
    BY <1>9, <2>1 DEF Returned
  <2>2. CASE id \in dropped
    BY <1>2, <2>2
  <2>3. CASE Hidden(id)
    <3>1. Row(id)' = Row(id) /\ rows'[id] = rows[id]
      BY <1>2 DEF Row
    <3>2. PICK i \in DOMAIN got : /\ got[i].time # Ms(got[i].time)
                                  /\ Ms(got[i].time) = Ms(rows[id])
                                  /\ Above(got[i], Row(id))
      BY <2>3 DEF Hidden
    <3>3. i \in DOMAIN got' /\ got'[i] = got[i]
      BY <1>9
    <3> QED  BY <3>1, <3>2, <3>3 DEF Hidden, Above, Ms
  <2> QED  BY <1>13, <2>1, <2>2, <2>3
<1>14. NothingMissed'
  <2> SUFFICES ASSUME client' = "ended", NEW id \in stay
               PROVE  Returned(id)' \/ id \in dropped' \/ Hidden(id)'
    BY <1>2 DEF NothingMissed, Returned
  <2>1. ~HasNextPage(p)
    BY DEF p
  <2>2. ~Beyond(id)
    BY <2>1 DEF Beyond, p
  <2>3. \A i \in DOMAIN p.rows : i <= p.first
    BY <1>3, <2>1 DEF HasNextPage
  <2>4. \A i \in DOMAIN p.rows : p.rows[i] = Row(id) => p.rows[i].id = id
    BY DEF Row
  <2> QED  BY <1>11, <1>12, <1>13, <2>2, <2>3, <2>4
<1>15. StayInv'
  <2>1. \A id \in stay' : Present(id)'
    BY <1>2 DEF StayInv, Present
  <2>2. ASSUME client' = "asking", NEW id \in stay
        PROVE  Returned(id)' \/ id \in dropped' \/ Hidden(id)' \/ Below(Row(id))'
    <3>1. CASE Beyond(id)
      BY <1>10, <1>12, <2>2, <3>1 DEF Beyond, p
    <3>2. ASSUME NEW i \in DOMAIN p.rows, p.rows[i] = Row(id)
          PROVE  Returned(id)' \/ id \in dropped' \/ Hidden(id)' \/ Below(Row(id))'
      <4>1. p.rows[i].id = id
        BY <3>2 DEF Row
      <4>2. CASE i <= p.first
        BY <1>11, <4>1, <4>2
      <4>3. CASE ~(i <= p.first)
        <5>1. \A k \in DOMAIN p.rows : k <= p.first => k < i
          BY <1>3, <4>3
        <5> QED  BY <1>7, <1>10, <1>12, <2>2, <3>2, <5>1
      <4> QED  BY <4>2, <4>3
    <3> QED  BY <1>12, <1>13, <3>1, <3>2
  <2> QED  BY <1>2, <2>1, <2>2 DEF StayInv
<1>16. PromisedPageHasRows'
  <2>1. SUFFICES ASSUME client' = "asking", ~removed
                 PROVE  Found' # {} \/ \E id \in Ids : rows'[id] # None /\ Hidden(id)'
    BY <1>1, <1>2 DEF PromisedPageHasRows, WalkTypeOK
  <2> DEFINE k == p.first + 1
  <2>2. HasNextPage(p)
    BY <2>1 DEF p
  <2>3. k \in DOMAIN p.rows /\ \A i \in DOMAIN p.rows : i <= p.first => i < k
    BY <1>3, <2>2 DEF HasNextPage
  <2>4. Remains(p.rows[k])
    BY <1>1, <2>1, <2>3 DEF StayInv, p
  <2>5. PICK id \in Ids : Present(id) /\ rows[id] # None /\ p.rows[k] = Row(id)
    BY <1>7, <2>3, <2>4, RowFields DEF Remains, Present
  <2>6. \A i \in DOMAIN p.rows : i <= p.first => Above(p.rows[i], Row(id))
    BY <1>7, <2>3, <2>5
  <2>7. Below(Row(id))' \/ Hidden(id)'
    BY <1>10, <2>1, <2>5, <2>6
  <2>8. Present(id)'
    BY <1>2, <2>5 DEF Present
  <2> QED  BY <1>2, <2>5, <2>7, <2>8 DEF Found
<1> QED  BY <1>14, <1>15, <1>16
LEMMA AnswerKeeps ==
  ASSUME OrderedInv, StayInv, Answer
  PROVE  OrderedInv' /\ StayInv' /\ PromisedPageHasRows' /\ NothingMissed'
<1>1. PICK edges \in Edges(request) :
        /\ got' = got \o edges /\ after' = EndCursor(edges)
        /\ client' = IF ~HasNextPage(request) THEN "ended"
                     ELSE IF EndCursor(edges) = None THEN "stuck" ELSE "asking"
  BY DEF Answer
<1>2. OrderedInv'
  BY <1>1, AnswerKeepsOrder
<1> QED  BY <1>1, <1>2, AnswerKeepsStay

CompleteInv == StayInv /\ PromisedPageHasRows /\ NothingMissed

\* A write leaves a row of the walk where it is, takes it away for good or
\* brings it back newer.
LEMMA WritesKeep ==
  ASSUME OrderedInv, CompleteInv, Writes \/ Tick
  PROVE  OrderedInv' /\ CompleteInv'
<1>1. WalkTypeOK /\ clock \in Times /\ clock \in Int /\ PerMs \in Nat /\ PerMs > 0
  BY ConnectionsAssumption
     DEF OrderedInv, WalkTypeOK, Times, ConnectionsAssumption
<1>2. /\ UNCHANGED <<list, walk, client, after, request, got, dropped>>
  BY DEF Writes, Tick, Create, DeleteConversation, Save, Unsave, Snapshot, walk
<1>3. ASSUME UNCHANGED clock, NEW id \in Ids, NEW t \in Times \cup {None},
             rows' = [rows EXCEPT ![id] = t],
             \/ list = "savedProducts" /\ t \in {None, clock}
             \/ rows[id] = None /\ list = "conversations" /\ t <= clock
      PROVE  AgeInv' /\ rows' \in [Ids -> Times \cup {None}]
  <2>1. rows' \in [Ids -> Times \cup {None}]
    BY <1>1, <1>3 DEF WalkTypeOK
  <2>2. \A i \in Ids :
          \/ rows'[i] = rows[i]
          \/ list = "savedProducts" /\ rows'[i] \in {None, clock}
          \/ rows[i] = None /\ list = "conversations" /\ rows'[i] <= clock
    BY <1>1, <1>3 DEF WalkTypeOK
  <2>3. clock' \in Times /\ clock <= clock'
    BY <1>1, <1>3
  <2> QED  BY <1>2, <2>1, <2>2, <2>3, AgeKept
<1>4. ASSUME UNCHANGED rows, clock' \in Times, clock <= clock'
      PROVE  AgeInv' /\ rows' \in [Ids -> Times \cup {None}]
  BY <1>1, <1>2, <1>4, AgeKept DEF WalkTypeOK
<1>5. /\ gone' \subseteq Ids /\ plain' \subseteq Ids /\ stay' \subseteq stay
      /\ removed' \in BOOLEAN /\ clock' \in Times
  <2>1. CASE Tick
    <3>1. clock' = clock + 1 /\ clock < MaxTime /\ MaxTime \in Nat
      BY <2>1, ConnectionsAssumption DEF Tick, ConnectionsAssumption
    <3>2. clock' \in Times
      BY <1>1, <3>1 DEF Times
    <3> QED  BY <1>1, <2>1, <3>2 DEF Tick, WalkTypeOK
  <2>2. CASE Writes
    <3>1. UNCHANGED clock /\ plain' \subseteq plain /\ stay' \subseteq stay
      BY <2>2 DEF Writes, Create, DeleteConversation, Save, Unsave, Snapshot
    <3>2. gone' \subseteq Ids /\ removed' \in BOOLEAN
      BY <1>1, <2>2
         DEF WalkTypeOK, Writes, Create, DeleteConversation, Save, Unsave, Snapshot
    <3> QED  BY <1>1, <3>1, <3>2 DEF WalkTypeOK
  <2> QED  BY <2>1, <2>2
<1>6. AgeInv' /\ rows' \in [Ids -> Times \cup {None}]
  <2>1. ASSUME NEW id \in Ids, Create(id)
        PROVE  AgeInv' /\ rows' \in [Ids -> Times \cup {None}]
    <3>1. PICK stamped \in Times : stamped <= clock /\ rows' = [rows EXCEPT ![id] = Ms(stamped)]
      BY <2>1 DEF Create
    <3>2. Ms(stamped) \in Times /\ Ms(stamped) <= stamped /\ stamped \in Int
      BY MsFacts DEF Times
    <3>3. Ms(stamped) <= clock
      BY <1>1, <3>1, <3>2 DEF Times
    <3>4. UNCHANGED clock /\ rows[id] = None /\ list = "conversations"
      BY <2>1 DEF Create
    <3> QED  BY <1>3, <3>1, <3>2, <3>3, <3>4
  <2>2. ASSUME NEW id \in Ids, Save(id)
        PROVE  AgeInv' /\ rows' \in [Ids -> Times \cup {None}]
    BY <1>1, <1>3, <2>2 DEF Save
  <2>3. ASSUME NEW id \in Ids, Unsave(id)
        PROVE  AgeInv' /\ rows' \in [Ids -> Times \cup {None}]
    BY <1>1, <1>3, <2>3 DEF Unsave
  <2>4. ASSUME NEW id \in Ids, DeleteConversation(id) \/ Snapshot(id)
        PROVE  AgeInv' /\ rows' \in [Ids -> Times \cup {None}]
    BY <1>1, <1>4, <2>4 DEF DeleteConversation, Snapshot
  <2>5. CASE Tick
    BY <1>1, <1>4, <1>5, <2>5 DEF Tick
  <2> QED  BY <2>1, <2>2, <2>3, <2>4, <2>5 DEF Writes
<1>7. WalkTypeOK'
  BY <1>1, <1>2, <1>5, <1>6 DEF WalkTypeOK
<1>8. OrderedInv'
  BY <1>2, <1>6, <1>7, WritesKeepOrder
<1>9. /\ \A id \in stay' : rows'[id] = rows[id] /\ id \notin gone'
      /\ \/ removed' = TRUE
         \/ /\ removed' = removed /\ gone' = gone
            /\ \A id \in Ids : rows[id] # None => rows'[id] = rows[id]
  <2>1. \A id \in stay : id \in Ids /\ Present(id)
    BY <1>1 DEF WalkTypeOK, CompleteInv, StayInv
  <2>2. ASSUME NEW id \in Ids, Create(id) \/ Save(id)
        PROVE  /\ stay' = stay /\ removed' = removed /\ gone' = gone /\ rows[id] = None
               /\ \A i \in Ids : i # id => rows'[i] = rows[i]
    BY <1>1, <2>2 DEF Create, Save, WalkTypeOK
  <2>3. ASSUME NEW id \in Ids, DeleteConversation(id) \/ Unsave(id)
        PROVE  /\ stay' = stay \ {id} /\ removed' = TRUE
               /\ gone' \subseteq gone \cup {id}
               /\ \A i \in Ids : i # id => rows'[i] = rows[i]
    BY <1>1, <2>3 DEF DeleteConversation, Unsave, WalkTypeOK
  <2>4. ASSUME Tick \/ \E id \in Ids : Snapshot(id)
        PROVE  UNCHANGED <<stay, removed, gone, rows>>
    BY <2>4 DEF Tick, Snapshot
  <2>5. CASE \E id \in Ids : Create(id) \/ Save(id)
    BY <2>1, <2>2, <2>5 DEF Present
  <2>6. CASE \E id \in Ids : DeleteConversation(id) \/ Unsave(id)
    BY <2>1, <2>3, <2>6 DEF Present
  <2>7. CASE Tick \/ \E id \in Ids : Snapshot(id)
    BY <2>1, <2>4, <2>7 DEF Present
  <2> QED  BY <2>5, <2>6, <2>7 DEF Writes
<1>10. StayInv' /\ PromisedPageHasRows'
  BY <1>2, <1>5, <1>9, WritesKeepStay DEF CompleteInv
<1>11. NothingMissed'
  <2> SUFFICES ASSUME client = "ended", NEW id \in stay'
               PROVE  \/ \E i \in DOMAIN got : got[i].id = id
                      \/ id \in dropped \/ Hidden(id)'
    BY <1>2 DEF NothingMissed
  <2>1. id \in stay /\ rows'[id] = rows[id]
    BY <1>5, <1>9
  <2>2. Row(id)' = Row(id)
    BY <2>1 DEF Row
  <2>3. Hidden(id)' = Hidden(id)
    BY <1>2, <2>1, <2>2 DEF Hidden, Above, Ms
  <2> QED  BY <2>1, <2>3 DEF CompleteInv, NothingMissed
<1> QED  BY <1>8, <1>10, <1>11 DEF CompleteInv

LEMMA WalkKept == OrderedInv /\ CompleteInv /\ [WalkNext]_walkVars => OrderedInv' /\ CompleteInv'
<1> SUFFICES ASSUME OrderedInv, CompleteInv, [WalkNext]_walkVars
             PROVE  OrderedInv' /\ CompleteInv'
  OBVIOUS
<1>1. StayInv
  BY DEF CompleteInv
<1>2. CASE Begin
  <2>1. NothingMissed'
    BY <1>2 DEF Begin, NothingMissed
  <2> QED  BY <1>2, <2>1, BeginKeeps DEF CompleteInv
<1>3. CASE List
  <2>1. NothingMissed'
    BY <1>3 DEF List, NothingMissed
  <2> QED  BY <1>1, <1>3, <2>1, ListKeeps DEF CompleteInv
<1>4. CASE Answer
  BY <1>1, <1>4, AnswerKeeps DEF CompleteInv
<1>5. CASE Writes \/ Tick
  BY <1>5, WritesKeep
<1>6. CASE UNCHANGED walkVars
  BY <1>6 DEF walkVars, OrderedInv, CompleteInv, WalkTypeOK, AskingInv, AgeInv, NotNewer,
       NothingTwice, NewestFirst, StayInv, PromisedPageHasRows, NothingMissed, Present,
       Returned, Hidden, Beyond, Remains, Row, Below, Above, Found, EndCursor,
       HasNextPage, Ms, Cursor
<1> QED  BY <1>2, <1>3, <1>4, <1>5, <1>6 DEF WalkNext

\* The inductive invariant of a walk: what it returned lies above the cursor it
\* asks with, in order, and what stayed all along is returned, dropped, hidden or
\* still to come.
THEOREM WalkInvariant == WalkSpec => [](OrderedInv /\ CompleteInv)
<1>1. WalkInit => OrderedInv /\ CompleteInv
  <2>1. WalkInit => NothingMissed
    BY DEF WalkInit, NothingMissed
  <2> QED  BY <2>1, WalkInitially DEF CompleteInv
<1> QED  BY <1>1, WalkKept, PTL DEF WalkSpec

\* Pages never repeat a row and go down the list, whatever is deleted, saved and
\* saved again between them.
THEOREM WalksAreOrdered == WalkSpec => []WalkIsOrdered
<1>1. OrderedInv => WalkIsOrdered
  BY DEF OrderedInv, WalkIsOrdered
<1> QED  BY <1>1, WalkInvariant, PTL

\* A walk that ends has returned what was there all along, and a promised page
\* has rows, but for what the products without a snapshot and the milliseconds
\* of the cursor take from it.
THEOREM WalksAreComplete == WalkSpec => []WalkIsComplete
<1>1. CompleteInv => WalkIsComplete
  BY DEF CompleteInv, WalkIsComplete
<1> QED  BY <1>1, WalkInvariant, PTL
-----------------------------------------------------------------------------
\* Rows have one order.
LEMMA OneOrder ==
  ASSUME NEW S \in SUBSET Rows, IsFiniteSet(S), NEW s \in InOrder(S), NEW t \in InOrder(S)
  PROVE  s = t
<1> DEFINE n == Cardinality(S)
           T == {i \in 1..n : s[i] # t[i]}
<1>1. /\ s \in SetToSeqs(S) /\ \A i, j \in DOMAIN s : i < j => Above(s[i], s[j])
      /\ t \in SetToSeqs(S) /\ \A i, j \in DOMAIN t : i < j => Above(t[i], t[j])
  BY DEF InOrder
<1>2. /\ s \in Seq(S) /\ Len(s) = n /\ n \in Nat /\ DOMAIN s = 1..n
      /\ \A x \in S : \E i \in 1..n : s[i] = x
      /\ t \in Seq(S) /\ Len(t) = n /\ DOMAIN t = 1..n
      /\ \A x \in S : \E i \in 1..n : t[i] = x
  BY <1>1, SeqsOfSet
<1> HIDE DEF n
<1>3. SUFFICES ASSUME T # {} PROVE FALSE
  BY <1>2, SeqEqual
<1>4. PICK k \in T : \A i \in T : k <= i
  <2>1. T \in SUBSET Nat
    OBVIOUS
  <2> QED  BY <1>3, <2>1, Least
<1>5. /\ k \in 1..n /\ s[k] # t[k] /\ s[k] \in S /\ t[k] \in S
      /\ \A i \in 1..n : i < k => s[i] = t[i]
  BY <1>2, <1>4
<1>6. PICK j \in 1..n : t[j] = s[k]
  BY <1>2, <1>5
<1>7. PICK l \in 1..n : s[l] = t[k]
  BY <1>2, <1>5
<1>8. \A x, y \in S : ~(Above(x, y) /\ Above(y, x))
  BY AboveIsOrder
<1>9. k < j
  <2>1. j # k
    BY <1>5, <1>6
  <2>2. ASSUME j < k PROVE FALSE
    <3>1. s[j] = s[k] /\ Above(s[j], s[k])
      BY <1>1, <1>2, <1>5, <1>6, <2>2
    <3> QED  BY <1>5, <1>8, <3>1
  <2> QED  BY <1>2, <1>5, <2>1, <2>2
<1>10. k < l
  <2>1. l # k
    BY <1>5, <1>7
  <2>2. ASSUME l < k PROVE FALSE
    <3>1. t[l] = t[k] /\ Above(t[l], t[k])
      BY <1>1, <1>2, <1>5, <1>7, <2>2
    <3> QED  BY <1>5, <1>8, <3>1
  <2> QED  BY <1>2, <1>5, <2>1, <2>2
<1>11. Above(s[k], s[l]) /\ Above(t[k], t[j])
  BY <1>1, <1>2, <1>5, <1>9, <1>10
<1> QED  BY <1>5, <1>6, <1>7, <1>8, <1>11

\* A row is put in its place.
LEMMA PutInOrder ==
  ASSUME NEW S \in SUBSET Rows, IsFiniteSet(S), NEW x \in S, NEW t \in InOrder(S \ {x})
  PROVE  InOrder(S) # {}
<1> DEFINE R == S \ {x}
           n == Cardinality(S)
           m == n - 1
           P == {i \in 1..m : ~Above(t[i], x)} \cup {n}
<1>1. /\ IsFiniteSet(R) /\ n \in Nat /\ m \in Nat /\ Cardinality(R) = m /\ n = m + 1
  <2>1. IsFiniteSet(R) /\ Cardinality(R) = n - 1
    BY FS_RemoveElement
  <2>2. n \in Nat /\ Cardinality(R) \in Nat
    BY <2>1, FS_CardinalityType
  <2> QED  BY <2>1, <2>2
<1>2. t \in SetToSeqs(R) /\ \A i, j \in DOMAIN t : i < j => Above(t[i], t[j])
  BY DEF InOrder
<1> HIDE DEF n, m, R
<1>3. t \in Seq(R) /\ Len(t) = m /\ DOMAIN t = 1..m
  <2>1. t \in Seq(R) /\ Len(t) = Cardinality(R) /\ DOMAIN t = 1..Len(t)
    BY <1>1, <1>2, SeqsOfSet
  <2> QED  BY <1>1, <2>1
<1>4. /\ \A i \in 1..m : t[i] \in R /\ t[i] \in S /\ t[i] # x
      /\ \A i, j \in 1..m : i < j => Above(t[i], t[j])
  <2>1. \A i \in 1..m : t[i] \in R
    BY <1>3
  <2>2. \A y \in R : y \in S /\ y # x
    BY DEF R
  <2> QED  BY <1>2, <1>3, <2>1, <2>2
<1>5. PICK p \in P : \A i \in P : p <= i
  <2>1. P \in SUBSET Nat /\ P # {}
    BY <1>1
  <2> QED  BY <2>1, Least
<1>6. p \in 1..n /\ \A i \in 1..m : i < p => Above(t[i], x)
  BY <1>1, <1>5
<1>7. \A i \in 1..m : p <= i => Above(x, t[i])
  <2> SUFFICES ASSUME NEW i \in 1..m, p <= i PROVE Above(x, t[i])
    OBVIOUS
  <2>1. p \in 1..m /\ ~Above(t[p], x)
    BY <1>1, <1>5, <1>6
  <2>2. Above(x, t[p])
    BY <1>4, <2>1, AboveIsOrder
  <2>3. p = i \/ Above(t[p], t[i])
    BY <1>1, <1>4, <2>1
  <2>4. x \in Rows /\ t[p] \in Rows /\ t[i] \in Rows
    BY <1>4, <2>1
  <2> QED  BY <2>2, <2>3, <2>4, AboveIsOrder
<1> DEFINE s == [i \in 1..n |-> IF i < p THEN t[i] ELSE IF i = p THEN x ELSE t[i - 1]]
<1>8. ASSUME NEW i \in 1..n
      PROVE  \/ i < p /\ i \in 1..m /\ s[i] = t[i]
             \/ i = p /\ s[i] = x
             \/ p < i /\ i - 1 \in 1..m /\ p <= i - 1 /\ s[i] = t[i - 1]
  <2>1. p \in Nat /\ i \in Nat /\ 1 <= p /\ 1 <= i /\ i <= n /\ p <= n
    BY <1>1, <1>6
  <2> QED  BY <1>1, <2>1
<1>9. s \in [1..n -> S] /\ DOMAIN s = 1..n
  BY <1>4, <1>8
<1> HIDE DEF s, P
<1>10. ASSUME NEW i \in 1..n, NEW j \in 1..n, i < j
       PROVE  Above(s[i], s[j])
  <2>1. i \in Nat /\ j \in Nat /\ p \in Nat
    BY <1>1, <1>6
  <2>2. CASE i < p /\ i \in 1..m /\ s[i] = t[i]
    <3>1. CASE j < p /\ j \in 1..m /\ s[j] = t[j]
      BY <1>4, <1>10, <2>2, <3>1
    <3>2. CASE j = p /\ s[j] = x
      BY <1>6, <2>2, <3>2
    <3>3. CASE p < j /\ j - 1 \in 1..m /\ p <= j - 1 /\ s[j] = t[j - 1]
      <4>1. i < j - 1
        BY <2>1, <2>2, <3>3
      <4> QED  BY <1>4, <2>2, <3>3, <4>1
    <3> QED  BY <1>8, <3>1, <3>2, <3>3
  <2>3. CASE i = p /\ s[i] = x
    <3>1. p < j /\ j - 1 \in 1..m /\ p <= j - 1 /\ s[j] = t[j - 1]
      BY <1>8, <1>10, <2>1, <2>3
    <3> QED  BY <1>7, <2>3, <3>1
  <2>4. CASE p < i /\ i - 1 \in 1..m /\ p <= i - 1 /\ s[i] = t[i - 1]
    <3>1. j - 1 \in 1..m /\ s[j] = t[j - 1] /\ i - 1 < j - 1
      BY <1>8, <1>10, <2>1, <2>4
    <3> QED  BY <1>4, <2>4, <3>1
  <2> QED  BY <1>8, <2>2, <2>3, <2>4
<1>11. \A i, j \in 1..n : i # j => s[i] # s[j]
  <2>1. \A i \in 1..n : s[i] \in Rows /\ ~Above(s[i], s[i])
    BY <1>9, AboveIsOrder
  <2>2. \A i, j \in 1..n : i # j => i < j \/ j < i
    BY <1>1
  <2> QED  BY <1>10, <2>1, <2>2
<1>12. s \in SetToSeqs(S)
  BY <1>9, <1>11 DEF SetToSeqs, n
<1> QED  BY <1>9, <1>10, <1>12 DEF InOrder

LEMMA SomeOrder ==
  ASSUME NEW S \in SUBSET Rows, IsFiniteSet(S)
  PROVE  InOrder(S) # {}
<1> DEFINE Bad(n, A) == IsFiniteSet(A) /\ Cardinality(A) = n /\ InOrder(A) = {}
           N == {n \in Nat : \E A \in SUBSET Rows : Bad(n, A)}
<1>1. SUFFICES ASSUME N # {} PROVE FALSE
  <2>1. Cardinality(S) \in Nat
    BY FS_CardinalityType
  <2> QED  BY <2>1
<1>2. PICK n \in N : \A k \in N : n <= k
  BY <1>1, Least
<1>3. PICK A \in SUBSET Rows : Bad(n, A)
  OBVIOUS
<1>4. A # {}
  <2>1. << >> \in SetToSeqs({})
    BY FS_EmptySet DEF SetToSeqs
  <2>2. << >> \in InOrder({})
    BY <2>1 DEF InOrder
  <2> QED  BY <1>3, <2>2
<1>5. PICK x \in A : TRUE
  BY <1>4
<1>6. /\ IsFiniteSet(A \ {x}) /\ Cardinality(A \ {x}) = n - 1
      /\ Cardinality(A \ {x}) \in Nat /\ A \ {x} \in SUBSET Rows
  <2>1. IsFiniteSet(A \ {x}) /\ Cardinality(A \ {x}) = n - 1
    BY <1>3, <1>5, FS_RemoveElement
  <2> QED  BY <2>1, FS_CardinalityType
<1>7. n - 1 \notin N
  BY <1>2, <1>6
<1>8. InOrder(A \ {x}) # {}
  BY <1>6, <1>7
<1>9. InOrder(A) # {}
  BY <1>3, <1>5, <1>8, PutInOrder
<1> QED  BY <1>3, <1>9

\* A request can be answered and in one way: Listed, a set, is the one list that
\* ORDER BY and LIMIT leave of the rows below the cursor.
THEOREM OnePage ==
  ASSUME WalkTypeOK, NEW first \in Nat
  PROVE  \E listed : Listed(first) = {listed}
<1>1. Found \in SUBSET Rows /\ IsFiniteSet(Found)
  BY FoundIsFinite
<1>2. PICK s : s \in InOrder(Found)
  BY <1>1, SomeOrder
<1>3. InOrder(Found) = {s}
  BY <1>1, <1>2, OneOrder
<1> QED  BY <1>3 DEF Listed
=============================================================================
