------------------------ MODULE UploadPrepareProofs ------------------------
(***************************************************************************)
(* Proofs about UploadPrepare, for every number of blocks, of attempts to  *)
(* start a worker and of hashes computed at a time: first what pump does   *)
(* to a pool, then an inductive invariant of the preparation, then the     *)
(* properties, for an upload as MCUpload composes it.                      *)
(***************************************************************************)
EXTENDS MCUpload, FiniteSetTheorems, SequenceTheorems, TLAPS

-----------------------------------------------------------------------------
(* The pool.                                                               *)

Entries(q) == {q[k] : k \in DOMAIN q}
Injective(q) == \A k, l \in DOMAIN q : q[k] = q[l] => k = l

\* Within its limit, and at it while something is queued; no job is in the
\* pool twice.
PoolOK(q, running) ==
    /\ q \in Seq(HashJob)
    /\ running \subseteq HashJob
    /\ IsFiniteSet(running)
    /\ Injective(q)
    /\ Entries(q) \cap running = {}
    /\ Cardinality(running) <= HashConcurrency
    /\ q # <<>> => Cardinality(running) = HashConcurrency

\* The first n entries of a queue without repetitions are n jobs.
LEMMA FirstEntries ==
    ASSUME NEW q \in Seq(HashJob), Injective(q), NEW n \in 0 .. Len(q)
    PROVE  /\ IsFiniteSet({q[k] : k \in 1 .. n})
           /\ Cardinality({q[k] : k \in 1 .. n}) = n
<1> DEFINE S == 1 .. n
           T == {q[k] : k \in 1 .. n}
           f == [k \in S |-> q[k]]
<1>1. DOMAIN q = 1 .. Len(q) /\ Len(q) \in Nat
    BY LenProperties
<1>2. f \in [S -> T]
    OBVIOUS
<1>3. f \in Injection(S, T)
    BY <1>1, <1>2 DEF Injective, Injection, IsInjective
<1>4. f \in Surjection(S, T)
    BY <1>2 DEF Surjection
<1>5. IsFiniteSet(S) /\ Cardinality(S) = n
    BY FS_Interval
<1>6. ExistsBijection(S, T)
    BY <1>3, <1>4 DEF ExistsBijection, Bijection
<1> QED
    BY <1>5, <1>6, FS_Bijection

\* pump loses no job and starts as many as there is room for.
LEMMA PumpKeepsPool ==
    ASSUME NEW q \in Seq(HashJob), NEW running \in SUBSET HashJob,
           IsFiniteSet(running), Injective(q), Entries(q) \cap running = {},
           Cardinality(running) <= HashConcurrency, Pump(q, running)
    PROVE  /\ PoolOK(queue', hashing')
           /\ Entries(queue') \cup hashing' = Entries(q) \cup running
<1> DEFINE room == Room(Cardinality(running))
           n == IF Len(q) <= room THEN Len(q) ELSE room
           first == {q[k] : k \in 1 .. n}
           c == Cardinality(running)
<1>1. /\ DOMAIN q = 1 .. Len(q)
      /\ Len(q) \in Nat
      /\ \A k \in 1 .. Len(q) : q[k] \in HashJob
    BY LenProperties, ElementOfSeq
<1>2. HashConcurrency \in Nat \ {0}
    BY PrepareAssumption
<1>3. c \in Nat
    BY FS_CardinalityType
<1>4. room = HashConcurrency - c /\ room \in Nat
    BY <1>2, <1>3 DEF Room
<1>5. n \in 0 .. Len(q) /\ n <= room /\ (n < Len(q) => n = room)
    BY <1>1, <1>4
<1>6. queue' = SubSeq(q, n + 1, Len(q)) /\ hashing' = running \cup first
    BY DEF Pump
<1> HIDE DEF n, room, c
<1>7. /\ queue' \in Seq(HashJob)
      /\ Len(queue') = Len(q) - n
      /\ \A k \in 1 .. Len(q) - n : queue'[k] = q[n + k]
  <2>1. \A k \in (n + 1) .. Len(q) : q[k] \in HashJob
    BY <1>1, <1>5
  <2>2. n + 1 \in Int /\ Len(q) \in Int
    BY <1>1, <1>5
  <2>3. /\ SubSeq(q, n + 1, Len(q)) \in Seq(HashJob)
        /\ Len(SubSeq(q, n + 1, Len(q)))
             = IF n + 1 <= Len(q) THEN Len(q) - (n + 1) + 1 ELSE 0
        /\ \A k \in 1 .. Len(q) - (n + 1) + 1 :
             SubSeq(q, n + 1, Len(q))[k] = q[(n + 1) + k - 1]
    BY <2>1, <2>2, SubSeqProperties
  <2>4. Len(queue') = Len(q) - n
    <3>1. Len(queue') = IF n + 1 <= Len(q) THEN Len(q) - (n + 1) + 1 ELSE 0
      BY <1>6, <2>3
    <3>2. n \in Nat /\ Len(q) \in Nat /\ n <= Len(q)
      BY <1>1, <1>5
    <3> HIDE DEF n
    <3> QED
      BY <3>1, <3>2
  <2>5. ASSUME NEW k \in 1 .. Len(q) - n
        PROVE  queue'[k] = q[n + k]
    <3>1. k \in 1 .. Len(q) - (n + 1) + 1 /\ (n + 1) + k - 1 = n + k
      BY <1>1, <1>5
    <3>2. queue'[k] = q[(n + 1) + k - 1]
      BY <1>6, <2>3, <3>1
    <3> QED
      BY <3>1, <3>2
  <2> QED
    BY <1>6, <2>3, <2>4, <2>5
<1>8. DOMAIN queue' = 1 .. Len(q) - n
    BY <1>7, LenProperties
<1>9. Entries(queue') = {q[k] : k \in (n + 1) .. Len(q)}
  <2>1. ASSUME NEW k \in (n + 1) .. Len(q)
        PROVE  k - n \in 1 .. Len(q) - n /\ queue'[k - n] = q[k]
    BY <1>1, <1>5, <1>7
  <2>2. ASSUME NEW k \in 1 .. Len(q) - n
        PROVE  n + k \in (n + 1) .. Len(q) /\ queue'[k] = q[n + k]
    BY <1>1, <1>5, <1>7
  <2> QED
    BY <1>8, <2>1, <2>2 DEF Entries
<1>10. 1 .. Len(q) = (1 .. n) \cup ((n + 1) .. Len(q))
    BY <1>1, <1>5
<1>11. Entries(q) = first \cup Entries(queue')
    BY <1>1, <1>9, <1>10 DEF Entries
<1>12. Injective(queue')
  <2>1. \A k, l \in 1 .. Len(q) - n : n + k \in 1 .. Len(q)
          /\ n + l \in 1 .. Len(q) /\ (n + k = n + l => k = l)
    BY <1>1, <1>5
  <2> QED
    BY <1>1, <1>7, <1>8, <2>1 DEF Injective
<1>13. first \cap Entries(queue') = {}
  <2>1. \A k \in 1 .. n, l \in (n + 1) .. Len(q) :
          k \in 1 .. Len(q) /\ l \in 1 .. Len(q) /\ k # l
    BY <1>1, <1>5
  <2> QED
    BY <1>1, <1>9, <2>1 DEF Injective
<1>14. first \cap running = {} /\ first \subseteq HashJob
    BY <1>1, <1>5, <1>11
<1>15. IsFiniteSet(first) /\ Cardinality(first) = n
    BY <1>5, FirstEntries
<1>16. IsFiniteSet(hashing') /\ Cardinality(hashing') = c + n
  <2>1. /\ IsFiniteSet(running \cup first)
        /\ Cardinality(running \cup first)
             = Cardinality(running) + Cardinality(first)
               - Cardinality(running \cap first)
    BY <1>15, FS_Union
  <2>2. Cardinality(running \cap first) = 0
    BY <1>14, FS_EmptySet
  <2> HIDE DEF first
  <2>3. Cardinality(hashing') = c + n - 0
    BY <1>6, <1>15, <2>1, <2>2 DEF c
  <2>4. c + n - 0 = c + n
    BY <1>3, <1>5
  <2> QED
    BY <1>6, <2>1, <2>3, <2>4
<1>17. Cardinality(hashing') <= HashConcurrency
    BY <1>2, <1>3, <1>4, <1>5, <1>16
<1>18. queue' # <<>> => Cardinality(hashing') = HashConcurrency
  <2>1. queue' # <<>> => n < Len(q)
    BY <1>1, <1>5, <1>7, EmptySeq
  <2>2. n = room => c + n = HashConcurrency
    BY <1>2, <1>3, <1>4
  <2> QED
    BY <1>5, <1>16, <2>1, <2>2
<1>19. Entries(queue') \cap hashing' = {}
    BY <1>6, <1>11, <1>13
<1> QED
    BY <1>6, <1>7, <1>11, <1>12, <1>14, <1>16, <1>17, <1>18, <1>19 DEF PoolOK

-----------------------------------------------------------------------------
(* The invariant.                                                          *)

PoolJobs == hashing \cup Entries(queue)

\* Attempts are counted from one, and there is one left to start the worker.
Counted ==
    /\ prep.pc \notin {"idle", "handed"} => prep.attempt > 0
    /\ prep.pc = "create" => prep.tries < CreateAttempts

\* The upload map holds what the attempt has produced so far.
StoredSoFar ==
    /\ prep.pc \in {"create", "init"} => prep.next = 1 /\ Tokens(uploads) = {}
    /\ prep.pc \in {"worker", "main"} =>
         /\ prep.next <= BlocksWith(prep.cap)
         /\ Tokens(uploads) = 1 .. (prep.next - 1)
    /\ prep.pc \in {"drain", "ready"} =>
         Tokens(uploads) = 0 .. (BlocksWith(prep.cap) - 1)

\* Jobs of this attempt belong to blocks that are stored.
JobsAreStored ==
    \A j \in PoolJobs :
        \/ j.attempt < prep.attempt
        \/ j.attempt = prep.attempt /\ uploads[j.token] # 0

\* A stored block has a job of its attempt and of no other, or its hash.
HashIsComing ==
    \A i \in Index \ doubtful : uploads[i] # 0 =>
        /\ \A j \in PoolJobs : j.token = i => j.attempt = uploads[i]
        /\ (\E j \in PoolJobs : j.token = i) \/ hashes[i] = uploads[i]

\* Only a drained pool with one hash per block is handed over.
DrainedAtEnd ==
    /\ prep.pc \in {"ready", "handed"} => Drained
    /\ prep.pc = "ready" => HashesMatch

PoolInv ==
    /\ PoolOK(queue, hashing)
    /\ JobsAreStored
    /\ HashIsComing

PrepareInv ==
    /\ PrepareTypeOK
    /\ WorkersAreDisposed
    /\ Counted
    /\ StoredSoFar
    /\ PoolInv
    /\ DrainedAtEnd

\* The numbers of blocks, and the stages an attempt may begin with.
LEMMA BlockCounts ==
    /\ CreateAttempts \in Nat \ {0} /\ SmallBlocks \in Nat \ {0}
    /\ \A cap \in {"large", "small"} :
         BlocksWith(cap) \in Nat \ {0} /\ BlocksWith(cap) <= SmallBlocks
    /\ FirstStage \in {"create", "main"}
BY PrepareAssumption DEF BlocksWith, FirstStage

\* What is in the pool is a job.
LEMMA JobTypes ==
    ASSUME PoolOK(queue, hashing)
    PROVE  \A j \in PoolJobs : j \in HashJob
BY ElementOfSeq, LenProperties DEF PoolOK, PoolJobs, Entries

-----------------------------------------------------------------------------
(* The steps.                                                              *)

LEMMA PrepareInitially == PrepareInit => PrepareInv
<1> SUFFICES ASSUME PrepareInit PROVE PrepareInv
    OBVIOUS
<1> USE DEF PrepareInit
<1>1. <<>> \in Seq(HashJob) /\ Entries(<<>>) = {} /\ Injective(<<>>)
    BY EmptySeq DEF Entries, Injective
<1>2. PrepareTypeOK
    BY <1>1, BlockCounts DEF PrepareTypeOK, NoBlocks
<1>3. PoolOK(queue, hashing)
    BY <1>1, FS_EmptySet, PrepareAssumption DEF PoolOK
<1>4. JobsAreStored /\ HashIsComing
    BY <1>1 DEF JobsAreStored, HashIsComing, PoolJobs, NoBlocks
<1>5. WorkersAreDisposed /\ Counted /\ StoredSoFar /\ DrainedAtEnd
    BY DEF WorkersAreDisposed, Counted, StoredSoFar, DrainedAtEnd
<1> QED
    BY <1>2, <1>3, <1>4, <1>5 DEF PrepareInv, PoolInv

\* What leaves the map, the attempt and the pool alone disturbs no job.
LEMMA PoolUntouched ==
    ASSUME PoolInv, UNCHANGED <<uploads, poolVars>>, prep'.attempt = prep.attempt
    PROVE  PoolInv'
BY DEF PoolInv, PoolOK, JobsAreStored, HashIsComing, PoolJobs, Entries, Injective,
       poolVars

\* An attempt that begins with an empty map disturbs no job either: those of
\* the attempts before it are older.
LEMMA BeginKeeps ==
    ASSUME PrepareInv, NEW pc \in {"create", "main"}, NEW cap \in {"large", "small"},
           Begin(pc, cap), UNCHANGED poolVars, live' = 0,
           prep.pc \notin {"ready", "handed"}
    PROVE  PrepareInv'
<1> USE DEF Begin
<1>1. PrepareTypeOK
    BY DEF PrepareInv
<1>2. /\ prep'.pc = pc /\ prep'.cap = cap /\ prep'.attempt = prep.attempt + 1
      /\ prep'.tries = 0 /\ prep'.next = 1 /\ prep.attempt \in Nat
    BY <1>1 DEF PrepareTypeOK
<1>3. PrepareTypeOK'
  <2>1. prep' = [pc |-> pc, cap |-> cap, attempt |-> prep.attempt + 1,
                 tries |-> 0, next |-> 1]
    BY <1>1 DEF PrepareTypeOK
  <2>2. 0 \in 0 .. CreateAttempts /\ 1 \in 1 .. SmallBlocks
        /\ prep.attempt + 1 \in Nat
    BY <1>2, BlockCounts
  <2>3. uploads' \in [Index -> Nat]
    BY DEF NoBlocks
  <2> QED
    BY <1>1, <2>1, <2>2, <2>3 DEF PrepareTypeOK, poolVars
<1>4. WorkersAreDisposed'
    BY <1>2 DEF WorkersAreDisposed
<1>5. Counted'
    BY <1>2, BlockCounts DEF Counted
<1>6. Tokens(uploads)' = {}
    BY DEF Tokens, NoBlocks
<1>7. StoredSoFar'
    BY <1>2, <1>6, BlockCounts DEF StoredSoFar
<1>8. PoolOK(queue, hashing)'
    BY DEF PrepareInv, PoolInv, PoolOK, Entries, Injective, poolVars
<1>9. JobsAreStored'
  <2>1. \A j \in PoolJobs : j.attempt <= prep.attempt /\ j.attempt \in Nat
    <3>1. \A j \in PoolJobs : j \in HashJob
      BY JobTypes DEF PrepareInv, PoolInv
    <3> QED
      BY <1>2, <3>1 DEF PrepareInv, PoolInv, JobsAreStored, HashJob
  <2>2. PoolJobs' = PoolJobs
    BY DEF PoolJobs, Entries, poolVars
  <2>3. \A j \in PoolJobs' : j.attempt < prep'.attempt
    BY <1>2, <2>1, <2>2
  <2> QED
    BY <2>3 DEF JobsAreStored
<1>10. HashIsComing'
    BY DEF HashIsComing, NoBlocks
<1>11. DrainedAtEnd'
    BY <1>2 DEF DrainedAtEnd
<1> QED
    BY <1>3, <1>4, <1>5, <1>7, <1>8, <1>9, <1>10, <1>11
       DEF PrepareInv, PoolInv

LEMMA GiveUpKeeps ==
    ASSUME PrepareInv, NEW layout \in BOOLEAN, GiveUp(layout), UNCHANGED poolVars,
           live' = 0, prep.pc \notin {"ready", "handed", "idle"}
    PROVE  PrepareInv'
<1>1. CASE layout /\ prep.cap = "large"
    BY <1>1, BlockCounts, BeginKeeps DEF GiveUp
<1>2. CASE ~(layout /\ prep.cap = "large")
  <2>1. prep' = [prep EXCEPT !.pc = "failed"] /\ UNCHANGED uploads
    BY <1>2 DEF GiveUp
  <2>2. PrepareTypeOK
    BY DEF PrepareInv
  <2>3. prep'.pc = "failed" /\ prep'.attempt = prep.attempt
    BY <2>1, <2>2 DEF PrepareTypeOK
  <2>4. PrepareTypeOK'
    BY <2>1, <2>2 DEF PrepareTypeOK, poolVars
  <2>5. PoolInv'
    BY <2>1, <2>3, PoolUntouched DEF PrepareInv
  <2>6. WorkersAreDisposed' /\ Counted' /\ StoredSoFar' /\ DrainedAtEnd'
    BY <2>3 DEF PrepareInv, WorkersAreDisposed, Counted, StoredSoFar, DrainedAtEnd
  <2> QED
    BY <2>4, <2>5, <2>6 DEF PrepareInv
<1> QED
    BY <1>1, <1>2

LEMMA WorkerFailedKeeps ==
    ASSUME PrepareInv, NEW layout \in BOOLEAN, WorkerFailed(layout),
           UNCHANGED poolVars, live' = 0,
           prep.pc \notin {"ready", "handed", "idle"}
    PROVE  PrepareInv'
<1>1. prep.cap \in {"large", "small"}
    BY DEF PrepareInv, PrepareTypeOK
<1> QED
    BY <1>1, BeginKeeps, GiveUpKeeps DEF WorkerFailed

\* Two sequences one after the other have the entries of both, and repeat none
\* if neither does and they share none.
LEMMA AppendedEntries ==
    ASSUME NEW q \in Seq(HashJob), NEW r \in Seq(HashJob), Injective(q),
           Injective(r), Entries(q) \cap Entries(r) = {}
    PROVE  /\ q \o r \in Seq(HashJob)
           /\ Entries(q \o r) = Entries(q) \cup Entries(r)
           /\ Injective(q \o r)
<1> DEFINE z == q \o r
           m == Len(q)
           n == Len(r)
<1>1. m \in Nat /\ n \in Nat /\ DOMAIN q = 1 .. m /\ DOMAIN r = 1 .. n
    BY LenProperties
<1>2. z \in Seq(HashJob) /\ Len(z) = m + n
      /\ \A k \in 1 .. m + n : z[k] = IF k <= m THEN q[k] ELSE r[k - m]
    BY ConcatProperties
<1> HIDE DEF z, m, n
<1>3. DOMAIN z = 1 .. m + n
    BY <1>2, LenProperties
<1>4. ASSUME NEW k \in 1 .. m PROVE k \in 1 .. m + n /\ z[k] = q[k]
    BY <1>1, <1>2
<1>5. ASSUME NEW k \in 1 .. n PROVE m + k \in 1 .. m + n /\ z[m + k] = r[k]
  <2>1. m + k \in 1 .. m + n /\ ~(m + k <= m) /\ (m + k) - m = k
    BY <1>1
  <2> QED
    BY <1>2, <2>1
<1>6. ASSUME NEW k \in 1 .. m + n
      PROVE  (k \in 1 .. m /\ z[k] = q[k]) \/ (k - m \in 1 .. n /\ z[k] = r[k - m])
    BY <1>1, <1>2
<1>7. Entries(z) = Entries(q) \cup Entries(r)
  <2>1. \A x \in Entries(z) : x \in Entries(q) \cup Entries(r)
    BY <1>1, <1>3, <1>6 DEF Entries
  <2>2. \A x \in Entries(q) : x \in Entries(z)
    BY <1>1, <1>3, <1>4 DEF Entries
  <2>3. \A x \in Entries(r) : x \in Entries(z)
    BY <1>1, <1>3, <1>5 DEF Entries
  <2> QED
    BY <2>1, <2>2, <2>3
<1>8. Injective(z)
  <2> SUFFICES ASSUME NEW k \in 1 .. m + n, NEW l \in 1 .. m + n, z[k] = z[l]
               PROVE  k = l
    BY <1>3 DEF Injective
  <2>1. \A i \in 1 .. m, j \in 1 .. n : q[i] # r[j]
    BY <1>1 DEF Entries
  <2>2. CASE k \in 1 .. m /\ l \in 1 .. m
    BY <1>1, <1>4, <2>2 DEF Injective
  <2>3. CASE k \notin 1 .. m /\ l \notin 1 .. m
    <3>1. k - m \in 1 .. n /\ l - m \in 1 .. n /\ r[k - m] = r[l - m]
      BY <1>6, <2>3
    <3>2. k - m = l - m
      BY <1>1, <3>1 DEF Injective
    <3> QED
      BY <1>1, <3>2
  <2>4. CASE k \in 1 .. m /\ l \notin 1 .. m
    BY <1>4, <1>6, <2>1, <2>4
  <2>5. CASE k \notin 1 .. m /\ l \in 1 .. m
    BY <1>4, <1>6, <2>1, <2>5
  <2> QED
    BY <2>2, <2>3, <2>4, <2>5
<1> QED
    BY <1>2, <1>7, <1>8 DEF z

\* Blocks that are stored are new to the attempt, and so are their jobs.
LEMMA StoreKeeps ==
    ASSUME PrepareInv, NEW a \in Nat, NEW b \in Nat, a <= b, Store(a, b),
           a .. b \subseteq Index, (a .. b) \cap Tokens(uploads) = {},
           prep.attempt > 0, prep'.attempt = prep.attempt
    PROVE  /\ PoolInv'
           /\ uploads' \in [Index -> Nat]
           /\ UNCHANGED hashes
           /\ doubtful' \subseteq Index
           /\ Tokens(uploads)' = Tokens(uploads) \cup (a .. b)
<1> DEFINE m == b - a + 1
           jobs == [k \in 1 .. m |-> [token |-> a + k - 1, attempt |-> prep.attempt]]
           new == {[token |-> i, attempt |-> prep.attempt] : i \in a .. b}
<1>1. /\ PoolOK(queue, hashing) /\ JobsAreStored /\ HashIsComing
      /\ uploads \in [Index -> Nat] /\ doubtful \subseteq Index
      /\ prep.attempt \in Nat
    BY DEF PrepareInv, PoolInv, PrepareTypeOK
<1>2. m \in Nat
    OBVIOUS
<1>3. \A k \in 1 .. m : a + k - 1 \in a .. b
    OBVIOUS
<1>4. \A i \in a .. b : i - a + 1 \in 1 .. m /\ a + (i - a + 1) - 1 = i
    OBVIOUS
<1>5. jobs \in Seq(HashJob) /\ DOMAIN jobs = 1 .. m
  <2>1. jobs \in [1 .. m -> HashJob] /\ DOMAIN jobs = 1 .. m
    BY <1>1, <1>3 DEF HashJob
  <2> HIDE DEF m, jobs
  <2>2. [1 .. m -> HashJob] \subseteq Seq(HashJob)
    BY <1>2, SeqDef
  <2> QED
    BY <2>1, <2>2
<1>6. Entries(jobs) = new
  <2>1. \A k \in 1 .. m : jobs[k] \in new
    BY <1>3
  <2>2. ASSUME NEW i \in a .. b
        PROVE  [token |-> i, attempt |-> prep.attempt] \in Entries(jobs)
    BY <1>4, <1>5 DEF Entries
  <2> QED
    BY <1>5, <2>1, <2>2 DEF Entries
<1>7. Injective(jobs)
    BY <1>5 DEF Injective
<1>8. new \cap PoolJobs = {}
  <2> SUFFICES ASSUME NEW i \in a .. b,
                      [token |-> i, attempt |-> prep.attempt] \in PoolJobs
               PROVE  FALSE
    OBVIOUS
  <2>1. uploads[i] # 0
    BY <1>1 DEF JobsAreStored
  <2> QED
    BY <2>1 DEF Tokens
<1>9. /\ queue \o jobs \in Seq(HashJob)
      /\ Entries(queue \o jobs) = Entries(queue) \cup new
      /\ Injective(queue \o jobs)
    BY <1>1, <1>5, <1>6, <1>7, <1>8, AppendedEntries DEF PoolOK, PoolJobs
<1>10. Entries(queue \o jobs) \cap hashing = {}
    BY <1>1, <1>8, <1>9 DEF PoolOK, PoolJobs
<1>11. Pump(queue \o jobs, hashing)
    BY DEF Store
<1> HIDE DEF jobs
<1>12. PoolOK(queue', hashing') /\ PoolJobs' = PoolJobs \cup new
  <2>1. /\ hashing \in SUBSET HashJob /\ IsFiniteSet(hashing)
        /\ Cardinality(hashing) <= HashConcurrency
    BY <1>1 DEF PoolOK
  <2>2. /\ PoolOK(queue', hashing')
        /\ Entries(queue') \cup hashing' = Entries(queue \o jobs) \cup hashing
    BY <1>9, <1>10, <1>11, <2>1, PumpKeepsPool
  <2> QED
    BY <1>9, <2>2 DEF PoolJobs
<1>13. uploads' = [i \in Index |-> IF i \in a .. b THEN prep.attempt ELSE uploads[i]]
    BY DEF Store
<1>14. doubtful' = doubtful \cup {i \in a .. b : \E j \in PoolJobs : j.token = i}
    BY DEF Store, Unfinished, PoolJobs, Entries
<1>15. UNCHANGED hashes
    BY DEF Store
<1>16. JobsAreStored'
  <2> SUFFICES ASSUME NEW j \in PoolJobs'
               PROVE  \/ j.attempt < prep.attempt
                      \/ j.attempt = prep.attempt /\ uploads'[j.token] # 0
    BY DEF JobsAreStored
  <2>1. CASE j \in new
    BY <1>13, <2>1
  <2>2. CASE j \in PoolJobs
    <3>1. j.token \in Index
      BY <1>1, <2>2, JobTypes DEF HashJob
    <3> QED
      BY <1>1, <1>13, <2>2, <3>1 DEF JobsAreStored
  <2> QED
    BY <1>12, <2>1, <2>2
<1>17. HashIsComing'
  <2> SUFFICES ASSUME NEW i \in Index, i \notin doubtful', uploads'[i] # 0
               PROVE  /\ \A j \in PoolJobs' : j.token = i => j.attempt = uploads'[i]
                      /\ (\E j \in PoolJobs' : j.token = i) \/ hashes'[i] = uploads'[i]
    BY DEF HashIsComing
  <2>1. CASE i \in a .. b
    <3>1. \A j \in PoolJobs : j.token # i
      BY <1>14, <2>1
    <3>2. \A j \in new : j.token = i => j.attempt = uploads'[i]
      BY <1>13, <2>1
    <3> DEFINE job == [token |-> i, attempt |-> prep.attempt]
    <3>3. job \in new /\ job.token = i
      BY <2>1
    <3> HIDE DEF new, job
    <3>4. \A j \in PoolJobs' : j.token = i => j.attempt = uploads'[i]
      BY <1>12, <3>1, <3>2
    <3>5. \E j \in PoolJobs' : j.token = i
      BY <1>12, <3>3
    <3> QED
      BY <3>4, <3>5
  <2>2. CASE i \notin a .. b
    <3>1. uploads'[i] = uploads[i] /\ i \notin doubtful
      BY <1>13, <1>14, <2>2
    <3>2. \A j \in new : j.token # i
      BY <2>2
    <3>3. /\ \A j \in PoolJobs : j.token = i => j.attempt = uploads[i]
          /\ (\E j \in PoolJobs : j.token = i) \/ hashes[i] = uploads[i]
      BY <1>1, <3>1 DEF HashIsComing
    <3>4. ASSUME NEW j \in PoolJobs', j.token = i PROVE j \in PoolJobs
      BY <1>12, <3>2, <3>4
    <3>5. \A j \in PoolJobs' : j.token = i => j.attempt = uploads'[i]
      BY <3>1, <3>3, <3>4
    <3>6. (\E j \in PoolJobs' : j.token = i) \/ hashes'[i] = uploads'[i]
      BY <1>12, <1>15, <3>1, <3>3
    <3> QED
      BY <3>5, <3>6
  <2> QED
    BY <2>1, <2>2
<1>18. Tokens(uploads)' = Tokens(uploads) \cup (a .. b)
    BY <1>1, <1>13 DEF Tokens
<1>19. uploads' \in [Index -> Nat] /\ doubtful' \subseteq Index
    BY <1>1, <1>13, <1>14
<1> QED
    BY <1>12, <1>15, <1>16, <1>17, <1>18, <1>19 DEF PoolInv

\* The end of a job, successful or not, starts others.
LEMMA HashEndKeeps ==
    ASSUME PrepareInv, NEW j \in hashing, NEW ok \in BOOLEAN, HashEnds(j, ok)
    PROVE  PrepareInv'
<1>1. /\ PoolOK(queue, hashing) /\ JobsAreStored /\ HashIsComing
      /\ PrepareTypeOK /\ j \in HashJob /\ j \in PoolJobs
    BY JobTypes DEF PrepareInv, PoolInv, PoolJobs
<1>2. /\ hashing \ {j} \in SUBSET HashJob
      /\ IsFiniteSet(hashing \ {j})
      /\ Cardinality(hashing \ {j}) <= HashConcurrency
  <2>1. IsFiniteSet(hashing) /\ Cardinality(hashing) <= HashConcurrency
    BY <1>1 DEF PoolOK
  <2>2. IsFiniteSet(hashing \ {j}) /\ Cardinality(hashing \ {j}) = Cardinality(hashing) - 1
    BY <2>1, FS_RemoveElement
  <2>3. Cardinality(hashing) \in Nat /\ HashConcurrency \in Nat
    BY <2>1, FS_CardinalityType, PrepareAssumption
  <2>4. Cardinality(hashing \ {j}) <= HashConcurrency
    BY <2>1, <2>2, <2>3
  <2> QED
    BY <1>1, <2>2, <2>4 DEF PoolOK
<1>3. /\ PoolOK(queue', hashing')
      /\ Entries(queue') \cup hashing' = Entries(queue) \cup (hashing \ {j})
  <2>1. /\ Pump(queue, hashing \ {j}) /\ queue \in Seq(HashJob) /\ Injective(queue)
        /\ Entries(queue) \cap (hashing \ {j}) = {}
    BY <1>1 DEF PoolOK, HashEnds, JobOver
  <2> QED
    BY <1>2, <2>1, PumpKeepsPool
<1>4. PoolJobs' = PoolJobs \ {j}
    BY <1>1, <1>3 DEF PoolJobs, PoolOK
<1>5. /\ UNCHANGED <<prep, live, uploads>>
      /\ hashes' = IF ok THEN Recorded(j) ELSE hashes
      /\ doubtful' = IF ok THEN doubtful ELSE doubtful \cup {j.token}
    BY DEF HashEnds
<1>6. j.token \in Index /\ j.attempt \in Nat
    BY <1>1 DEF HashJob
<1>7. PrepareTypeOK'
  <2>1. queue' \in Seq(HashJob) /\ hashing' \subseteq HashJob
    BY <1>3 DEF PoolOK
  <2>2. hashes' \in [Index -> Nat] /\ doubtful' \subseteq Index
    BY <1>1, <1>5, <1>6 DEF PrepareTypeOK, Recorded
  <2> QED
    BY <1>1, <1>5, <2>1, <2>2 DEF PrepareTypeOK
<1>8. WorkersAreDisposed' /\ Counted' /\ StoredSoFar'
    BY <1>5 DEF PrepareInv, WorkersAreDisposed, Counted, StoredSoFar, Tokens
<1>9. JobsAreStored'
    BY <1>1, <1>4, <1>5 DEF JobsAreStored
<1>10. HashIsComing'
  <2> SUFFICES ASSUME NEW i \in Index, i \notin doubtful', uploads'[i] # 0
               PROVE  /\ \A k \in PoolJobs' : k.token = i => k.attempt = uploads'[i]
                      /\ (\E k \in PoolJobs' : k.token = i) \/ hashes'[i] = uploads'[i]
    BY DEF HashIsComing
  <2>1. i \notin doubtful /\ uploads'[i] = uploads[i]
    BY <1>5
  <2>2. /\ \A k \in PoolJobs : k.token = i => k.attempt = uploads[i]
        /\ (\E k \in PoolJobs : k.token = i) \/ hashes[i] = uploads[i]
    BY <1>1, <1>5, <2>1 DEF HashIsComing
  <2>3. \A k \in PoolJobs' : k.token = i => k.attempt = uploads'[i]
    BY <1>4, <2>1, <2>2
  <2>4. CASE j.token = i
    <3>1. ok /\ j.attempt = uploads[i]
      BY <1>1, <1>5, <2>2, <2>4
    <3>2. hashes'[i] = j.attempt
      BY <1>1, <1>5, <2>4, <3>1 DEF Recorded, PrepareTypeOK
    <3> QED
      BY <2>1, <2>3, <3>1, <3>2
  <2>5. CASE j.token # i
    <3>1. hashes'[i] = hashes[i]
      BY <1>1, <1>5, <2>5 DEF Recorded, PrepareTypeOK
    <3>2. (\E k \in PoolJobs : k.token = i) => (\E k \in PoolJobs' : k.token = i)
      BY <1>4, <2>5
    <3> QED
      BY <2>1, <2>2, <2>3, <3>1, <3>2
  <2> QED
    BY <2>4, <2>5
<1>11. DrainedAtEnd'
  <2>1. prep.pc \notin {"ready", "handed"}
    BY DEF PrepareInv, DrainedAtEnd, Drained
  <2> QED
    BY <1>5, <2>1 DEF DrainedAtEnd
<1> QED
    BY <1>3, <1>7, <1>8, <1>9, <1>10, <1>11 DEF PrepareInv, PoolInv

\* Every action of the preparation, and the hand-over, keep the invariant.
LEMMA PrepareInvHolds ==
    ASSUME PrepareInv, [PrepareNext \/ HandOver]_prepareVars
    PROVE  PrepareInv'
<1>1. PrepareTypeOK /\ WorkersAreDisposed /\ Counted /\ StoredSoFar
      /\ PoolInv /\ DrainedAtEnd
    BY DEF PrepareInv
<1>2. ASSUME UNCHANGED prepareVars PROVE PrepareInv'
  <2>1. PoolInv'
    BY <1>1, <1>2, PoolUntouched DEF prepareVars, poolVars
  <2> QED
    BY <1>1, <1>2, <2>1
       DEF PrepareInv, prepareVars, PrepareTypeOK, WorkersAreDisposed, Counted,
           StoredSoFar, Tokens, DrainedAtEnd, Drained, HashesMatch
<1>3. ASSUME StartPrepare PROVE PrepareInv'
  <2>1. live' = 0
    BY <1>1, <1>3 DEF StartPrepare, WorkersAreDisposed
  <2> QED
    BY <1>3, <2>1, BlockCounts, BeginKeeps DEF StartPrepare
<1>4. ASSUME CreateWorker PROVE PrepareInv'
  <2>1. prep' = [prep EXCEPT !.pc = "init", !.tries = @ + 1]
    BY <1>4 DEF CreateWorker
  <2>2. /\ prep'.pc = "init" /\ prep'.attempt = prep.attempt
        /\ prep'.tries = prep.tries + 1 /\ prep'.next = prep.next
    BY <1>1, <2>1 DEF PrepareTypeOK
  <2>3. PoolInv'
    BY <1>1, <1>4, <2>2, PoolUntouched DEF CreateWorker
  <2>4. prep.tries \in Nat /\ prep.tries < CreateAttempts /\ live = 0 /\ prep.attempt > 0
    BY <1>1, <1>4 DEF CreateWorker, Counted, PrepareTypeOK, WorkersAreDisposed
  <2>5. PrepareTypeOK'
    <3>1. prep' = [pc |-> "init", cap |-> prep.cap, attempt |-> prep.attempt,
                   tries |-> prep.tries + 1, next |-> prep.next]
      BY <1>1, <2>1 DEF PrepareTypeOK
    <3>2. prep.tries + 1 \in 0 .. CreateAttempts /\ live + 1 \in Nat
      BY <2>4, BlockCounts
    <3> QED
      BY <1>1, <1>4, <3>1, <3>2 DEF CreateWorker, PrepareTypeOK, poolVars
  <2>6. WorkersAreDisposed' /\ Counted' /\ StoredSoFar' /\ DrainedAtEnd'
    BY <1>1, <1>4, <2>2, <2>4
       DEF CreateWorker, WorkersAreDisposed, Counted, StoredSoFar, Tokens,
           DrainedAtEnd
  <2> QED
    BY <2>3, <2>5, <2>6 DEF PrepareInv
<1>5. ASSUME InitDone PROVE PrepareInv'
  <2>1. prep' = [prep EXCEPT !.pc = "worker"]
    BY <1>5 DEF InitDone
  <2>2. /\ prep'.pc = "worker" /\ prep'.attempt = prep.attempt
        /\ prep'.tries = prep.tries /\ prep'.next = prep.next
        /\ prep'.cap = prep.cap /\ prep.cap \in {"large", "small"}
    BY <1>1, <2>1 DEF PrepareTypeOK
  <2>3. PoolInv'
    BY <1>1, <1>5, <2>2, PoolUntouched DEF InitDone
  <2>4. PrepareTypeOK'
    BY <1>1, <1>5, <2>1 DEF InitDone, PrepareTypeOK, poolVars
  <2>5. WorkersAreDisposed' /\ Counted' /\ DrainedAtEnd'
    BY <1>1, <1>5, <2>2
       DEF InitDone, WorkersAreDisposed, Counted, DrainedAtEnd
  <2>6. StoredSoFar'
    <3>1. prep.next = 1 /\ Tokens(uploads) = {} /\ Tokens(uploads)' = Tokens(uploads)
      BY <1>1, <1>5 DEF InitDone, StoredSoFar, Tokens
    <3>2. BlocksWith(prep'.cap) \in Nat \ {0}
      BY <2>2, BlockCounts
    <3> QED
      BY <2>2, <3>1, <3>2 DEF StoredSoFar
  <2> QED
    BY <2>3, <2>4, <2>5, <2>6 DEF PrepareInv
<1>6. ASSUME NEW n \in 1 .. SmallBlocks, Feed(n) PROVE PrepareInv'
  <2>1. /\ prep.pc \in {"worker", "main"} /\ n \in (prep.next + 1) .. BlocksWith(prep.cap)
        /\ Store(prep.next, n - 1) /\ prep' = [prep EXCEPT !.next = n]
        /\ live' = live
    BY <1>6 DEF Feed
  <2>2. /\ prep'.pc = prep.pc /\ prep'.attempt = prep.attempt
        /\ prep'.tries = prep.tries /\ prep'.next = n /\ prep'.cap = prep.cap
        /\ prep.cap \in {"large", "small"} /\ prep.next \in 1 .. SmallBlocks
    BY <1>1, <2>1 DEF PrepareTypeOK
  <2>3. /\ prep.attempt > 0 /\ Tokens(uploads) = 1 .. (prep.next - 1)
    BY <1>1, <2>1 DEF Counted, StoredSoFar
  <2>4. /\ BlocksWith(prep.cap) \in Nat /\ BlocksWith(prep.cap) <= SmallBlocks
        /\ SmallBlocks \in Nat
    BY <2>2, BlockCounts
  <2>5. /\ prep.next \in Nat /\ n - 1 \in Nat /\ prep.next <= n - 1
        /\ n <= BlocksWith(prep.cap)
    BY <2>1, <2>2, <2>4
  <2>6. prep.next .. (n - 1) \subseteq Index
    BY <2>4, <2>5 DEF Index
  <2>7. (prep.next .. (n - 1)) \cap Tokens(uploads) = {}
    BY <2>3, <2>5
  <2>8. /\ PoolInv' /\ uploads' \in [Index -> Nat] /\ UNCHANGED hashes
        /\ doubtful' \subseteq Index
        /\ Tokens(uploads)' = Tokens(uploads) \cup (prep.next .. (n - 1))
    BY <2>1, <2>2, <2>3, <2>5, <2>6, <2>7, StoreKeeps
  <2>9. Tokens(uploads)' = 1 .. (n - 1)
    BY <2>2, <2>3, <2>5, <2>8
  <2>10. PrepareTypeOK'
    BY <1>1, <2>1, <2>8 DEF PrepareTypeOK, PoolInv, PoolOK
  <2>11. StoredSoFar'
    BY <2>1, <2>2, <2>5, <2>9 DEF StoredSoFar
  <2>12. WorkersAreDisposed' /\ Counted' /\ DrainedAtEnd'
    BY <1>1, <2>1, <2>2 DEF WorkersAreDisposed, Counted, DrainedAtEnd
  <2> QED
    BY <2>8, <2>10, <2>11, <2>12 DEF PrepareInv
<1>7. ASSUME Finalize PROVE PrepareInv'
  <2>1. /\ prep.pc \in {"worker", "main"} /\ prep.next = BlocksWith(prep.cap)
        /\ Store(0, 0) /\ prep' = [prep EXCEPT !.pc = "drain"]
        /\ live' = IF prep.pc = "worker" THEN live - 1 ELSE live
    BY <1>7 DEF Finalize
  <2>2. /\ prep'.pc = "drain" /\ prep'.attempt = prep.attempt
        /\ prep'.tries = prep.tries /\ prep'.cap = prep.cap
        /\ prep.cap \in {"large", "small"}
    BY <1>1, <2>1 DEF PrepareTypeOK
  <2>3. prep.attempt > 0 /\ Tokens(uploads) = 1 .. (BlocksWith(prep.cap) - 1)
    BY <1>1, <2>1 DEF Counted, StoredSoFar
  <2>4. BlocksWith(prep.cap) \in Nat \ {0} /\ 0 .. 0 = {0} /\ 0 \in Index
    BY <2>2, BlockCounts DEF Index
  <2>5. (0 .. 0) \cap Tokens(uploads) = {} /\ 0 .. 0 \subseteq Index
    BY <2>3, <2>4
  <2>6. /\ PoolInv' /\ uploads' \in [Index -> Nat] /\ UNCHANGED hashes
        /\ doubtful' \subseteq Index
        /\ Tokens(uploads)' = Tokens(uploads) \cup (0 .. 0)
    <3>1. 0 \in Nat /\ 0 <= 0
      OBVIOUS
    <3> QED
      BY <2>1, <2>2, <2>3, <2>5, <3>1, StoreKeeps
  <2>7. Tokens(uploads)' = 0 .. (BlocksWith(prep.cap) - 1)
    BY <2>3, <2>4, <2>6
  <2>8. live' = 0
    BY <1>1, <2>1 DEF WorkersAreDisposed
  <2>9. PrepareTypeOK'
    <3>1. prep' = [pc |-> "drain", cap |-> prep.cap, attempt |-> prep.attempt,
                   tries |-> prep.tries, next |-> prep.next]
      BY <1>1, <2>1 DEF PrepareTypeOK
    <3>2. queue' \in Seq(HashJob) /\ hashing' \subseteq HashJob
      BY <2>6 DEF PoolInv, PoolOK
    <3> QED
      BY <1>1, <2>6, <2>8, <3>1, <3>2 DEF PrepareTypeOK
  <2>10. StoredSoFar'
    BY <2>2, <2>7 DEF StoredSoFar
  <2>11. WorkersAreDisposed' /\ Counted' /\ DrainedAtEnd'
    BY <1>1, <2>2, <2>3, <2>8 DEF WorkersAreDisposed, Counted, DrainedAtEnd
  <2> QED
    BY <2>6, <2>9, <2>10, <2>11 DEF PrepareInv
<1>8. ASSUME CheckHashes PROVE PrepareInv'
  <2>1. /\ prep.pc = "drain" /\ Drained /\ UNCHANGED <<live, uploads, poolVars>>
        /\ prep' = [prep EXCEPT !.pc = IF HashesMatch THEN "ready" ELSE "failed"]
    BY <1>8 DEF CheckHashes
  <2>2. /\ prep'.pc = IF HashesMatch THEN "ready" ELSE "failed"
        /\ prep'.attempt = prep.attempt /\ prep'.tries = prep.tries
        /\ prep'.cap = prep.cap
    BY <1>1, <2>1 DEF PrepareTypeOK
  <2>3. PoolInv'
    BY <1>1, <2>1, <2>2, PoolUntouched
  <2>4. PrepareTypeOK'
    BY <1>1, <2>1 DEF PrepareTypeOK, poolVars
  <2>5. WorkersAreDisposed' /\ Counted'
    BY <1>1, <2>1, <2>2 DEF WorkersAreDisposed, Counted
  <2>6. StoredSoFar'
    BY <1>1, <2>1, <2>2 DEF StoredSoFar, Tokens
  <2>7. DrainedAtEnd'
    BY <2>1, <2>2 DEF DrainedAtEnd, Drained, HashesMatch, Tokens, poolVars
  <2> QED
    BY <2>3, <2>4, <2>5, <2>6, <2>7 DEF PrepareInv
<1>9. ASSUME NEW layout \in BOOLEAN, CreateFails(layout) PROVE PrepareInv'
  <2> DEFINE n == IF prep.pc = "create" THEN prep.tries + 1 ELSE prep.tries
  <2>1. prep.pc \in {"create", "init"} /\ UNCHANGED poolVars
    BY <1>9 DEF CreateFails
  <2>2. live' = 0
    BY <1>1, <1>9, <2>1
       DEF CreateFails, WorkersAreDisposed, DisposeOnInitFailure
  <2>3. CASE MayCreate(n)
    <3>1. prep' = [prep EXCEPT !.pc = "create", !.tries = n] /\ UNCHANGED uploads
      BY <1>9, <2>3 DEF CreateFails
    <3>2. n \in 0 .. CreateAttempts /\ n < CreateAttempts
      BY <1>1, <2>3, BlockCounts DEF MayCreate, PrepareTypeOK
    <3> HIDE DEF n
    <3>3. /\ prep'.pc = "create" /\ prep'.attempt = prep.attempt
          /\ prep'.tries = n /\ prep'.next = prep.next
      BY <1>1, <3>1 DEF PrepareTypeOK
    <3>4. PoolInv'
      BY <1>1, <2>1, <3>1, <3>3, PoolUntouched
    <3>5. PrepareTypeOK'
      BY <1>1, <2>1, <2>2, <3>1, <3>2 DEF PrepareTypeOK, poolVars
    <3>6. WorkersAreDisposed' /\ Counted' /\ StoredSoFar' /\ DrainedAtEnd'
      BY <1>1, <2>1, <2>2, <3>1, <3>2, <3>3
         DEF WorkersAreDisposed, Counted, StoredSoFar, Tokens, DrainedAtEnd
    <3> QED
      BY <3>4, <3>5, <3>6 DEF PrepareInv
  <2>4. CASE ~MayCreate(n)
    <3>1. WorkerFailed(layout)
      BY <1>9, <2>4 DEF CreateFails
    <3> QED
      BY <2>1, <2>2, <3>1, WorkerFailedKeeps
  <2> QED
    BY <2>3, <2>4
<1>10. ASSUME NEW layout \in BOOLEAN, WorkerThrows(layout) PROVE PrepareInv'
  <2>1. prep.pc = "worker" /\ WorkerFailed(layout) /\ UNCHANGED poolVars
        /\ live' = live - 1
    BY <1>10 DEF WorkerThrows
  <2>2. live' = 0
    BY <1>1, <2>1 DEF WorkersAreDisposed
  <2> QED
    BY <2>1, <2>2, WorkerFailedKeeps
<1>11. ASSUME NEW layout \in BOOLEAN, MainThrows(layout) PROVE PrepareInv'
  <2>1. prep.pc = "main" /\ GiveUp(layout) /\ UNCHANGED poolVars /\ live' = live
    BY <1>11 DEF MainThrows
  <2>2. live' = 0
    BY <1>1, <2>1 DEF WorkersAreDisposed
  <2> QED
    BY <2>1, <2>2, GiveUpKeeps
<1>12. ASSUME HandOver PROVE PrepareInv'
  <2>1. /\ prep.pc = "ready"
        /\ prep' = [prep EXCEPT !.pc = "handed", !.attempt = 0, !.tries = 0]
        /\ hashes' = NoBlocks /\ uploads' = NoBlocks /\ doubtful' = {}
        /\ UNCHANGED <<live, queue, hashing>>
    BY <1>12 DEF HandOver
  <2>2. prep'.pc = "handed"
    BY <1>1, <2>1 DEF PrepareTypeOK
  <2>3. Drained
    BY <1>1, <2>1 DEF DrainedAtEnd
  <2>4. PoolJobs' = {}
    BY <2>1, <2>3, EmptySeq DEF PoolJobs, Entries, Drained
  <2>5. JobsAreStored' /\ HashIsComing'
    BY <2>1, <2>4 DEF JobsAreStored, HashIsComing, NoBlocks
  <2>6. PoolOK(queue, hashing)'
    BY <1>1, <2>1 DEF PoolInv, PoolOK, Entries, Injective
  <2>7. PrepareTypeOK'
    <3>1. prep' = [pc |-> "handed", cap |-> prep.cap, attempt |-> 0,
                   tries |-> 0, next |-> prep.next]
      BY <1>1, <2>1 DEF PrepareTypeOK
    <3>2. 0 \in 0 .. CreateAttempts
      BY BlockCounts
    <3>3. uploads' \in [Index -> Nat] /\ hashes' \in [Index -> Nat]
      BY <2>1 DEF NoBlocks
    <3> QED
      BY <1>1, <2>1, <3>1, <3>2, <3>3 DEF PrepareTypeOK
  <2>8. WorkersAreDisposed' /\ Counted' /\ StoredSoFar' /\ DrainedAtEnd'
    BY <1>1, <2>1, <2>2, <2>3
       DEF WorkersAreDisposed, Counted, StoredSoFar, DrainedAtEnd, Drained
  <2> QED
    BY <2>5, <2>6, <2>7, <2>8 DEF PrepareInv, PoolInv
<1>13. ASSUME HashStep PROVE PrepareInv'
    BY <1>13, HashEndKeeps DEF HashStep
<1> QED
    BY <1>2, <1>3, <1>4, <1>5, <1>6, <1>7, <1>8, <1>9, <1>10, <1>11, <1>12, <1>13
       DEF PrepareNext, PrepareStep, Fails

-----------------------------------------------------------------------------
(* The properties.                                                         *)

\* Whatever the sending does, an upload takes the steps of a preparation and
\* of a hand-over: reserveAndRegisterUploadBlocks is called once, with its result.
THEOREM UploadPrepares == UploadSpec => PrepareSpec
<1>1. UploadInit => PrepareInit
    BY DEF UploadInit
<1>2. [UploadNext]_<<vars, prepareVars>> => [PrepareNext \/ HandOver]_prepareVars
    BY DEF UploadNext, UploadPrepared, prepareVars
<1> QED
    BY <1>1, <1>2, PTL DEF UploadSpec, PrepareSpec

LEMMA PrepareInvariant == UploadSpec => []PrepareInv
<1>1. PrepareSpec => []PrepareInv
    BY PrepareInitially, PrepareInvHolds, PTL DEF PrepareSpec
<1> QED
    BY <1>1, UploadPrepares, PTL

\* The locals of a preparation, the upload map and the pool have their types
\* for any file and any limits.
THEOREM PrepareTypeCorrect == UploadSpec => []PrepareTypeOK
<1>1. PrepareInv => PrepareTypeOK
    BY DEF PrepareInv
<1> QED
    BY <1>1, PrepareInvariant, PTL

\* However often workers are created, fail to start or die, a worker exists
\* exactly while the preparation talks to it.
THEOREM EveryWorkerIsDisposed == UploadSpec => []WorkersAreDisposed
<1>1. PrepareInv => WorkersAreDisposed
    BY DEF PrepareInv
<1> QED
    BY <1>1, PrepareInvariant, PTL

\* The pool keeps to its limit and has no idle place while a job is queued,
\* also when a digest fails: pump is called at the end of every job.
THEOREM PoolNeverIdles == UploadSpec => []PoolIsBusy
<1>1. PrepareInv => PoolIsBusy
    BY DEF PrepareInv, PoolInv, PoolOK, PoolIsBusy
<1> QED
    BY <1>1, PrepareInvariant, PTL

\* Every block of the file that is handed over has a hash: one hash per entry
\* of the map, and the map is complete when finalize has returned.
THEOREM HandedOverIsHashed == UploadSpec => []ReadyIsHashed
<1>1. PrepareInv => ReadyIsHashed
  <2> SUFFICES ASSUME PrepareInv, prep.pc = "ready"
               PROVE  Tokens(hashes) = 0 .. (BlocksWith(prep.cap) - 1)
    BY DEF ReadyIsHashed
  <2>1. Tokens(uploads) = 0 .. (BlocksWith(prep.cap) - 1) /\ HashesMatch
    BY DEF PrepareInv, StoredSoFar, DrainedAtEnd
  <2>2. IsFiniteSet(Tokens(hashes))
    <3>1. IsFiniteSet(Index)
      BY BlockCounts, FS_Interval DEF Index
    <3>2. Tokens(hashes) \subseteq Index
      BY DEF Tokens
    <3> QED
      BY <3>1, <3>2, FS_Subset
  <2>3. Tokens(uploads) = Tokens(hashes)
    BY <2>1, <2>2, FS_Subset DEF HashesMatch
  <2> QED
    BY <2>1, <2>3
<1> QED
    BY <1>1, PrepareInvariant, PTL

\* A block is handed over under the hash of the data that will be sent, unless
\* a job of an attempt that failed was unfinished when its own was queued, or
\* one of its jobs failed.
THEOREM HandedOverHashIsCurrent == UploadSpec => []HashIsCurrentUnlessRaced
<1>1. PrepareInv => HashIsCurrentUnlessRaced
  <2> SUFFICES ASSUME PrepareInv, prep.pc = "ready", NEW i \in Tokens(uploads),
                      i \notin doubtful
               PROVE  hashes[i] = uploads[i]
    BY DEF HashIsCurrentUnlessRaced
  <2>1. PoolJobs = {}
    BY EmptySeq DEF PrepareInv, DrainedAtEnd, Drained, PoolJobs, Entries
  <2> QED
    BY <2>1 DEF PrepareInv, PoolInv, HashIsComing, Tokens
<1> QED
    BY <1>1, PrepareInvariant, PTL
=============================================================================
