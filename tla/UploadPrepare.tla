--------------------------- MODULE UploadPrepare ---------------------------
(***************************************************************************)
(* The preparation of an upload (client/transfer/src): the file is fed to  *)
(* an encryption session, in a Web Worker if there is one and on the main  *)
(* thread if the worker fails, and once more with smaller wire blocks if   *)
(* the layout does not fit the larger ones.  Every block that is ready is  *)
(* put into the upload map and queued in a BlockHashPool, which hashes it  *)
(* while the rest is encrypted; uploadPrepared reserves the blocks under   *)
(* these hashes.                                                           *)
(*                                                                         *)
(* Encryption is randomised (crypto.cpp random_bytes): what two attempts   *)
(* produce for one token differs, so a block is identified by its token    *)
(* (its index) and the number of the attempt.  The pool is created once    *)
(* and shared by all attempts.                                             *)
(*                                                                         *)
(* A step is the code between two awaits.  Left out: byte progress, the    *)
(* slicing of the file, and the worker's id bookkeeping: the client sends  *)
(* a request only when the one before was answered.                        *)
(***************************************************************************)
EXTENDS Naturals, Sequences, FiniteSets

CONSTANTS
    LargeBlocks,         \* blocks of the file with the preferred block size
    SmallBlocks,         \* and with 16 MiB
    PreferWorker,        \* options.preferWorker: "always", "unless_fails", "never"
    WorkerAvailable,     \* canUseUploadPrepareWorker
    CreateAttempts,      \* UPLOAD_PREPARE_WORKER_CREATE_ATTEMPTS
    HashConcurrency

ASSUME PrepareAssumption ==
    /\ {LargeBlocks, SmallBlocks, CreateAttempts, HashConcurrency} \subseteq Nat \ {0}
    /\ LargeBlocks <= SmallBlocks
    /\ PreferWorker \in {"always", "unless_fails", "never"}
    /\ WorkerAvailable \in BOOLEAN

VARIABLES
    prep,       \* where the preparation is
    live,       \* workers created and not disposed
    uploads,    \* the upload map: per token the attempt, 0 if absent
    queue,      \* the pool's jobs not started
    hashing,    \* and those being hashed
    hashes,     \* its results: per token the attempt that was hashed, or 0
    doubtful    \* history: tokens with two jobs at a time, or a job that failed

prepareVars == <<prep, live, uploads, queue, hashing, hashes, doubtful>>

-----------------------------------------------------------------------------
Index == 0 .. (SmallBlocks - 1)
NoBlocks == [i \in Index |-> 0]
BlocksWith(cap) == IF cap = "large" THEN LargeBlocks ELSE SmallBlocks
HashJob == [token : Index, attempt : Nat]

\* A worker attempt starts with the creation of a worker.
UsesWorker == PreferWorker # "never" /\ WorkerAvailable
FirstStage == IF UsesWorker THEN "create" ELSE "main"

PrepareInit ==
    /\ prep = [pc |-> "idle", cap |-> "large", attempt |-> 0, tries |-> 0, next |-> 1]
    /\ live = 0
    /\ uploads = NoBlocks
    /\ queue = <<>>
    /\ hashing = {}
    /\ hashes = NoBlocks
    /\ doubtful = {}

poolVars == <<queue, hashing, hashes, doubtful>>

-----------------------------------------------------------------------------
(* BlockHashPool.                                                          *)

\* MUTATION of Room: one job too many.
RoomInclusive(running) ==
    IF running > HashConcurrency THEN 0 ELSE HashConcurrency + 1 - running

Room(running) == IF running >= HashConcurrency THEN 0 ELSE HashConcurrency - running

\* pump: jobs start in order of arrival, while there is room
Pump(q, running) ==
    LET room == Room(Cardinality(running))
        n == IF Len(q) <= room THEN Len(q) ELSE room
    IN  /\ queue' = SubSeq(q, n + 1, Len(q))
        /\ hashing' = running \cup {q[k] : k \in 1 .. n}

Unfinished(i) == \E j \in hashing \cup {queue[k] : k \in DOMAIN queue} : j.token = i

\* storeWireBlock for the blocks a to b of this attempt: the map, and the pool
Store(a, b) ==
    LET jobs == [k \in 1 .. (b - a + 1) |->
                   [token |-> a + k - 1, attempt |-> prep.attempt]]
    IN  /\ uploads' = [i \in Index |-> IF i \in a .. b THEN prep.attempt
                                                      ELSE uploads[i]]
        /\ Pump(queue \o jobs, hashing)
        /\ doubtful' = doubtful \cup {i \in a .. b : Unfinished(i)}
        /\ UNCHANGED hashes

\* MUTATION of Recorded: a result that is there already is kept.
RecordedOnce(j) == [hashes EXCEPT ![j.token] = IF @ = 0 THEN j.attempt ELSE @]

Recorded(j) == [hashes EXCEPT ![j.token] = j.attempt]

\* MUTATION of JobOver: pump is called only after a result.
JobOverUnlessFailed(j, ok) ==
    IF ok THEN Pump(queue, hashing \ {j})
          ELSE hashing' = hashing \ {j} /\ UNCHANGED queue

\* The place of a job is given back, and the next ones start, even if its
\* digest failed.
JobOver(j, ok) == Pump(queue, hashing \ {j})

\* runJob: jobs end in any order
HashEnds(j, ok) ==
    /\ j \in hashing
    /\ JobOver(j, ok)
    /\ hashes' = IF ok THEN Recorded(j) ELSE hashes
    /\ doubtful' = IF ok THEN doubtful ELSE doubtful \cup {j.token}
    /\ UNCHANGED <<prep, live, uploads>>

-----------------------------------------------------------------------------
(* prepareUploadStreaming.                                                 *)

\* An attempt begins with an empty map.
Begin(pc, cap) ==
    /\ prep' = [prep EXCEPT !.pc = pc, !.cap = cap, !.attempt = @ + 1,
                            !.tries = 0, !.next = 1]
    /\ uploads' = NoBlocks

StartPrepare ==
    /\ prep.pc = "idle"
    /\ Begin(FirstStage, "large")
    /\ UNCHANGED <<live, poolVars>>

\* An attempt failed for good: with 16 MiB again if the larger blocks do not fit.
GiveUp(layout) ==
    IF layout /\ prep.cap = "large"
      THEN Begin(FirstStage, "small")
      ELSE /\ prep' = [prep EXCEPT !.pc = "failed"]
           /\ UNCHANGED uploads

\* executePrepareUploadStreaming, when the worker failed
WorkerFailed(layout) ==
    IF PreferWorker = "always" THEN GiveUp(layout) ELSE Begin("main", prep.cap)

\* MUTATION of DisposeOnInitFailure: the worker that did not start is forgotten.
ForgetOnInitFailure == live

DisposeOnInitFailure == live - 1

\* createInitializedUploadPrepareWorker: created, and asked to load the module
CreateWorker ==
    /\ prep.pc = "create"
    /\ live' = live + 1
    /\ prep' = [prep EXCEPT !.pc = "init", !.tries = @ + 1]
    /\ UNCHANGED <<uploads, poolVars>>

\* MUTATION of MayCreate: one attempt too many.
MayCreateOnceMore(n) == n <= CreateAttempts

MayCreate(n) == n < CreateAttempts

\* The constructor throws, or init is answered with an error; a worker that
\* was created is disposed.
CreateFails(layout) ==
    LET n == IF prep.pc = "create" THEN prep.tries + 1 ELSE prep.tries
    IN  /\ prep.pc \in {"create", "init"}
        /\ live' = IF prep.pc = "init" THEN DisposeOnInitFailure ELSE live
        /\ IF MayCreate(n)
             THEN /\ prep' = [prep EXCEPT !.pc = "create", !.tries = n]
                  /\ UNCHANGED uploads
             ELSE WorkerFailed(layout)
        /\ UNCHANGED poolVars

InitDone ==
    /\ prep.pc = "init"
    /\ prep' = [prep EXCEPT !.pc = "worker"]
    /\ UNCHANGED <<live, uploads, poolVars>>

\* feed is answered: blocks that became ready, in order, block 0 excepted
Feed(n) ==
    /\ prep.pc \in {"worker", "main"}
    /\ n \in (prep.next + 1) .. BlocksWith(prep.cap)
    /\ Store(prep.next, n - 1)
    /\ prep' = [prep EXCEPT !.next = n]
    /\ UNCHANGED live

\* finalize yields block 0; the worker is disposed
Finalize ==
    /\ prep.pc \in {"worker", "main"}
    /\ prep.next = BlocksWith(prep.cap)
    /\ Store(0, 0)
    /\ prep' = [prep EXCEPT !.pc = "drain"]
    /\ live' = IF prep.pc = "worker" THEN live - 1 ELSE live

\* feed or finalize is answered with an error, or the worker dies
WorkerThrows(layout) ==
    /\ prep.pc = "worker"
    /\ live' = live - 1
    /\ WorkerFailed(layout)
    /\ UNCHANGED poolVars

MainThrows(layout) ==
    /\ prep.pc = "main"
    /\ GiveUp(layout)
    /\ UNCHANGED <<live, poolVars>>

-----------------------------------------------------------------------------
(* prepareUploadStreamingWithHashes and reserveAndRegisterUploadBlocks.    *)

Drained == queue = <<>> /\ hashing = {}

Tokens(f) == {i \in Index : f[i] # 0}

\* MUTATION of HashesMatch: the entries are not counted.
HashesAssumed == TRUE

HashesMatch ==
    /\ Cardinality(Tokens(hashes)) = Cardinality(Tokens(uploads))
    /\ Tokens(uploads) \subseteq Tokens(hashes)

\* drain has resolved: there must be one hash per block
CheckHashes ==
    /\ prep.pc = "drain"
    /\ Drained
    /\ prep' = [prep EXCEPT !.pc = IF HashesMatch THEN "ready" ELSE "failed"]
    /\ UNCHANGED <<live, uploads, poolVars>>

\* The caller has reserved the blocks, or failed to; nothing is kept here.
HandOver ==
    /\ prep.pc = "ready"
    /\ prep' = [prep EXCEPT !.pc = "handed", !.attempt = 0, !.tries = 0]
    /\ hashes' = NoBlocks
    /\ uploads' = NoBlocks
    /\ doubtful' = {}
    /\ UNCHANGED <<live, queue, hashing>>

Fails(layout) == CreateFails(layout) \/ WorkerThrows(layout) \/ MainThrows(layout)

PrepareStep ==
    \/ CreateWorker \/ InitDone \/ Finalize \/ CheckHashes
    \/ \E n \in 1 .. SmallBlocks : Feed(n)
    \/ \E layout \in BOOLEAN : Fails(layout)

HashStep == \E j \in hashing, ok \in BOOLEAN : HashEnds(j, ok)

PrepareNext == StartPrepare \/ PrepareStep \/ HashStep

PrepareSpec == PrepareInit /\ [][PrepareNext \/ HandOver]_prepareVars

\* Encryption calls return, a worker answers or dies with an error event, and
\* digests end.
PrepareFairness == WF_prepareVars(PrepareStep) /\ WF_prepareVars(HashStep)

-----------------------------------------------------------------------------
(* Properties.                                                             *)

\* The locals of the preparation, the upload map and the pool have their types.
PrepareTypeOK ==
    /\ prep \in [pc : {"idle", "create", "init", "worker", "main", "drain",
                       "ready", "handed", "failed"},
                 cap : {"large", "small"}, attempt : Nat,
                 tries : 0 .. CreateAttempts, next : 1 .. SmallBlocks]
    /\ live \in Nat
    /\ uploads \in [Index -> Nat]
    /\ queue \in Seq(HashJob)
    /\ hashing \subseteq HashJob
    /\ hashes \in [Index -> Nat]
    /\ doubtful \subseteq Index

\* However often workers are created, fail to start, or die, there is one
\* exactly while the preparation talks to one, and none afterwards: no path
\* forgets to dispose of it.
WorkersAreDisposed == live = IF prep.pc \in {"init", "worker"} THEN 1 ELSE 0

\* What is reserved covers the upload: each of its blocks has a hash.
ReadyIsHashed ==
    prep.pc = "ready" => Tokens(hashes) = 0 .. (BlocksWith(prep.cap) - 1)

\* The hash a block is reserved under is that of the data that will be sent,
\* although the pool also hashed the blocks of attempts that failed: the
\* exceptions are tokens whose older job was unfinished when the newer one was
\* queued (the one that ends last wins), or one of whose jobs failed.
HashIsCurrentUnlessRaced ==
    prep.pc = "ready" =>
        \A i \in Tokens(uploads) : hashes[i] = uploads[i] \/ i \in doubtful

\* The pool keeps to its limit and never idles while it has work: drain would
\* wait for ever.
PoolIsBusy ==
    /\ Cardinality(hashing) <= HashConcurrency
    /\ queue # <<>> => Cardinality(hashing) = HashConcurrency

\* A preparation that was started ends, whichever attempts and digests fail.
PrepareEnded == prep.pc \in {"ready", "handed", "failed"}
PrepareEnds == (prep.pc # "idle") ~> PrepareEnded
=============================================================================
