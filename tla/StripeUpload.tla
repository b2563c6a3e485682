---------------------------- MODULE StripeUpload ----------------------------
(***************************************************************************)
(* One upload session of the client (client/transfer/src): uploadPrepared  *)
(* reserves the tokens, PUTs every block to its primary relay with a pool  *)
(* of workers (uploadStripePrimaryBlocks), then PUTs the replicas with a   *)
(* second pool (runAsyncReplicaReplication) and abandons, at the registry, *)
(* the replicas that failed.  Every PUT goes through putWithRetry.         *)
(*                                                                         *)
(* The session is single-threaded: a step is the code between two awaits.  *)
(* Blocks are numbered in the order of the UploadMap, replica jobs after   *)
(* them; both are items, and each item has one relay it is sent to.  What  *)
(* a relay does with a request is reduced to whether it holds the item;    *)
(* an attempt given up by the client may still be executed later.          *)
(*                                                                         *)
(* Left out: byte progress, the hop probe (it only chooses the constants), *)
(* and the backoff delays.                                                 *)
(***************************************************************************)
EXTENDS Naturals, FiniteSets

CONSTANTS
    Total,                        \* blocks of the file
    Jobs,                         \* replica jobs: 0 without registry or replicas
    MaxConcurrency,               \* resolvePrimaryPutConcurrency
    ReplicaConcurrency,           \* replicaAsyncConcurrency
    Ramp,                         \* resolveStripeRampConcurrency
    PutMaxAttempts,               \* attempts that end with a refusal
    PutTransientMaxAttempts,      \* attempts that end with a transient failure
    ReplicaPutMaxAttempts,        \* the same two for replicas
    DefaultTransientMaxAttempts

ASSUME UploadAssumption ==
    /\ Total \in Nat \ {0}
    /\ Jobs \in Nat
    /\ MaxConcurrency \in Nat \ {0}
    /\ ReplicaConcurrency \in Nat \ {0}
    /\ Ramp \in BOOLEAN
    /\ PutMaxAttempts \in Nat \ {0}
    /\ PutTransientMaxAttempts \in Nat \ {0}
    /\ ReplicaPutMaxAttempts \in Nat \ {0}
    /\ DefaultTransientMaxAttempts \in Nat \ {0}

VARIABLES
    phase,      \* where uploadPrepared and replicaSync are
    next,       \* nextIndex of the primary pool, counted from 1
    nextJob,    \* nextIndex of the replica pool, counted on from Total
    completed,  \* completed
    inFlight,   \* inFlight
    lane,       \* the local state of each primary worker
    rlane,      \* the local state of each replica worker
    failures,   \* the replica jobs in `failures`
    abandoned,  \* replica jobs whose placement the registry has dropped
    held,       \* items their relay holds
    late,       \* items with a given-up attempt that may still be executed
    acked       \* items whose PUT resolved

queues == <<next, nextJob>>
relays == <<held, late>>
vars == <<phase, next, nextJob, completed, inFlight, lane, rlane, failures,
          abandoned, held, late, acked>>

-----------------------------------------------------------------------------
Lesser(m, n) == IF m <= n THEN m ELSE n

Block == 1 .. Total
Job == (Total + 1) .. (Total + Jobs)
Item == Block \cup Job
Worker == 1 .. Lesser(MaxConcurrency, Total)
ReplicaWorker == 1 .. Lesser(ReplicaConcurrency, Jobs)

At(pc) == [pc |-> pc, item |-> 0, attempt |-> 0]
Sending(i, n) == [pc |-> "put", item |-> i, attempt |-> n]

Putting == {w \in Worker : lane[w].pc = "put"}
Returned == \A w \in Worker : lane[w].pc = "returned"
ReplicaReturned == \A r \in ReplicaWorker : rlane[r].pc = "returned"

\* resolveRampedStripeConcurrency
RampLimit(done) ==
    Lesser(MaxConcurrency,
           IF done >= 3 THEN 6 ELSE IF done >= 2 THEN 4
           ELSE IF done >= 1 THEN 2 ELSE 1)

SlotLimit == IF Ramp THEN RampLimit(completed) ELSE MaxConcurrency

\* Workers that passed the slot check continue before any timer or answer
\* is served: the microtask queue drains first.
Quiet == \A w \in Worker : lane[w].pc # "slot"

Init ==
    /\ phase = "reserving"
    /\ next = 1
    /\ nextJob = Total + 1
    /\ completed = 0
    /\ inFlight = 0
    /\ lane = [w \in Worker |-> At("off")]
    /\ rlane = [r \in ReplicaWorker |-> At("off")]
    /\ failures = {}
    /\ abandoned = {}
    /\ held = {}
    /\ late = {}
    /\ acked = {}

-----------------------------------------------------------------------------
(* The reservation.  All workers are called in one go, and each of them    *)
(* finds inFlight = 0 in its first slot check.                             *)
Reserve ==
    /\ phase = "reserving"
    /\ phase' = "stripe"
    /\ lane' = [w \in Worker |-> At("slot")]
    /\ UNCHANGED <<queues, completed, inFlight, rlane, failures, abandoned,
                   relays, acked>>

ReserveFails ==
    /\ phase = "reserving"
    /\ phase' = "failed"
    /\ UNCHANGED <<queues, completed, inFlight, lane, rlane, failures,
                   abandoned, relays, acked>>

-----------------------------------------------------------------------------
(* putWithRetry: what the relay and the network make of one attempt.       *)

\* An item the relay already holds is never acknowledged again: the relay
\* answers 409, 500 or 503 to a PUT of a token it has a row for.
Stores(i) ==
    /\ i \notin held
    /\ held' = held \cup {i}
    /\ acked' = acked \cup {i}
    /\ UNCHANGED late

\* The attempt fails for the client.  The relay may execute it later on.
Misses(i) ==
    /\ late' \in {late, late \cup {i}}
    /\ UNCHANGED <<held, acked>>

\* MUTATION of GivesUp: the limit is tested with > instead of >=.
GivesUpLate(n, transient, maxAttempts, transientMax) ==
    n > (IF transient THEN transientMax ELSE maxAttempts)

\* The limit is the one of the latest failure's kind.
GivesUp(n, transient, maxAttempts, transientMax) ==
    n >= (IF transient THEN transientMax ELSE maxAttempts)

\* A request given up by the client is executed, or refused, by its relay.
LateAttempt(i) ==
    /\ i \in late
    /\ late' = late \ {i}
    /\ held' \in {held, held \cup {i}}
    /\ UNCHANGED <<phase, queues, completed, inFlight, lane, rlane, failures,
                   abandoned, acked>>

-----------------------------------------------------------------------------
(* uploadStripePrimaryBlocks.                                              *)

\* waitForStripePutSlot, after an earlier block or after a 16 ms sleep.
Poll(w) ==
    /\ Quiet
    /\ lane[w].pc = "poll"
    /\ inFlight < SlotLimit
    /\ lane' = [lane EXCEPT ![w] = At("slot")]
    /\ UNCHANGED <<phase, queues, completed, inFlight, rlane, failures,
                   abandoned, relays, acked>>

\* MUTATION of Claim: nextIndex is read before the await and stored after it.
ClaimStale(w) ==
    /\ lane[w].pc = "slot"
    /\ \E n \in {next - 1, next} \ {0} :
        IF n > Total
        THEN /\ lane' = [lane EXCEPT ![w] = At("returned")]
             /\ UNCHANGED <<next, inFlight>>
        ELSE /\ lane' = [lane EXCEPT ![w] = Sending(n, 1)]
             /\ next' = n + 1
             /\ inFlight' = inFlight + 1
    /\ UNCHANGED <<phase, nextJob, completed, rlane, failures, abandoned,
                   relays, acked>>

\* The code from the await of the slot to the first attempt of the PUT.
Claim(w) ==
    /\ lane[w].pc = "slot"
    /\ IF next > Total
       THEN /\ lane' = [lane EXCEPT ![w] = At("returned")]
            /\ UNCHANGED <<next, inFlight>>
       ELSE /\ lane' = [lane EXCEPT ![w] = Sending(next, 1)]
            /\ next' = next + 1
            /\ inFlight' = inFlight + 1
    /\ UNCHANGED <<phase, nextJob, completed, rlane, failures, abandoned,
                   relays, acked>>

PutOk(w) ==
    /\ Quiet
    /\ lane[w].pc = "put"
    /\ Stores(lane[w].item)
    /\ lane' = [lane EXCEPT ![w] = At("poll")]
    /\ completed' = completed + 1
    /\ inFlight' = inFlight - 1
    /\ UNCHANGED <<phase, queues, rlane, failures, abandoned>>

PutRetried(w, transient) ==
    /\ Quiet
    /\ lane[w].pc = "put"
    /\ ~GivesUp(lane[w].attempt, transient, PutMaxAttempts,
                PutTransientMaxAttempts)
    /\ Misses(lane[w].item)
    /\ lane' = [lane EXCEPT ![w].attempt = @ + 1]
    /\ UNCHANGED <<phase, queues, completed, inFlight, rlane, failures,
                   abandoned>>

\* MUTATION of PutExhausted: no finally, the slot is never given back.
PutExhaustedKeepsSlot(w, transient) ==
    /\ Quiet
    /\ lane[w].pc = "put"
    /\ GivesUp(lane[w].attempt, transient, PutMaxAttempts,
               PutTransientMaxAttempts)
    /\ Misses(lane[w].item)
    /\ lane' = [lane EXCEPT ![w] = At("failed")]
    /\ phase' = "failed"
    /\ UNCHANGED <<queues, completed, inFlight, rlane, failures, abandoned>>

\* MUTATION of PutExhausted: the worker logs the failure and goes on.
PutExhaustedGoesOn(w, transient) ==
    /\ Quiet
    /\ lane[w].pc = "put"
    /\ GivesUp(lane[w].attempt, transient, PutMaxAttempts,
               PutTransientMaxAttempts)
    /\ Misses(lane[w].item)
    /\ lane' = [lane EXCEPT ![w] = At("poll")]
    /\ inFlight' = inFlight - 1
    /\ UNCHANGED <<phase, queues, completed, rlane, failures, abandoned>>

\* UploadPutError: Promise.all rejects, the other workers are not stopped.
PutExhausted(w, transient) ==
    /\ Quiet
    /\ lane[w].pc = "put"
    /\ GivesUp(lane[w].attempt, transient, PutMaxAttempts,
               PutTransientMaxAttempts)
    /\ Misses(lane[w].item)
    /\ lane' = [lane EXCEPT ![w] = At("failed")]
    /\ inFlight' = inFlight - 1
    /\ phase' = "failed"
    /\ UNCHANGED <<queues, completed, rlane, failures, abandoned>>

-----------------------------------------------------------------------------
(* The replicas: runAsyncReplicaReplication.                               *)

StripeDone ==
    /\ phase = "stripe"
    /\ Returned
    /\ phase' = IF Jobs = 0 THEN "done" ELSE "replica"
    /\ rlane' = [r \in ReplicaWorker |-> At("next")]
    /\ UNCHANGED <<queues, completed, inFlight, lane, failures, abandoned,
                   relays, acked>>

ReplicaClaim(r) ==
    /\ rlane[r].pc = "next"
    /\ IF nextJob > Total + Jobs
       THEN /\ rlane' = [rlane EXCEPT ![r] = At("returned")]
            /\ UNCHANGED nextJob
       ELSE /\ rlane' = [rlane EXCEPT ![r] = Sending(nextJob, 1)]
            /\ nextJob' = nextJob + 1
    /\ UNCHANGED <<phase, next, completed, inFlight, lane, failures,
                   abandoned, relays, acked>>

ReplicaOk(r) ==
    /\ rlane[r].pc = "put"
    /\ Stores(rlane[r].item)
    /\ rlane' = [rlane EXCEPT ![r] = At("next")]
    /\ UNCHANGED <<phase, queues, completed, inFlight, lane, failures,
                   abandoned>>

ReplicaRetried(r, transient) ==
    /\ rlane[r].pc = "put"
    /\ ~GivesUp(rlane[r].attempt, transient, ReplicaPutMaxAttempts,
                DefaultTransientMaxAttempts)
    /\ Misses(rlane[r].item)
    /\ rlane' = [rlane EXCEPT ![r].attempt = @ + 1]
    /\ UNCHANGED <<phase, queues, completed, inFlight, lane, failures,
                   abandoned>>

\* MUTATION of ReplicaExhausted: a refusal is not recorded as a failure.
ReplicaExhaustedOnlyTransient(r, transient) ==
    /\ rlane[r].pc = "put"
    /\ GivesUp(rlane[r].attempt, transient, ReplicaPutMaxAttempts,
               DefaultTransientMaxAttempts)
    /\ Misses(rlane[r].item)
    /\ rlane' = [rlane EXCEPT ![r] = At("next")]
    /\ failures' = IF transient THEN failures \cup {rlane[r].item}
                   ELSE failures
    /\ UNCHANGED <<phase, queues, completed, inFlight, lane, abandoned>>

ReplicaExhausted(r, transient) ==
    /\ rlane[r].pc = "put"
    /\ GivesUp(rlane[r].attempt, transient, ReplicaPutMaxAttempts,
               DefaultTransientMaxAttempts)
    /\ Misses(rlane[r].item)
    /\ rlane' = [rlane EXCEPT ![r] = At("next")]
    /\ failures' = failures \cup {rlane[r].item}
    /\ UNCHANGED <<phase, queues, completed, inFlight, lane, abandoned>>

\* The abandon request, if there is anything to abandon.
ReplicasDone ==
    /\ phase = "replica"
    /\ ReplicaReturned
    /\ phase' = "done"
    /\ abandoned' = failures
    /\ UNCHANGED <<queues, completed, inFlight, lane, rlane, failures, relays,
                   acked>>

\* The abandon request fails, before or after the registry executed it, and
\* replicaSync rejects.
AbandonFails ==
    /\ phase = "replica"
    /\ ReplicaReturned
    /\ failures # {}
    /\ phase' = "syncFailed"
    /\ abandoned' \in {{}, failures}
    /\ UNCHANGED <<queues, completed, inFlight, lane, rlane, failures, relays,
                   acked>>

-----------------------------------------------------------------------------
PutAnswered(w) ==
    \/ PutOk(w)
    \/ \E transient \in BOOLEAN :
        PutRetried(w, transient) \/ PutExhausted(w, transient)

ReplicaAnswered(r) ==
    \/ ReplicaOk(r)
    \/ \E transient \in BOOLEAN :
        ReplicaRetried(r, transient) \/ ReplicaExhausted(r, transient)

Next ==
    \/ Reserve \/ ReserveFails
    \/ \E w \in Worker : Poll(w) \/ Claim(w) \/ PutAnswered(w)
    \/ StripeDone
    \/ \E r \in ReplicaWorker : ReplicaClaim(r) \/ ReplicaAnswered(r)
    \/ ReplicasDone \/ AbandonFails
    \/ \E i \in Item : LateAttempt(i)

Spec == Init /\ [][Next]_vars

\* The event loop serves timers and settled promises, and every request is
\* answered or fails: the network gives up on a dead connection.
SendFairness ==
    /\ \A w \in Worker :
        /\ WF_vars(Poll(w))
        /\ WF_vars(Claim(w))
        /\ WF_vars(PutAnswered(w))
    /\ WF_vars(StripeDone)
    /\ \A r \in ReplicaWorker :
        /\ WF_vars(ReplicaClaim(r))
        /\ WF_vars(ReplicaAnswered(r))
    /\ WF_vars(ReplicasDone \/ AbandonFails)

Fairness == WF_vars(Reserve \/ ReserveFails) /\ SendFairness

FairSpec == Spec /\ Fairness

-----------------------------------------------------------------------------
(* Properties.                                                             *)

LaneState(maxAttempts, Sent, Pc) ==
    [pc : Pc, item : {0}, attempt : {0}]
        \cup [pc : {"put"}, item : Sent, attempt : 1 .. maxAttempts]

Greater(m, n) == IF m >= n THEN m ELSE n

\* The state of the session: no block or job is outside the file, and no
\* PUT is attempted more often than the larger of its two limits allows.
TypeOK ==
    /\ phase \in {"reserving", "stripe", "failed", "replica", "done",
                  "syncFailed"}
    /\ next \in 1 .. Total + 1
    /\ nextJob \in Total + 1 .. Total + Jobs + 1
    /\ completed \in Nat
    /\ inFlight \in Nat
    /\ lane \in [Worker ->
                  LaneState(Greater(PutMaxAttempts, PutTransientMaxAttempts),
                            Block,
                            {"off", "poll", "slot", "returned", "failed"})]
    /\ rlane \in [ReplicaWorker ->
                   LaneState(Greater(ReplicaPutMaxAttempts,
                                     DefaultTransientMaxAttempts),
                             Job, {"off", "next", "returned"})]
    /\ failures \subseteq Job
    /\ abandoned \subseteq Job
    /\ held \subseteq Item
    /\ late \subseteq Item
    /\ acked \subseteq Item

\* The replication policy "stripe before replica": once the session is past
\* its primaries, every block was acknowledged by, and is held by, its
\* primary relay, so no replica and no success stands for a missing primary.
StripeBeforeReplica ==
    phase \in {"replica", "done", "syncFailed"} => Block \subseteq acked \cap held

\* No two workers send the same block, and no worker sends a block that was
\* already acknowledged, although each checks nextIndex after an await.
EachBlockHasOneSender ==
    \A w \in Putting :
        /\ lane[w].item \notin acked
        /\ \A v \in Putting : lane[v].item = lane[w].item => v = w

\* When replicaSync resolves, every replica job was either acknowledged by
\* its relay or abandoned at the registry, never both and never neither: the
\* placements left are those of the relays that hold the block.
ReplicasAreSettled ==
    phase = "done" =>
        /\ acked \cup abandoned = Item
        /\ acked \cap abandoned = {}

Settled ==
    /\ phase \in {"failed", "done", "syncFailed"}
    /\ \A w \in Worker : lane[w].pc \in {"off", "returned", "failed"}

\* A session that reserved ends and so does every worker: none polls for a slot for
\* ever, whatever the order in which the others succeed, retry and fail.
WorkersDrain == (phase # "reserving") ~> []Settled

\* What the comment of resolveRampedStripeConcurrency says: with the ramp, no
\* more PUTs are in flight than the completed blocks allow.
RampHolds == Ramp => Cardinality(Putting) <= RampLimit(completed)

-----------------------------------------------------------------------------
(* The inductive invariant behind the safety properties: what both pools   *)
(* know of each of their items.                                            *)

\* inFlight counts the workers inside the try block.
InFlightCounts == inFlight = Cardinality(Putting)

\* A claimed block was acknowledged or is being sent, unless a PUT failed.
ClaimedIsTracked ==
    phase # "failed" =>
        \A b \in Block : b < next =>
            b \in acked \/ \E w \in Putting : lane[w].item = b

\* Nothing is known of a block before it is claimed.
UnclaimedIsUntouched ==
    /\ \A b \in Block : b \in acked => b < next
    /\ \A w \in Putting : lane[w].item < next

\* A worker returns only when all blocks are claimed.
ReturnedAtEnd == \A w \in Worker : lane[w].pc = "returned" => next > Total

\* No worker is called before the reservation.
NotCalledYet ==
    phase = "reserving" => \A w \in Worker : lane[w].pc = "off"

\* The invariant of the primary pool.
PrimaryInv ==
    /\ TypeOK
    /\ NotCalledYet
    /\ InFlightCounts
    /\ ClaimedIsTracked
    /\ UnclaimedIsUntouched
    /\ ReturnedAtEnd
    /\ EachBlockHasOneSender
    /\ acked \subseteq held
    /\ StripeBeforeReplica

ReplicaPutting == {r \in ReplicaWorker : rlane[r].pc = "put"}

\* A claimed job was acknowledged, has failed or is being sent.
JobIsTracked ==
    \A j \in Job : j < nextJob =>
        \/ j \in acked \cup failures
        \/ \E r \in ReplicaPutting : rlane[r].item = j

\* Nothing is known of a job before it is claimed.
UnclaimedJobIsUntouched ==
    /\ \A j \in Job : j \in acked \cup failures => j < nextJob
    /\ \A r \in ReplicaPutting : rlane[r].item < nextJob

\* A job that is being sent is settled by nobody else.
EachJobHasOneSender ==
    \A r \in ReplicaPutting :
        /\ rlane[r].item \notin acked \cup failures
        /\ \A q \in ReplicaPutting : rlane[q].item = rlane[r].item => q = r

\* A replica worker returns only when all jobs are claimed.
ReplicaReturnedAtEnd ==
    \A r \in ReplicaWorker : rlane[r].pc = "returned" =>
        nextJob > Total + Jobs

\* The replica pool runs only in its phase, and stands still after it.
PoolHasPhase ==
    /\ phase \in {"reserving", "stripe"} =>
        \A r \in ReplicaWorker : rlane[r].pc = "off"
    /\ phase = "replica" => Jobs > 0
    /\ phase = "done" => abandoned = failures /\ ReplicaReturned

\* The invariant of the replica pool.
ReplicaInv ==
    /\ acked \cap failures = {}
    /\ JobIsTracked
    /\ UnclaimedJobIsUntouched
    /\ EachJobHasOneSender
    /\ ReplicaReturnedAtEnd
    /\ PoolHasPhase

UploadInv == PrimaryInv /\ ReplicaInv
=============================================================================
