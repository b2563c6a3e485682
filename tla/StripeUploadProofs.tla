------------------------- MODULE StripeUploadProofs -------------------------
(***************************************************************************)
(* Proofs about StripeUpload, for every number of blocks, replica jobs and *)
(* workers and for every attempt limit.                                    *)
(*                                                                         *)
(* The type invariant is not inductive by itself (inFlight - 1 has to stay *)
(* a natural number), so it is proved together with PrimaryInv.            *)
(***************************************************************************)
EXTENDS StripeUpload, FiniteSetTheorems, TLAPS

-----------------------------------------------------------------------------
(* Facts about the constants.                                              *)

\* The pools are numbered from one, the primary pool is never empty, the
\* replica pool is empty only without jobs, and no job is a block.
LEMMA Pools ==
    /\ 1 \in Worker
    /\ Worker \subseteq Nat \ {0}
    /\ IsFiniteSet(Worker)
    /\ Jobs > 0 => 1 \in ReplicaWorker
    /\ Block \cap Job = {}
    /\ Block \subseteq Nat \ {0}
    /\ Job \subseteq Nat \ {0}
<1>1. Lesser(MaxConcurrency, Total) \in Nat \ {0}
    BY UploadAssumption DEF Lesser
<1>2. 1 \in Worker /\ Worker \subseteq Nat \ {0}
    BY <1>1 DEF Worker
<1>3. IsFiniteSet(Worker)
    BY <1>1, FS_Interval DEF Worker
<1>4. Jobs > 0 => 1 \in ReplicaWorker
    BY UploadAssumption DEF ReplicaWorker, Lesser
<1>5. /\ Block \cap Job = {}
      /\ Block \subseteq Nat \ {0}
      /\ Job \subseteq Nat \ {0}
    BY UploadAssumption DEF Block, Job
<1> QED
    BY <1>2, <1>3, <1>4, <1>5

\* The attempts a pool may reach, for the lane of one PUT.
LEMMA Limits ==
    ASSUME NEW n \in Nat \ {0}, NEW m \in Nat \ {0}, NEW k \in Nat \ {0},
           NEW transient \in BOOLEAN,
           n <= Greater(k, m), ~GivesUp(n, transient, k, m)
    PROVE  n + 1 <= Greater(k, m)
BY DEF Greater, GivesUp

\* A worker that enters the try block raises the count of senders by one,
\* one that leaves it lowers the count.
LEMMA SenderCounts ==
    ASSUME IsFiniteSet(Worker), NEW w \in Worker
    PROVE  /\ w \notin Putting =>
                Cardinality(Putting \cup {w}) = Cardinality(Putting) + 1
           /\ w \in Putting =>
                Cardinality(Putting \ {w}) = Cardinality(Putting) - 1
           /\ Cardinality(Putting) \in Nat
           /\ w \in Putting => Cardinality(Putting) > 0
<1>1. IsFiniteSet(Putting)
    BY FS_Subset DEF Putting
<1>2. Cardinality(Putting) \in Nat
    BY <1>1, FS_CardinalityType
<1>3. w \notin Putting =>
        Cardinality(Putting \cup {w}) = Cardinality(Putting) + 1
    BY <1>1, FS_AddElement
<1>4. w \in Putting =>
        Cardinality(Putting \ {w}) = Cardinality(Putting) - 1
    BY <1>1, FS_RemoveElement
<1>5. w \in Putting => Cardinality(Putting) > 0
    BY <1>1, <1>2, FS_EmptySet
<1> QED
    BY <1>2, <1>3, <1>4, <1>5

-----------------------------------------------------------------------------
(* Types.                                                                  *)

PrimaryLane ==
    LaneState(Greater(PutMaxAttempts, PutTransientMaxAttempts), Block,
              {"off", "poll", "slot", "returned", "failed"})

ReplicaLane ==
    LaneState(Greater(ReplicaPutMaxAttempts, DefaultTransientMaxAttempts), Job,
              {"off", "next", "returned"})

\* What the state of a lane says of its fields.
LEMMA LaneFields ==
    ASSUME NEW n \in Nat \ {0}, NEW Sent, NEW Pc, "put" \notin Pc,
           NEW l \in LaneState(n, Sent, Pc)
    PROVE  /\ l = [pc |-> l.pc, item |-> l.item, attempt |-> l.attempt]
           /\ l.pc \in Pc \cup {"put"}
           /\ l.pc = "put" <=> l.pc \notin Pc
           /\ l.pc = "put" => l.item \in Sent /\ l.attempt \in 1 .. n
           /\ l.pc # "put" => l.item = 0 /\ l.attempt = 0
BY DEF LaneState

\* The limits of both pools are positive.
LEMMA LimitsArePositive ==
    /\ Greater(PutMaxAttempts, PutTransientMaxAttempts) \in Nat \ {0}
    /\ Greater(ReplicaPutMaxAttempts, DefaultTransientMaxAttempts)
            \in Nat \ {0}
BY UploadAssumption DEF Greater

\* The states a lane is put into are of its type.
LEMMA NewLanes ==
    /\ \A pc \in {"off", "poll", "slot", "returned", "failed"} :
            At(pc) \in PrimaryLane
    /\ \A pc \in {"off", "next", "returned"} : At(pc) \in ReplicaLane
    /\ \A b \in Block : Sending(b, 1) \in PrimaryLane
    /\ \A j \in Job : Sending(j, 1) \in ReplicaLane
    /\ \A l \in PrimaryLane, transient \in BOOLEAN :
            l.pc = "put" /\ ~GivesUp(l.attempt, transient, PutMaxAttempts,
                                     PutTransientMaxAttempts) =>
                [l EXCEPT !.attempt = @ + 1] \in PrimaryLane
    /\ \A l \in ReplicaLane, transient \in BOOLEAN :
            l.pc = "put" /\ ~GivesUp(l.attempt, transient,
                                     ReplicaPutMaxAttempts,
                                     DefaultTransientMaxAttempts) =>
                [l EXCEPT !.attempt = @ + 1] \in ReplicaLane
<1> USE LimitsArePositive
<1>1. /\ \A pc \in {"off", "poll", "slot", "returned", "failed"} :
            At(pc) \in PrimaryLane
      /\ \A pc \in {"off", "next", "returned"} : At(pc) \in ReplicaLane
    BY DEF PrimaryLane, ReplicaLane, LaneState, At
<1>2. /\ \A b \in Block : Sending(b, 1) \in PrimaryLane
      /\ \A j \in Job : Sending(j, 1) \in ReplicaLane
    BY DEF PrimaryLane, ReplicaLane, LaneState, Sending
<1>3. ASSUME NEW k \in Nat \ {0}, NEW m \in Nat \ {0}, NEW Sent, NEW Pc,
             "put" \notin Pc, NEW l \in LaneState(Greater(k, m), Sent, Pc),
             NEW transient \in BOOLEAN,
             l.pc = "put", ~GivesUp(l.attempt, transient, k, m)
      PROVE  [l EXCEPT !.attempt = @ + 1] \in LaneState(Greater(k, m), Sent, Pc)
  <2>1. Greater(k, m) \in Nat \ {0}
    BY DEF Greater
  <2>2. /\ l = [pc |-> l.pc, item |-> l.item, attempt |-> l.attempt]
        /\ l.item \in Sent /\ l.attempt \in 1 .. Greater(k, m)
    BY <1>3, <2>1, LaneFields
  <2>3. l.attempt + 1 \in 1 .. Greater(k, m)
    BY <1>3, <2>1, <2>2, Limits
  <2>4. [l EXCEPT !.attempt = @ + 1]
            = [pc |-> "put", item |-> l.item, attempt |-> l.attempt + 1]
    BY <1>3, <2>2
  <2> QED
    BY <2>2, <2>3, <2>4 DEF LaneState
<1>4. \A l \in PrimaryLane, transient \in BOOLEAN :
            l.pc = "put" /\ ~GivesUp(l.attempt, transient, PutMaxAttempts,
                                     PutTransientMaxAttempts) =>
                [l EXCEPT !.attempt = @ + 1] \in PrimaryLane
    BY <1>3, UploadAssumption DEF PrimaryLane
<1>5. \A l \in ReplicaLane, transient \in BOOLEAN :
            l.pc = "put" /\ ~GivesUp(l.attempt, transient,
                                     ReplicaPutMaxAttempts,
                                     DefaultTransientMaxAttempts) =>
                [l EXCEPT !.attempt = @ + 1] \in ReplicaLane
    BY <1>3, UploadAssumption DEF ReplicaLane
<1> QED
    BY <1>1, <1>2, <1>4, <1>5

\* Every step keeps the types.  inFlight - 1 stays a natural number because
\* inFlight counts the workers that are sending.
LEMMA TypeStep ==
    ASSUME TypeOK, InFlightCounts, [Next]_vars
    PROVE  TypeOK'
<1>1. /\ lane \in [Worker -> PrimaryLane]
      /\ rlane \in [ReplicaWorker -> ReplicaLane]
    BY DEF TypeOK, PrimaryLane, ReplicaLane
<1>2. /\ \A w \in Worker : lane[w].pc = "put" => lane[w].item \in Block
      /\ \A r \in ReplicaWorker : rlane[r].pc = "put" => rlane[r].item \in Job
    BY <1>1, LaneFields, LimitsArePositive DEF PrimaryLane, ReplicaLane
<1> DEFINE NextTyped ==
            /\ phase' \in {"reserving", "stripe", "failed", "replica", "done",
                           "syncFailed"}
            /\ next' \in 1 .. Total + 1
            /\ nextJob' \in Total + 1 .. Total + Jobs + 1
            /\ completed' \in Nat
            /\ inFlight' \in Nat
            /\ lane' \in [Worker -> PrimaryLane]
            /\ rlane' \in [ReplicaWorker -> ReplicaLane]
            /\ failures' \subseteq Job
            /\ abandoned' \subseteq Job
            /\ held' \subseteq Item
            /\ late' \subseteq Item
            /\ acked' \subseteq Item
<1>3. SUFFICES NextTyped
    BY DEF TypeOK, PrimaryLane, ReplicaLane
<1> USE UploadAssumption DEF TypeOK, queues, relays
<1>4. CASE Reserve \/ ReserveFails
    BY <1>1, <1>4, NewLanes DEF Reserve, ReserveFails
<1>5. ASSUME NEW w \in Worker, Poll(w)
      PROVE  NextTyped
    BY <1>1, <1>5, NewLanes DEF Poll
<1>6. ASSUME NEW w \in Worker, Claim(w)
      PROVE  NextTyped
  <2>1. CASE next > Total
    BY <1>1, <1>6, <2>1, NewLanes DEF Claim
  <2>2. CASE ~(next > Total)
    <3>1. next \in Block /\ next + 1 \in 1 .. Total + 1
      BY <2>2 DEF Block
    <3> QED
      BY <1>1, <1>6, <2>2, <3>1, NewLanes DEF Claim
  <2> QED
    BY <2>1, <2>2
<1>7. ASSUME NEW w \in Worker, PutOk(w)
      PROVE  NextTyped
  <2>1. inFlight > 0
    BY <1>7, Pools, SenderCounts DEF PutOk, Putting, InFlightCounts
  <2> QED
    BY <1>1, <1>2, <1>7, <2>1, NewLanes DEF PutOk, Stores, Item
<1>8. ASSUME NEW w \in Worker, NEW transient \in BOOLEAN,
             PutRetried(w, transient)
      PROVE  NextTyped
  <2>1. [lane[w] EXCEPT !.attempt = @ + 1] \in PrimaryLane
    BY <1>1, <1>8, NewLanes DEF PutRetried
  <2>2. lane' = [lane EXCEPT ![w] = [lane[w] EXCEPT !.attempt = @ + 1]]
    BY <1>8 DEF PutRetried
  <2> QED
    BY <1>1, <1>2, <1>8, <2>1, <2>2 DEF PutRetried, Misses, Item
<1>9. ASSUME NEW w \in Worker, NEW transient \in BOOLEAN,
             PutExhausted(w, transient)
      PROVE  NextTyped
  <2>1. inFlight > 0
    BY <1>9, Pools, SenderCounts DEF PutExhausted, Putting, InFlightCounts
  <2> QED
    BY <1>1, <1>2, <1>9, <2>1, NewLanes DEF PutExhausted, Misses, Item
<1>10. CASE StripeDone
    BY <1>1, <1>10, NewLanes DEF StripeDone
<1>11. ASSUME NEW r \in ReplicaWorker, ReplicaClaim(r)
       PROVE  NextTyped
  <2>1. CASE nextJob > Total + Jobs
    BY <1>1, <1>11, <2>1, NewLanes DEF ReplicaClaim
  <2>2. CASE ~(nextJob > Total + Jobs)
    <3>1. nextJob \in Job /\ nextJob + 1 \in Total + 1 .. Total + Jobs + 1
      BY <2>2 DEF Job
    <3> QED
      BY <1>1, <1>11, <2>2, <3>1, NewLanes DEF ReplicaClaim
  <2> QED
    BY <2>1, <2>2
<1>12. ASSUME NEW r \in ReplicaWorker, ReplicaOk(r)
       PROVE  NextTyped
    BY <1>1, <1>2, <1>12, NewLanes DEF ReplicaOk, Stores, Item
<1>13. ASSUME NEW r \in ReplicaWorker, NEW transient \in BOOLEAN,
              ReplicaRetried(r, transient)
       PROVE  NextTyped
  <2>1. [rlane[r] EXCEPT !.attempt = @ + 1] \in ReplicaLane
    BY <1>1, <1>13, NewLanes DEF ReplicaRetried
  <2>2. rlane' = [rlane EXCEPT ![r] = [rlane[r] EXCEPT !.attempt = @ + 1]]
    BY <1>13 DEF ReplicaRetried
  <2> QED
    BY <1>1, <1>2, <1>13, <2>1, <2>2 DEF ReplicaRetried, Misses, Item
<1>14. ASSUME NEW r \in ReplicaWorker, NEW transient \in BOOLEAN,
              ReplicaExhausted(r, transient)
       PROVE  NextTyped
    BY <1>1, <1>2, <1>14, NewLanes DEF ReplicaExhausted, Misses, Item
<1>15. CASE ReplicasDone \/ AbandonFails
    BY <1>1, <1>15 DEF ReplicasDone, AbandonFails
<1>16. ASSUME NEW i \in Item, LateAttempt(i)
       PROVE  NextTyped
    BY <1>1, <1>16 DEF LateAttempt
<1>17. CASE UNCHANGED vars
    BY <1>1, <1>17 DEF vars
<1> QED
    BY <1>4, <1>5, <1>6, <1>7, <1>8, <1>9, <1>10, <1>11, <1>12, <1>13, <1>14,
       <1>15, <1>16, <1>17 DEF Next, PutAnswered, ReplicaAnswered

-----------------------------------------------------------------------------
(* The primary pool.                                                       *)

\* What the steps of the replica pool, of the relays and of the abandon
\* request may do leaves the invariant of the primary pool intact.
LEMMA PrimaryUndisturbed ==
    ASSUME PrimaryInv, TypeOK',
           UNCHANGED <<next, completed, inFlight, lane>>,
           acked \subseteq acked', acked' \ acked \subseteq Job,
           acked' \subseteq held', held \subseteq held',
           \/ phase' = phase
           \/ {phase, phase'} \subseteq {"replica", "done", "syncFailed"}
    PROVE  PrimaryInv'
<1> USE DEF PrimaryInv
<1>1. Putting' = Putting
    BY DEF Putting
<1>2. \A b \in Block : b \in acked' <=> b \in acked
    BY Pools
<1>3. \A w \in Putting : lane[w].item \in Block
    BY LaneFields, LimitsArePositive DEF TypeOK, Putting
<1>4. InFlightCounts' /\ NotCalledYet'
    BY <1>1 DEF InFlightCounts, NotCalledYet
<1>5. ClaimedIsTracked'
    BY <1>1, <1>2 DEF ClaimedIsTracked
<1>6. UnclaimedIsUntouched'
    BY <1>1, <1>2 DEF UnclaimedIsUntouched
<1>7. ReturnedAtEnd'
    BY DEF ReturnedAtEnd
<1>8. EachBlockHasOneSender'
    BY <1>1, <1>2, <1>3 DEF EachBlockHasOneSender
<1>9. StripeBeforeReplica'
    BY DEF StripeBeforeReplica
<1> QED
    BY <1>4, <1>5, <1>6, <1>7, <1>8, <1>9

\* Claiming a block makes its worker the only one to send it.
LEMMA ClaimStep ==
    ASSUME PrimaryInv, TypeOK', NEW w \in Worker, Claim(w)
    PROVE  PrimaryInv'
<1> USE DEF PrimaryInv, relays
<1>1. lane \in [Worker -> PrimaryLane] /\ w \notin Putting
    BY DEF TypeOK, PrimaryLane, Claim, Putting
<1>2. CASE next > Total
  <2>1. /\ lane' = [lane EXCEPT ![w] = At("returned")]
        /\ UNCHANGED <<phase, next, inFlight, held, acked>>
    BY <1>2 DEF Claim
  <2>2. Putting' = Putting /\ \A v \in Putting : lane'[v] = lane[v]
    BY <1>1, <2>1 DEF Putting, At
  <2>3. InFlightCounts'
    BY <2>1, <2>2 DEF InFlightCounts
  <2>4. ClaimedIsTracked'
    BY <2>1, <2>2 DEF ClaimedIsTracked
  <2>5. UnclaimedIsUntouched'
    BY <2>1, <2>2 DEF UnclaimedIsUntouched
  <2>6. ReturnedAtEnd'
    BY <1>1, <1>2, <2>1 DEF ReturnedAtEnd
  <2>7. EachBlockHasOneSender'
    BY <2>1, <2>2 DEF EachBlockHasOneSender
  <2>8. StripeBeforeReplica' /\ NotCalledYet'
    BY <2>1 DEF StripeBeforeReplica, NotCalledYet, Claim
  <2> QED
    BY <2>1, <2>3, <2>4, <2>5, <2>6, <2>7, <2>8
<1>3. CASE ~(next > Total)
  <2>1. /\ lane' = [lane EXCEPT ![w] = Sending(next, 1)]
        /\ next' = next + 1
        /\ inFlight' = inFlight + 1
        /\ UNCHANGED <<phase, held, acked>>
    BY <1>3 DEF Claim
  <2>2. /\ Putting' = Putting \cup {w}
        /\ \A v \in Putting : lane'[v] = lane[v]
        /\ lane'[w].item = next
    BY <1>1, <2>1 DEF Putting, Sending
  <2>3. next \in Nat /\ Block \subseteq Nat
    BY Pools DEF TypeOK
  <2>4. InFlightCounts'
    BY <1>1, <2>1, <2>2, Pools, SenderCounts DEF InFlightCounts
  <2>5. ClaimedIsTracked'
    BY <2>1, <2>2, <2>3 DEF ClaimedIsTracked
  <2>6. UnclaimedIsUntouched'
    <3>1. \A v \in Putting : lane[v].item \in Nat /\ lane[v].item < next
      BY <2>3, LaneFields, LimitsArePositive, Pools
         DEF TypeOK, Putting, UnclaimedIsUntouched
    <3> QED
      BY <2>1, <2>2, <2>3, <3>1 DEF UnclaimedIsUntouched
  <2>7. ReturnedAtEnd'
    BY <1>1, <1>3, <2>1 DEF ReturnedAtEnd, Sending
  <2>8. EachBlockHasOneSender'
    <3>1. \A v \in Putting : lane[v].item # next
      BY <2>3, LaneFields, LimitsArePositive, Pools
         DEF TypeOK, Putting, UnclaimedIsUntouched
    <3>2. next \in Block
      BY <1>3, UploadAssumption DEF TypeOK, Block
    <3>3. next \notin acked
      BY <2>3, <3>2 DEF UnclaimedIsUntouched
    <3> QED
      BY <2>1, <2>2, <3>1, <3>3 DEF EachBlockHasOneSender
  <2>9. StripeBeforeReplica' /\ NotCalledYet'
    BY <2>1 DEF StripeBeforeReplica, NotCalledYet, Claim
  <2> QED
    BY <2>1, <2>4, <2>5, <2>6, <2>7, <2>8, <2>9
<1> QED
    BY <1>2, <1>3

\* An acknowledged block leaves its worker and enters acked in one step.
LEMMA PutOkStep ==
    ASSUME PrimaryInv, TypeOK', NEW w \in Worker, PutOk(w)
    PROVE  PrimaryInv'
<1> USE DEF PrimaryInv, queues
<1>1. /\ lane \in [Worker -> PrimaryLane]
      /\ w \in Putting
      /\ \A v \in Putting : lane[v].item \in Block
    BY LaneFields, LimitsArePositive DEF TypeOK, PrimaryLane, PutOk, Putting
<1>2. /\ Putting' = Putting \ {w}
      /\ \A v \in Putting' : lane'[v] = lane[v]
    BY <1>1 DEF Putting, PutOk, At
<1>3. /\ acked' = acked \cup {lane[w].item}
      /\ held' = held \cup {lane[w].item}
      /\ inFlight' = inFlight - 1
      /\ UNCHANGED <<phase, next>>
    BY DEF PutOk, Stores
<1>4. InFlightCounts'
    BY <1>1, <1>2, <1>3, Pools, SenderCounts DEF InFlightCounts
<1>5. ClaimedIsTracked'
    BY <1>1, <1>2, <1>3 DEF ClaimedIsTracked
<1>6. UnclaimedIsUntouched'
    BY <1>1, <1>2, <1>3 DEF UnclaimedIsUntouched
<1>7. ReturnedAtEnd'
    BY <1>1, <1>3 DEF ReturnedAtEnd, PutOk, At
<1>8. EachBlockHasOneSender'
    BY <1>1, <1>2, <1>3 DEF EachBlockHasOneSender
<1>9. StripeBeforeReplica' /\ NotCalledYet'
    BY <1>3 DEF StripeBeforeReplica, NotCalledYet, PutOk
<1> QED
    BY <1>3, <1>4, <1>5, <1>6, <1>7, <1>8, <1>9

\* A failed attempt keeps the block with its worker, or fails the session.
LEMMA PutFailsStep ==
    ASSUME PrimaryInv, TypeOK', NEW w \in Worker, NEW transient \in BOOLEAN,
           PutRetried(w, transient) \/ PutExhausted(w, transient)
    PROVE  PrimaryInv'
<1> USE DEF PrimaryInv, queues
<1>1. lane \in [Worker -> PrimaryLane] /\ w \in Putting
    BY DEF TypeOK, PrimaryLane, PutRetried, PutExhausted, Putting
<1>2. UNCHANGED <<held, acked, next>>
    BY DEF PutRetried, PutExhausted, Misses
<1>3. CASE PutRetried(w, transient)
  <2>1. /\ UNCHANGED <<phase, inFlight>>
        /\ lane' = [lane EXCEPT ![w].attempt = @ + 1]
    BY <1>3 DEF PutRetried
  <2>2. lane[w] = [pc |-> lane[w].pc, item |-> lane[w].item,
                   attempt |-> lane[w].attempt]
    BY <1>1, LaneFields, LimitsArePositive DEF PrimaryLane
  <2>3. \A v \in Worker : /\ lane'[v].pc = lane[v].pc
                          /\ lane'[v].item = lane[v].item
    BY <1>1, <2>1, <2>2
  <2>4. Putting' = Putting
    BY <2>3 DEF Putting
  <2>5. \A v \in Putting : lane'[v].item = lane[v].item
    BY <2>3 DEF Putting
  <2>6. InFlightCounts' /\ StripeBeforeReplica' /\ NotCalledYet'
    BY <1>1, <1>2, <2>1, <2>4
       DEF InFlightCounts, StripeBeforeReplica, NotCalledYet, Putting
  <2>7. ClaimedIsTracked'
    BY <1>2, <2>1, <2>4, <2>5 DEF ClaimedIsTracked
  <2>8. UnclaimedIsUntouched'
    BY <1>2, <2>4, <2>5 DEF UnclaimedIsUntouched
  <2>9. ReturnedAtEnd'
    BY <1>2, <2>3 DEF ReturnedAtEnd
  <2>10. EachBlockHasOneSender'
    BY <1>2, <2>4, <2>5 DEF EachBlockHasOneSender
  <2> QED
    BY <1>2, <2>6, <2>7, <2>8, <2>9, <2>10
<1>4. CASE PutExhausted(w, transient)
  <2>1. /\ phase' = "failed"
        /\ inFlight' = inFlight - 1
        /\ lane' = [lane EXCEPT ![w] = At("failed")]
    BY <1>4 DEF PutExhausted
  <2>2. /\ Putting' = Putting \ {w}
        /\ \A v \in Putting' : lane'[v] = lane[v]
    BY <1>1, <2>1 DEF Putting, At
  <2>3. InFlightCounts'
    BY <1>1, <2>1, <2>2, Pools, SenderCounts DEF InFlightCounts
  <2>4. ClaimedIsTracked' /\ StripeBeforeReplica' /\ NotCalledYet'
    BY <2>1 DEF ClaimedIsTracked, StripeBeforeReplica, NotCalledYet
  <2>5. UnclaimedIsUntouched'
    BY <1>2, <2>2 DEF UnclaimedIsUntouched
  <2>6. ReturnedAtEnd'
    BY <1>1, <1>2, <2>1 DEF ReturnedAtEnd, At
  <2>7. EachBlockHasOneSender'
    BY <1>2, <2>2 DEF EachBlockHasOneSender
  <2> QED
    BY <1>2, <2>3, <2>4, <2>5, <2>6, <2>7
<1> QED
    BY <1>3, <1>4

\* Calling the workers, giving them a slot and leaving the primary phase
\* sends nothing and acknowledges nothing.
LEMMA PoolMovesStep ==
    ASSUME PrimaryInv, TypeOK',
           \/ Reserve \/ ReserveFails \/ StripeDone
           \/ \E w \in Worker : Poll(w)
    PROVE  PrimaryInv'
<1> USE DEF PrimaryInv, queues, relays
<1>1. lane \in [Worker -> PrimaryLane]
    BY DEF TypeOK, PrimaryLane
<1>2. UNCHANGED <<next, inFlight, held, acked>>
    BY DEF Reserve, ReserveFails, StripeDone, Poll
<1>3. CASE StripeDone
  <2>1. /\ phase = "stripe" /\ phase' \in {"done", "replica"}
        /\ UNCHANGED lane
        /\ \A w \in Worker : lane[w].pc = "returned"
    BY <1>3 DEF StripeDone, Returned
  <2>2. Putting = {} /\ Putting' = Putting
    BY <2>1 DEF Putting
  <2>3. next > Total
    BY <2>1, Pools DEF ReturnedAtEnd
  <2>4. Block \subseteq acked
    BY <2>1, <2>2, <2>3, UploadAssumption DEF ClaimedIsTracked, TypeOK, Block
  <2>5. InFlightCounts' /\ NotCalledYet'
    BY <1>2, <2>1, <2>2 DEF InFlightCounts, NotCalledYet
  <2>6. ClaimedIsTracked' /\ StripeBeforeReplica'
    BY <1>2, <2>4 DEF ClaimedIsTracked, StripeBeforeReplica
  <2>7. UnclaimedIsUntouched' /\ EachBlockHasOneSender'
    BY <1>2, <2>2 DEF UnclaimedIsUntouched, EachBlockHasOneSender
  <2>8. ReturnedAtEnd'
    BY <1>2, <2>1 DEF ReturnedAtEnd
  <2> QED
    BY <1>2, <2>5, <2>6, <2>7, <2>8
<1>4. ASSUME Reserve \/ ReserveFails \/ \E w \in Worker : Poll(w)
      PROVE  PrimaryInv'
  <2>1. /\ Putting' = Putting
        /\ \A v \in Putting : lane'[v] = lane[v]
        /\ \A v \in Worker : lane'[v].pc = "returned" => lane[v].pc = "returned"
    <3>1. CASE Reserve
      BY <3>1 DEF Reserve, NotCalledYet, Putting, At
    <3>2. CASE ReserveFails
      BY <3>2 DEF ReserveFails, Putting
    <3>3. ASSUME NEW w \in Worker, Poll(w)
          PROVE  <2>1
      BY <1>1, <3>3 DEF Poll, Putting, At
    <3> QED
      BY <1>4, <3>1, <3>2, <3>3
  <2>2. \/ phase' = phase /\ phase # "reserving"
        \/ phase = "reserving" /\ phase' \in {"stripe", "failed"}
    BY <1>4 DEF Reserve, ReserveFails, Poll, NotCalledYet
  <2>3. InFlightCounts' /\ NotCalledYet'
    BY <1>2, <2>1, <2>2 DEF InFlightCounts, NotCalledYet
  <2>4. ClaimedIsTracked' /\ StripeBeforeReplica'
    BY <1>2, <2>1, <2>2 DEF ClaimedIsTracked, StripeBeforeReplica
  <2>5. UnclaimedIsUntouched' /\ EachBlockHasOneSender'
    BY <1>2, <2>1 DEF UnclaimedIsUntouched, EachBlockHasOneSender
  <2>6. ReturnedAtEnd'
    BY <1>2, <2>1 DEF ReturnedAtEnd
  <2> QED
    BY <1>2, <2>3, <2>4, <2>5, <2>6
<1> QED
    BY <1>3, <1>4

\* Every step keeps the invariant of the primary pool.
LEMMA PrimaryStep ==
    ASSUME PrimaryInv, [Next]_vars
    PROVE  PrimaryInv'
<1> USE DEF PrimaryInv, queues, relays
<1>1. TypeOK'
    BY TypeStep
<1>2. \A r \in ReplicaWorker : rlane[r].pc = "put" => rlane[r].item \in Job
    BY LaneFields, LimitsArePositive DEF TypeOK
<1>3. CASE Reserve \/ ReserveFails \/ StripeDone \/ \E w \in Worker : Poll(w)
    BY <1>1, <1>3, PoolMovesStep
<1>4. ASSUME NEW w \in Worker, Claim(w) \/ PutAnswered(w)
      PROVE  PrimaryInv'
    BY <1>1, <1>4, ClaimStep, PutOkStep, PutFailsStep DEF PutAnswered
<1>5. ASSUME NEW r \in ReplicaWorker, ReplicaClaim(r) \/ ReplicaAnswered(r)
      PROVE  PrimaryInv'
  <2>1. /\ UNCHANGED <<phase, next, completed, inFlight, lane>>
        /\ acked \subseteq acked' /\ acked' \ acked \subseteq Job
        /\ acked' \subseteq held' /\ held \subseteq held'
    <3>1. CASE ReplicaClaim(r)
      BY <3>1 DEF ReplicaClaim
    <3>2. CASE ReplicaOk(r)
      BY <1>2, <3>2 DEF ReplicaOk, Stores
    <3>3. ASSUME NEW transient \in BOOLEAN,
                 ReplicaRetried(r, transient) \/ ReplicaExhausted(r, transient)
          PROVE  <2>1
      BY <3>3 DEF ReplicaRetried, ReplicaExhausted, Misses
    <3> QED
      BY <1>5, <3>1, <3>2, <3>3 DEF ReplicaAnswered
  <2> QED
    BY <1>1, <2>1, PrimaryUndisturbed
<1>6. CASE ReplicasDone \/ AbandonFails
    BY <1>1, <1>6, PrimaryUndisturbed DEF ReplicasDone, AbandonFails
<1>7. ASSUME NEW i \in Item, LateAttempt(i)
      PROVE  PrimaryInv'
    BY <1>1, <1>7, PrimaryUndisturbed DEF LateAttempt
<1>8. CASE UNCHANGED vars
    BY <1>1, <1>8, PrimaryUndisturbed DEF vars
<1> QED
    BY <1>3, <1>4, <1>5, <1>6, <1>7, <1>8 DEF Next

\* The invariant of the primary pool holds throughout a session.
LEMMA PrimaryInvariant == Spec => []PrimaryInv
<1>1. Init => PrimaryInv
  <2> SUFFICES ASSUME Init PROVE PrimaryInv
    OBVIOUS
  <2> USE UploadAssumption DEF Init
  <2>1. Putting = {}
    BY DEF Putting, At
  <2>2. TypeOK
    BY NewLanes DEF TypeOK, PrimaryLane, ReplicaLane
  <2>3. InFlightCounts
    BY <2>1, FS_EmptySet DEF InFlightCounts
  <2>4. /\ NotCalledYet /\ ClaimedIsTracked /\ UnclaimedIsUntouched
        /\ ReturnedAtEnd /\ EachBlockHasOneSender /\ StripeBeforeReplica
    BY <2>1 DEF NotCalledYet, ClaimedIsTracked, UnclaimedIsUntouched,
                ReturnedAtEnd, EachBlockHasOneSender, StripeBeforeReplica,
                At, Block
  <2> QED
    BY <2>2, <2>3, <2>4 DEF PrimaryInv
<1>2. PrimaryInv /\ [Next]_vars => PrimaryInv'
    BY PrimaryStep
<1> QED
    BY <1>1, <1>2, PTL DEF Spec

-----------------------------------------------------------------------------
(* The replica pool.                                                       *)

\* What the steps of the primary pool and of the relays may do leaves the
\* invariant of the replica pool intact.
LEMMA ReplicasUndisturbed ==
    ASSUME ReplicaInv, UNCHANGED <<nextJob, rlane, failures, abandoned>>,
           acked \subseteq acked', acked' \ acked \subseteq Block,
           failures \subseteq Job,
           \/ phase' = phase \/ phase' = "failed"
           \/ phase = "reserving" /\ phase' = "stripe",
           \A r \in ReplicaPutting : rlane[r].item \in Job
    PROVE  ReplicaInv'
<1> USE DEF ReplicaInv
<1>1. ReplicaPutting' = ReplicaPutting
    BY DEF ReplicaPutting
<1>2. \A j \in Job : j \in acked' <=> j \in acked
    BY Pools
<1>3. acked' \cap failures' = {}
    BY <1>2
<1>4. JobIsTracked' /\ UnclaimedJobIsUntouched'
    BY <1>1, <1>2 DEF JobIsTracked, UnclaimedJobIsUntouched
<1>5. EachJobHasOneSender'
    BY <1>1, <1>2 DEF EachJobHasOneSender
<1>6. ReplicaReturnedAtEnd' /\ PoolHasPhase'
    BY DEF ReplicaReturnedAtEnd, PoolHasPhase, ReplicaReturned
<1> QED
    BY <1>3, <1>4, <1>5, <1>6

\* Claiming a job makes its worker the only one to send it.
LEMMA ReplicaClaimStep ==
    ASSUME TypeOK, ReplicaInv, NEW r \in ReplicaWorker, ReplicaClaim(r)
    PROVE  ReplicaInv'
<1> USE DEF ReplicaInv
<1>1. /\ rlane \in [ReplicaWorker -> ReplicaLane]
      /\ r \notin ReplicaPutting
      /\ \A q \in ReplicaPutting : rlane[q].item \in Job
    BY LaneFields, LimitsArePositive
       DEF TypeOK, ReplicaLane, ReplicaClaim, ReplicaPutting
<1>2. UNCHANGED <<phase, failures, abandoned, acked>> /\ rlane[r].pc = "next"
    BY DEF ReplicaClaim, relays
<1>3. PoolHasPhase'
  <2>1. phase \notin {"reserving", "stripe", "done"}
    BY <1>2 DEF PoolHasPhase, ReplicaReturned
  <2> QED
    BY <1>2, <2>1 DEF PoolHasPhase
<1>4. CASE nextJob > Total + Jobs
  <2>1. rlane' = [rlane EXCEPT ![r] = At("returned")] /\ nextJob' = nextJob
    BY <1>4 DEF ReplicaClaim
  <2>2. /\ ReplicaPutting' = ReplicaPutting
        /\ \A q \in ReplicaPutting : rlane'[q] = rlane[q]
    BY <1>1, <2>1 DEF ReplicaPutting, At
  <2>3. JobIsTracked' /\ UnclaimedJobIsUntouched' /\ EachJobHasOneSender'
    BY <1>2, <2>1, <2>2
       DEF JobIsTracked, UnclaimedJobIsUntouched, EachJobHasOneSender
  <2>4. ReplicaReturnedAtEnd'
    BY <1>1, <1>4, <2>1 DEF ReplicaReturnedAtEnd
  <2> QED
    BY <1>2, <1>3, <2>3, <2>4
<1>5. CASE ~(nextJob > Total + Jobs)
  <2>1. rlane' = [rlane EXCEPT ![r] = Sending(nextJob, 1)]
        /\ nextJob' = nextJob + 1
    BY <1>5 DEF ReplicaClaim
  <2>2. /\ ReplicaPutting' = ReplicaPutting \cup {r}
        /\ \A q \in ReplicaPutting : rlane'[q] = rlane[q]
        /\ rlane'[r].item = nextJob
    BY <1>1, <2>1 DEF ReplicaPutting, Sending
  <2>3. nextJob \in Nat /\ Job \subseteq Nat /\ nextJob \in Job
    BY <1>5, UploadAssumption DEF TypeOK, Job
  <2>4. JobIsTracked'
    BY <1>2, <2>1, <2>2, <2>3 DEF JobIsTracked
  <2>5. UnclaimedJobIsUntouched'
    <3>1. \A q \in ReplicaPutting : rlane[q].item \in Nat
      BY <1>1, <2>3
    <3>2. \A q \in ReplicaPutting' : rlane'[q].item < nextJob'
      BY <2>1, <2>2, <2>3, <3>1 DEF UnclaimedJobIsUntouched
    <3>3. \A j \in Job : j \in (acked \cup failures)' => j < nextJob'
      BY <1>2, <2>1, <2>3 DEF UnclaimedJobIsUntouched
    <3> QED
      BY <3>2, <3>3 DEF UnclaimedJobIsUntouched
  <2>6. EachJobHasOneSender'
    <3>1. /\ \A q \in ReplicaPutting : rlane[q].item # nextJob
          /\ nextJob \notin acked \cup failures
      BY <1>1, <2>3 DEF UnclaimedJobIsUntouched
    <3> QED
      BY <1>2, <2>2, <3>1 DEF EachJobHasOneSender
  <2>7. ReplicaReturnedAtEnd'
    BY <1>1, <1>5, <2>1, <2>3, UploadAssumption
       DEF ReplicaReturnedAtEnd, Sending
  <2> QED
    BY <1>2, <1>3, <2>4, <2>5, <2>6, <2>7
<1> QED
    BY <1>4, <1>5

\* The end of a replica PUT moves its job to acked or to failures.
LEMMA ReplicaAnsweredStep ==
    ASSUME TypeOK, ReplicaInv, NEW r \in ReplicaWorker, ReplicaAnswered(r)
    PROVE  ReplicaInv'
<1> USE DEF ReplicaInv, queues
<1>1. /\ rlane \in [ReplicaWorker -> ReplicaLane]
      /\ r \in ReplicaPutting
      /\ \A q \in ReplicaPutting : rlane[q].item \in Job
    BY LaneFields, LimitsArePositive
       DEF TypeOK, ReplicaLane, ReplicaAnswered, ReplicaOk, ReplicaRetried,
           ReplicaExhausted, ReplicaPutting
<1>2. UNCHANGED <<phase, nextJob, abandoned>>
    BY DEF ReplicaAnswered, ReplicaOk, ReplicaRetried, ReplicaExhausted
<1>3. phase # "done" /\ ~(phase \in {"reserving", "stripe"})
    BY <1>1 DEF PoolHasPhase, ReplicaReturned, ReplicaPutting
<1>4. PoolHasPhase'
    BY <1>2, <1>3 DEF PoolHasPhase
<1>5. ASSUME NEW transient \in BOOLEAN, ReplicaRetried(r, transient)
      PROVE  ReplicaInv'
  <2>1. /\ rlane' = [rlane EXCEPT ![r].attempt = @ + 1]
        /\ UNCHANGED <<failures, acked>>
    BY <1>5 DEF ReplicaRetried, Misses
  <2>2. rlane[r] = [pc |-> rlane[r].pc, item |-> rlane[r].item,
                    attempt |-> rlane[r].attempt]
    BY <1>1, LaneFields, LimitsArePositive DEF ReplicaLane
  <2>3. \A q \in ReplicaWorker : /\ rlane'[q].pc = rlane[q].pc
                                 /\ rlane'[q].item = rlane[q].item
    BY <1>1, <2>1, <2>2
  <2>4. /\ ReplicaPutting' = ReplicaPutting
        /\ \A q \in ReplicaPutting : rlane'[q].item = rlane[q].item
    BY <2>3 DEF ReplicaPutting
  <2>5. JobIsTracked' /\ UnclaimedJobIsUntouched' /\ EachJobHasOneSender'
    BY <1>2, <2>1, <2>4
       DEF JobIsTracked, UnclaimedJobIsUntouched, EachJobHasOneSender
  <2>6. ReplicaReturnedAtEnd'
    BY <1>2, <2>3 DEF ReplicaReturnedAtEnd
  <2> QED
    BY <1>4, <2>1, <2>5, <2>6
<1>6. ASSUME \/ ReplicaOk(r)
             \/ \E transient \in BOOLEAN : ReplicaExhausted(r, transient)
      PROVE  ReplicaInv'
  <2>1. /\ rlane' = [rlane EXCEPT ![r] = At("next")]
        /\ \/ acked' = acked \cup {rlane[r].item} /\ failures' = failures
           \/ failures' = failures \cup {rlane[r].item} /\ acked' = acked
    BY <1>6 DEF ReplicaOk, Stores, ReplicaExhausted, Misses
  <2>2. /\ ReplicaPutting' = ReplicaPutting \ {r}
        /\ \A q \in ReplicaPutting' : rlane'[q] = rlane[q]
    BY <1>1, <2>1 DEF ReplicaPutting, At
  <2>3. rlane[r].item \notin acked \cup failures
    BY <1>1 DEF EachJobHasOneSender
  <2>4. acked' \cap failures' = {}
    BY <2>1, <2>3
  <2>5. JobIsTracked'
    BY <1>1, <1>2, <2>1, <2>2 DEF JobIsTracked
  <2>6. UnclaimedJobIsUntouched'
    BY <1>1, <1>2, <2>1, <2>2 DEF UnclaimedJobIsUntouched
  <2>7. EachJobHasOneSender'
    BY <1>1, <2>1, <2>2 DEF EachJobHasOneSender
  <2>8. ReplicaReturnedAtEnd'
    BY <1>1, <1>2, <2>1 DEF ReplicaReturnedAtEnd, At
  <2> QED
    BY <1>4, <2>4, <2>5, <2>6, <2>7, <2>8
<1> QED
    BY <1>5, <1>6 DEF ReplicaAnswered

\* Entering and leaving the phase of the replicas claims and ends no job.
LEMMA ReplicaPhaseStep ==
    ASSUME TypeOK, ReplicaInv, StripeDone \/ ReplicasDone \/ AbandonFails
    PROVE  ReplicaInv'
<1> USE DEF ReplicaInv, queues, relays
<1>1. UNCHANGED <<nextJob, failures, acked>>
    BY DEF StripeDone, ReplicasDone, AbandonFails
<1>2. CASE StripeDone
  <2>1. /\ ReplicaPutting = {}
        /\ ReplicaPutting' = {}
        /\ \A r \in ReplicaWorker : rlane'[r].pc = "next"
    BY <1>2 DEF StripeDone, PoolHasPhase, ReplicaPutting, At
  <2>2. JobIsTracked' /\ UnclaimedJobIsUntouched' /\ EachJobHasOneSender'
    BY <1>1, <2>1
       DEF JobIsTracked, UnclaimedJobIsUntouched, EachJobHasOneSender
  <2>3. ReplicaReturnedAtEnd'
    BY <2>1 DEF ReplicaReturnedAtEnd
  <2>4. Jobs = 0 => Job = {} /\ ReplicaWorker = {}
    BY UploadAssumption DEF Job, ReplicaWorker, Lesser
  <2>5. PoolHasPhase'
    BY <1>2, <2>4, UploadAssumption
       DEF StripeDone, PoolHasPhase, ReplicaReturned, TypeOK
  <2> QED
    BY <1>1, <2>2, <2>3, <2>5
<1>3. CASE ReplicasDone \/ AbandonFails
  <2>1. UNCHANGED rlane /\ ReplicaReturned
    BY <1>3 DEF ReplicasDone, AbandonFails
  <2>2. ReplicaPutting' = ReplicaPutting
    BY <2>1 DEF ReplicaPutting
  <2>3. JobIsTracked' /\ UnclaimedJobIsUntouched' /\ EachJobHasOneSender'
    BY <1>1, <2>1, <2>2
       DEF JobIsTracked, UnclaimedJobIsUntouched, EachJobHasOneSender
  <2>4. ReplicaReturnedAtEnd'
    BY <1>1, <2>1 DEF ReplicaReturnedAtEnd
  <2>5. PoolHasPhase'
    BY <1>1, <1>3, <2>1
       DEF PoolHasPhase, ReplicasDone, AbandonFails, ReplicaReturned
  <2> QED
    BY <1>1, <2>3, <2>4, <2>5
<1> QED
    BY <1>2, <1>3

\* Every step keeps the invariant of the replica pool.
LEMMA ReplicaStep ==
    ASSUME PrimaryInv, ReplicaInv, [Next]_vars
    PROVE  ReplicaInv'
<1> USE DEF queues, relays
<1>1. TypeOK
    BY DEF PrimaryInv
<1>2. /\ failures \subseteq Job
      /\ \A r \in ReplicaPutting : rlane[r].item \in Job
      /\ \A w \in Worker : lane[w].pc = "put" => lane[w].item \in Block
    BY <1>1, LaneFields, LimitsArePositive DEF TypeOK, ReplicaPutting
<1>3. CASE Reserve \/ ReserveFails
    BY <1>2, <1>3, ReplicasUndisturbed DEF Reserve, ReserveFails
<1>4. ASSUME NEW w \in Worker, Poll(w) \/ Claim(w)
      PROVE  ReplicaInv'
    BY <1>2, <1>4, ReplicasUndisturbed DEF Poll, Claim
<1>5. ASSUME NEW w \in Worker, PutAnswered(w)
      PROVE  ReplicaInv'
  <2>1. CASE PutOk(w)
    BY <1>2, <2>1, ReplicasUndisturbed DEF PutOk, Stores
  <2>2. ASSUME NEW transient \in BOOLEAN,
               PutRetried(w, transient) \/ PutExhausted(w, transient)
        PROVE  ReplicaInv'
    BY <1>2, <2>2, ReplicasUndisturbed
       DEF PutRetried, PutExhausted, Misses
  <2> QED
    BY <1>5, <2>1, <2>2 DEF PutAnswered
<1>6. CASE StripeDone \/ ReplicasDone \/ AbandonFails
    BY <1>1, <1>6, ReplicaPhaseStep
<1>7. ASSUME NEW r \in ReplicaWorker, ReplicaClaim(r) \/ ReplicaAnswered(r)
      PROVE  ReplicaInv'
    BY <1>1, <1>7, ReplicaClaimStep, ReplicaAnsweredStep
<1>8. ASSUME NEW i \in Item, LateAttempt(i)
      PROVE  ReplicaInv'
    BY <1>2, <1>8, ReplicasUndisturbed DEF LateAttempt
<1>9. CASE UNCHANGED vars
    BY <1>2, <1>9, ReplicasUndisturbed DEF vars
<1> QED
    BY <1>3, <1>4, <1>5, <1>6, <1>7, <1>8, <1>9 DEF Next

\* Both invariants hold throughout a session.
LEMMA UploadInvariant == Spec => []UploadInv
<1>1. Init => ReplicaInv
  <2> SUFFICES ASSUME Init PROVE ReplicaInv
    OBVIOUS
  <2>1. ReplicaPutting = {} /\ ReplicaReturnedAtEnd /\ PoolHasPhase
    BY DEF Init, ReplicaPutting, ReplicaReturnedAtEnd, PoolHasPhase, At
  <2>2. JobIsTracked /\ UnclaimedJobIsUntouched /\ EachJobHasOneSender
    BY <2>1, UploadAssumption
       DEF Init, JobIsTracked, UnclaimedJobIsUntouched, EachJobHasOneSender,
           Job
  <2> QED
    BY <2>1, <2>2 DEF Init, ReplicaInv
<1>2. PrimaryInv /\ ReplicaInv /\ [Next]_vars => ReplicaInv'
    BY ReplicaStep
<1> QED
    BY <1>1, <1>2, PrimaryInvariant, PTL DEF Spec, UploadInv

-----------------------------------------------------------------------------
(* Theorems.                                                               *)

\* The session's variables keep their types: in particular putWithRetry
\* never makes more attempts than the larger of its two limits.
THEOREM TypeCorrect == Spec => []TypeOK
BY PrimaryInvariant, PTL DEF PrimaryInv

\* uploadPrepared reaches the replicas, or reports success, only when every
\* block was acknowledged by its primary relay, for any number of workers.
THEOREM PrimariesComeFirst == Spec => []StripeBeforeReplica
BY PrimaryInvariant, PTL DEF PrimaryInv

\* The workers of uploadStripePrimaryBlocks share nextIndex without ever
\* sending a block twice at the same time or once more after its success.
THEOREM NoBlockIsSentTwice == Spec => []EachBlockHasOneSender
BY PrimaryInvariant, PTL DEF PrimaryInv

\* When replicaSync resolves, runAsyncReplicaReplication has settled every
\* job: acknowledged by its relay or abandoned at the registry.
THEOREM EveryReplicaIsSettled == Spec => []ReplicasAreSettled
<1>1. UploadInv => ReplicasAreSettled
  <2> SUFFICES ASSUME UploadInv, phase = "done"
               PROVE  /\ acked \cup abandoned = Item
                      /\ acked \cap abandoned = {}
    BY DEF ReplicasAreSettled
  <2> USE DEF UploadInv, PrimaryInv, ReplicaInv
  <2>1. abandoned = failures /\ ReplicaPutting = {} /\ ReplicaReturned
    BY DEF PoolHasPhase, ReplicaReturned, ReplicaPutting
  <2>2. Block \subseteq acked
    BY DEF StripeBeforeReplica
  <2>3. Job \subseteq acked \cup failures
    <3>1. CASE Jobs = 0
      BY <3>1, UploadAssumption DEF Job
    <3>2. CASE Jobs > 0
      <4>1. nextJob > Total + Jobs
        BY <2>1, <3>2, Pools DEF ReplicaReturnedAtEnd, ReplicaReturned
      <4>2. \A j \in Job : j < nextJob
        BY <4>1, UploadAssumption DEF Job, TypeOK
      <4> QED
        BY <2>1, <4>2 DEF JobIsTracked
    <3> QED
      BY <3>1, <3>2, UploadAssumption
  <2> QED
    BY <2>1, <2>2, <2>3 DEF TypeOK, Item
<1> QED
    BY <1>1, UploadInvariant, PTL
=============================================================================
