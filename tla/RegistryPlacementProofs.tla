---------------------- MODULE RegistryPlacementProofs ----------------------
(***************************************************************************)
(* Proofs about RegistryPlacement: its types, and that reservations which  *)
(* do not overlap keep one live primary per token, rows that agree, and    *)
(* every primary in its place until it expires or the operator cuts it.    *)
(***************************************************************************)
EXTENDS RegistryPlacement, TLAPS

\* The set of rows does not contain the absence of a row.
LEMMA RowFields ==
    ASSUME NEW row \in Row
    PROVE  /\ row.role \in Role /\ row.hash \in Hash /\ row.ttl \in 0..MaxTtl
           /\ row.ttl \in Nat
BY PlacementAssumption DEF Row

\* A tick keeps a row a row.
LEMMA OlderIsRow ==
    ASSUME NEW row \in Row \cup {None}
    PROVE  Older(row) \in Row \cup {None}
<1>1. CASE Live(row)
  <2>1. row \in Row /\ row.ttl \in 0..MaxTtl /\ row.ttl > 0
    BY <1>1, RowFields DEF Live
  <2>2. row.ttl - 1 \in 0..MaxTtl
    BY <2>1, PlacementAssumption
  <2>3. [row EXCEPT !.ttl = row.ttl - 1] \in Row
    BY <2>1, <2>2 DEF Row
  <2>4. QED
    BY <1>1, <2>3 DEF Older
<1>2. CASE ~Live(row)
  BY <1>2 DEF Older
<1>3. QED
  BY <1>1, <1>2

\* Every variable holds a value of its kind in every reachable state.
THEOREM TypeCorrect == Spec => []TypeOK
<1>0. ReserveIdle \in ReserveState /\ ResolveIdle \in ResolveState
  BY PlacementAssumption DEF ReserveIdle, ReserveState, ResolveIdle,
     ResolveState, NoRows, Nothing
<1>1. Init => TypeOK
  BY <1>0 DEF Init, TypeOK, ReserveIdle, ResolveIdle, NoRows
<1>2. TypeOK /\ [Next]_vars => TypeOK'
  <2> SUFFICES ASSUME TypeOK, [Next]_vars PROVE TypeOK'
    OBVIOUS
  <2> USE DEF TypeOK
  <2>p. PurgeExpired => placements' \in [Token -> [Relay -> Row \cup {None}]]
    BY DEF PurgeExpired
  <2>i. Wanted(ReserveIdle.at) = {}
    BY DEF ReserveIdle, Nothing, Wanted
  <2>1. ASSUME NEW c \in Uploader, NEW want \in Request, ReservePurge(c, want)
        PROVE  TypeOK'
    <3>1. [ReserveIdle EXCEPT !.pc = "check", !.want = want,
                              !.todo = Wanted(want)] \in ReserveState
      BY <1>0 DEF Request, Wanted, ReserveState
    <3>2. Wanted([ReserveIdle EXCEPT !.pc = "check", !.want = want,
                                     !.todo = Wanted(want)].at) = {}
      BY DEF ReserveIdle, Nothing, Wanted
    <3>3. QED
      BY <2>1, <2>p, <3>1, <3>2 DEF ReservePurge
  <2>2. ASSUME NEW c \in Uploader, NEW t \in Token, ReserveCheck(c, t)
        PROVE  TypeOK'
    <3>1. PICK row : reserve' = [reserve EXCEPT ![c] = CheckedNext(c, t, Live(row))]
      BY <2>2 DEF ReserveCheck
    <3>2. Live(row) \in BOOLEAN
      BY DEF Live
    <3>3. reserve[c] \in ReserveState
      OBVIOUS
    <3>4. CheckedNext(c, t, Live(row)) \in ReserveState
      BY <1>0, <3>2, <3>3 DEF CheckedNext, ReserveState
    <3>5. \/ Wanted(CheckedNext(c, t, Live(row)).at) = {}
          \/ /\ CheckedNext(c, t, Live(row)).at = reserve[c].at
             /\ CheckedNext(c, t, Live(row)).want = reserve[c].want
      BY <3>3 DEF CheckedNext, ReserveState, ReserveIdle, Nothing, Wanted
    <3>6. QED
      BY <2>2, <3>1, <3>4, <3>5 DEF ReserveCheck
  <2>3. ASSUME NEW c \in Uploader, ReservePlan(c)
        PROVE  TypeOK'
    <3>1. CASE reserve' = [reserve EXCEPT ![c] = ReserveIdle]
      BY <2>3, <3>1, <1>0, <2>i DEF ReservePlan
    <3>2. ASSUME NEW at \in [Token -> Spot \cup {None}], NEW ttl \in 1..MaxTtl,
                 Wanted(at) \subseteq Wanted(reserve[c].want),
                 reserve' = [reserve EXCEPT ![c] =
                               [@ EXCEPT !.pc = "commit", !.at = at, !.ttl = ttl]]
          PROVE  TypeOK'
      <4>1. ttl \in 0..MaxTtl /\ reserve[c] \in ReserveState
        BY PlacementAssumption
      <4>2. [reserve[c] EXCEPT !.pc = "commit", !.at = at, !.ttl = ttl]
               \in ReserveState
        BY <4>1 DEF ReserveState
      <4> DEFINE new == [reserve[c] EXCEPT !.pc = "commit", !.at = at, !.ttl = ttl]
      <4>c. new.at = at
        BY <4>1, SMTT(30) DEF ReserveState
      <4>d. new.want = reserve[c].want
        BY <4>1, SMTT(30) DEF ReserveState
      <4>3. /\ [reserve[c] EXCEPT !.pc = "commit", !.at = at, !.ttl = ttl].at = at
            /\ [reserve[c] EXCEPT !.pc = "commit", !.at = at, !.ttl = ttl].want
                  = reserve[c].want
        BY <4>c, <4>d
      <4>4. QED
        BY <2>3, <3>2, <4>2, <4>3 DEF ReservePlan
    <3>3. ASSUME NEW healthy \in Healthy,
                 NEW at \in [Token -> Spot \cup {None}],
                 \A t \in Token :
                   IF reserve[c].want[t] = None THEN at[t] = None
                   ELSE /\ at[t] # None
                        /\ at[t].primary \in healthy
                        /\ at[t].replicas \subseteq healthy \ {at[t].primary}
          PROVE  Wanted(at) \subseteq Wanted(reserve[c].want)
      BY <3>3 DEF Wanted
    <3>4. \/ reserve' = [reserve EXCEPT ![c] = ReserveIdle]
          \/ \E at \in [Token -> Spot \cup {None}], ttl \in 1..MaxTtl :
               /\ Wanted(at) \subseteq Wanted(reserve[c].want)
               /\ reserve' = [reserve EXCEPT ![c] =
                                [@ EXCEPT !.pc = "commit", !.at = at,
                                          !.ttl = ttl]]
      BY <2>3, <3>3, ZenonT(30) DEF ReservePlan
    <3>5. QED
      BY <3>1, <3>2, <3>4
  <2>4. ASSUME NEW c \in Uploader, ReserveCommit(c)
        PROVE  TypeOK'
    <3>1. /\ reserve[c].ttl \in 0..MaxTtl
          /\ \A t \in Token : reserve[c].want[t] \in Hash \cup {None}
      BY DEF ReserveState
    <3>2. ASSUME NEW t \in Token, NEW r \in Relay
          PROVE  PlannedRow(c, t, r) \in Row \cup {None}
      <4>1. reserve[c].at[t] # None => reserve[c].want[t] \in Hash
        BY <3>1 DEF Wanted
      <4>2. QED
        BY <3>1, <4>1 DEF PlannedRow, Row, Role
    <3>3. QED
      BY <2>4, <1>0, <2>i, <3>2 DEF ReserveCommit
  <2>5. ASSUME NEW d \in Downloader, NEW t \in Token, ResolvePurge(d, t)
        PROVE  TypeOK'
    <3>1. [ResolveIdle EXCEPT !.pc = "select", !.token = t] \in ResolveState
      BY <1>0 DEF ResolveState
    <3>2. [ResolveIdle EXCEPT !.pc = "select", !.token = t].token = t
      BY DEF ResolveIdle
    <3>3. QED
      BY <2>5, <2>p, <3>1, <3>2 DEF ResolvePurge
  <2>6. ASSUME NEW d \in Downloader, ResolveSelect(d) \/ ResolveAnswer(d)
        PROVE  TypeOK'
    <3>1. CASE resolve' = [resolve EXCEPT ![d] = ResolveIdle]
      <4>1. ResolveIdle.pc = "idle"
        BY DEF ResolveIdle
      <4>2. QED
        BY <2>6, <3>1, <4>1, <1>0 DEF ResolveSelect, ResolveAnswer
    <3>2. CASE /\ resolve[d].pc = "select"
               /\ resolve' = [resolve EXCEPT ![d] =
                     [@ EXCEPT !.pc = "answer",
                               !.seen = placements[resolve[d].token]]]
      <4>1. resolve[d] \in ResolveState /\ resolve[d].token \in Token
        BY <3>2
      <4>2. [resolve[d] EXCEPT !.pc = "answer",
                               !.seen = placements[resolve[d].token]]
              \in ResolveState
        BY <4>1 DEF ResolveState
      <4>3. [resolve[d] EXCEPT !.pc = "answer",
               !.seen = placements[resolve[d].token]].token = resolve[d].token
        BY <4>1 DEF ResolveState
      <4>4. QED
        BY <2>6, <3>2, <4>1, <4>2, <4>3 DEF ResolveSelect, ResolveAnswer
    <3>3. QED
      BY <2>6, <3>1, <3>2 DEF ResolveSelect, ResolveAnswer
  <2>7. ASSUME NEW t \in Token, NEW R \in SUBSET Relay, AbandonReplicas(t, R)
        PROVE  TypeOK'
    BY <2>7 DEF AbandonReplicas
  <2>8. ASSUME NEW gone, Cut(gone)
        PROVE  TypeOK'
    BY <2>8 DEF Cut
  <2>9. CASE Tick
    <3>1. placements' \in [Token -> [Relay -> Row \cup {None}]]
      BY <2>9, OlderIsRow DEF Tick
    <3>2. ASSUME NEW d \in Downloader
          PROVE  resolve'[d] \in ResolveState /\ resolve'[d].pc = resolve[d].pc
                 /\ resolve'[d].token = resolve[d].token
      <4>1. [r \in Relay |-> Older(resolve[d].seen[r])] \in [Relay -> Row \cup {None}]
        BY OlderIsRow DEF ResolveState
      <4>2. QED
        BY <2>9, <4>1 DEF Tick, ResolveState
    <3>3. ASSUME NEW c \in Uploader
          PROVE  reserve'[c] \in ReserveState /\ reserve'[c].at = reserve[c].at
                 /\ reserve'[c].want = reserve[c].want
      <4>1. reserve[c] \in ReserveState /\ reserve[c].ttl \in 0..MaxTtl
        BY DEF ReserveState
      <4>2. (IF reserve[c].ttl > 0 THEN reserve[c].ttl - 1 ELSE 0) \in 0..MaxTtl
        BY <4>1, PlacementAssumption
      <4>3. QED
        BY <2>9, <4>1, <4>2 DEF Tick, ReserveState
    <3>4. QED
      BY <2>9, <3>1, <3>2, <3>3 DEF Tick
  <2>10. CASE UNCHANGED vars
    BY <2>10 DEF vars
  <2>11. QED
    BY <2>1, <2>2, <2>3, <2>4, <2>5, <2>6, <2>7, <2>8, <2>9, <2>10
       DEF Next, ReserveStep, AdminDeleteRow, RemoveRelay
<1>3. QED
  BY <1>1, <1>2, PTL DEF Spec
-----------------------------------------------------------------------------
(* Reservations of one token that do not overlap.                          *)

\* What the passing of a tick leaves as it was.
LEMMA OlderFacts ==
    ASSUME NEW row \in Row \cup {None}
    PROVE  /\ Primary(Older(row)) <=> Primary(row)
           /\ Live(Older(row)) => Live(row)
           /\ row # None => Older(row).hash = row.hash
           /\ Live(Older(row)) <=> row # None /\ row.ttl > 1
           /\ Live(row) => Older(row) # None /\ Older(row).ttl = row.ttl - 1
<1>1. CASE Live(row)
  <2>1. row \in Row /\ row # None /\ row.ttl \in Nat /\ row.ttl > 0
    BY <1>1, RowFields DEF Live
  <2>2. Older(row) = [row EXCEPT !.ttl = row.ttl - 1]
    BY <1>1 DEF Older
  <2>3. /\ Older(row).ttl = row.ttl - 1 /\ Older(row).hash = row.hash
        /\ Older(row).role = row.role
    BY <2>1, <2>2 DEF Row
  <2>4. Older(row) # None
    <3>1. row.ttl - 1 \in 0..MaxTtl
      BY <2>1, RowFields, PlacementAssumption
    <3>2. Older(row) \in Row
      BY <2>1, <2>2, <3>1 DEF Row
    <3>3. QED
      BY <3>2, PlacementAssumption
  <2>5. QED
    BY <1>1, <2>1, <2>3, <2>4 DEF Live, Primary
<1>2. CASE ~Live(row)
  BY <1>2, RowFields DEF Older, Live
<1>3. QED
  BY <1>1, <1>2

\* Rows may go, and live primaries only with a note in severed: the invariants
\* about the table survive.
Shrinks ==
    /\ \A t \in Token, r \in Relay : placements'[t][r] \in {placements[t][r], None}
    /\ \A t \in Token, r \in Relay : LivePrimary(placements[t][r]) =>
           placements'[t][r] = placements[t][r] \/ t \in severed'
    /\ severed \subseteq severed'

\* Rows that only shrink keep the invariant's conjuncts about the rows.
LEMMA ShrinkingKeepsRows ==
    ASSUME TypeOK, PlacementInv, Shrinks
    PROVE  OneLivePrimary' /\ LiveRowHasPrimary'
<1> USE DEF PlacementInv, Shrinks, LivePrimary, Primary, Live
<1>1. OneLivePrimary'
  BY DEF OneLivePrimary
<1>2. ASSUME NEW t \in Token \ severed', NEW r \in Relay, Live(placements'[t][r])
      PROVE  \E p \in Relay :
               /\ LivePrimary(placements'[t][p])
               /\ placements'[t][p].hash = placements'[t][r].hash
               /\ placements'[t][p].ttl = placements'[t][r].ttl
  <2>1. t \notin severed /\ placements'[t][r] = placements[t][r]
    BY <1>2
  <2>2. PICK p \in Relay : /\ LivePrimary(placements[t][p])
                           /\ placements[t][p].hash = placements[t][r].hash
                           /\ placements[t][p].ttl = placements[t][r].ttl
    BY <1>2, <2>1 DEF LiveRowHasPrimary
  <2>3. placements'[t][p] = placements[t][p]
    BY <1>2, <2>2
  <2>4. QED
    BY <2>1, <2>2, <2>3
<1>3. LiveRowHasPrimary'
  BY <1>2 DEF LiveRowHasPrimary
<1>4. QED
  BY <1>1, <1>3

\* Rows that only shrink keep what the requests rely on.
LEMMA ShrinkingKeepsRequests ==
    ASSUME TypeOK, PlacementInv, Shrinks, UNCHANGED <<reserve, resolve>>
    PROVE  PlacementInv'
<1> USE DEF PlacementInv
<1>1. OneLivePrimary' /\ LiveRowHasPrimary'
  BY ShrinkingKeepsRows
<1>2. WantsDisjoint' /\ PlanIsWanted'
  BY DEF WantsDisjoint, PlanIsWanted
<1>3. UncheckedHasOnePrimary'
  BY DEF UncheckedHasOnePrimary, Shrinks, Primary, TypeOK, ReserveState
<1>4. CheckedHasNoLivePrimary'
  BY DEF CheckedHasNoLivePrimary, Shrinks, LivePrimary, Live, Wanted
<1>5. SeenIsCurrent'
  BY DEF SeenIsCurrent, Shrinks, LivePrimary, Live, TypeOK
<1>6. QED
  BY <1>1, <1>2, <1>3, <1>4, <1>5

\* The purge takes only rows that have expired, and all of them.
LEMMA PurgeShrinks ==
    ASSUME TypeOK, PurgeExpired, UNCHANGED severed
    PROVE  /\ Shrinks
           /\ \A t \in Token, r \in Relay :
                placements'[t][r] # None => Live(placements'[t][r])
BY DEF TypeOK, PurgeExpired, Shrinks, LivePrimary, Live

\* Every step of the registry keeps the invariant.
LEMMA PlacementStep ==
    ASSUME ~OverlappingReserves, TypeOK, TypeOK', PlacementInv, [Next]_vars
    PROVE  PlacementInv'
<1> USE DEF PlacementInv
<1>1. ASSUME NEW c \in Uploader, NEW want \in Request, ReservePurge(c, want)
      PROVE  PlacementInv'
  <2>1. /\ Shrinks /\ UNCHANGED <<resolve, severed>>
        /\ \A t \in Token, r \in Relay :
             placements'[t][r] # None => Live(placements'[t][r])
    BY <1>1, PurgeShrinks DEF ReservePurge
  <2>2. OneLivePrimary' /\ LiveRowHasPrimary'
    BY <2>1, ShrinkingKeepsRows
  <2>3. /\ \A o \in Uploader : o # c => reserve'[o] = reserve[o]
        /\ \A o \in Uploader : Wanted(reserve[o].want) \cap Wanted(want) = {}
        /\ reserve'[c].want = want /\ reserve'[c].todo = Wanted(want)
        /\ reserve'[c].pc = "check" /\ ~reserve'[c].occupied
    BY <1>1 DEF ReservePurge, TypeOK, ReserveIdle
  <2>4. WantsDisjoint' /\ PlanIsWanted'
    BY <2>3 DEF WantsDisjoint, PlanIsWanted
  <2>5. UncheckedHasOnePrimary'
    <3>1. ASSUME NEW o \in Uploader, NEW t \in reserve'[o].todo,
                 NEW r \in Relay, NEW s \in Relay,
                 Primary(placements'[t][r]), Primary(placements'[t][s])
          PROVE  r = s
      <4>1. t \in Token
        BY DEF TypeOK, ReserveState
      <4>2. LivePrimary(placements'[t][r]) /\ LivePrimary(placements'[t][s])
        BY <2>1, <3>1, <4>1 DEF LivePrimary, Primary
      <4>3. QED
        BY <2>2, <4>1, <4>2 DEF OneLivePrimary
    <3>2. QED
      BY <3>1 DEF UncheckedHasOnePrimary
  <2>6. CheckedHasNoLivePrimary'
    BY <2>1, <2>3 DEF CheckedHasNoLivePrimary, Shrinks, LivePrimary, Live, Wanted
  <2>7. SeenIsCurrent'
    BY <2>1 DEF SeenIsCurrent, Shrinks, LivePrimary, Live, TypeOK
  <2>8. QED
    BY <2>2, <2>4, <2>5, <2>6, <2>7
<1>2. ASSUME NEW c \in Uploader, NEW t \in Token, ReserveCheck(c, t)
      PROVE  PlacementInv'
  <2>1. PICK row \in {placements[t][r] : r \in Relay} \cup {None} :
               /\ FirstPrimary(placements[t], row)
               /\ reserve' = [reserve EXCEPT ![c] = CheckedNext(c, t, Live(row))]
    BY <1>2 DEF ReserveCheck
  <2>2. /\ UNCHANGED <<placements, resolve, severed>>
        /\ reserve[c].pc = "check" /\ t \in reserve[c].todo
        /\ \A o \in Uploader : o # c => reserve'[o] = reserve[o]
        /\ reserve'[c] = CheckedNext(c, t, Live(row))
    BY <1>2, <2>1 DEF ReserveCheck, TypeOK
  <2>3. ~Live(row) => \A r \in Relay : ~LivePrimary(placements[t][r])
    BY <2>1, <2>2 DEF FirstPrimary, UncheckedHasOnePrimary, LivePrimary, Live
  <2>4. \/ Wanted(reserve'[c].want) = {} /\ reserve'[c].todo = {}
             /\ reserve'[c].pc = "idle" /\ ~reserve'[c].occupied
        \/ /\ reserve'[c].want = reserve[c].want
           /\ reserve'[c].todo = reserve[c].todo \ {t}
           /\ reserve'[c].occupied <=> reserve[c].occupied \/ Live(row)
           /\ \/ reserve'[c].pc = "check"
              \/ /\ reserve'[c].pc = "plan" /\ reserve'[c].todo = {}
                 /\ ~reserve'[c].occupied
    <3>1. reserve[c] \in ReserveState
      BY DEF TypeOK
    <3>2. CASE reserve[c].todo \ {t} # {}
      <4>1. reserve'[c] = [reserve[c] EXCEPT
              !.todo = reserve[c].todo \ {t},
              !.occupied = reserve[c].occupied \/ Live(row)]
        BY <2>2, <3>2 DEF CheckedNext
      <4>2. /\ reserve'[c].want = reserve[c].want
            /\ reserve'[c].todo = reserve[c].todo \ {t}
            /\ reserve'[c].pc = "check"
        BY <2>2, <3>1, <4>1 DEF ReserveState
      <4>3. reserve'[c].occupied <=> reserve[c].occupied \/ Live(row)
        BY ONLY <3>1, <4>1, ZenonT(20) DEF ReserveState
      <4>4. QED
        BY <4>2, <4>3
    <3>3. CASE reserve[c].todo \ {t} = {} /\ (reserve[c].occupied \/ Live(row))
      BY <2>2, <3>3 DEF CheckedNext, ReserveIdle, Nothing, Wanted
    <3>4. CASE reserve[c].todo \ {t} = {} /\ ~(reserve[c].occupied \/ Live(row))
      BY <2>2, <3>1, <3>4 DEF CheckedNext, ReserveState
    <3>5. QED
      BY <3>2, <3>3, <3>4
  <2>5. WantsDisjoint' /\ PlanIsWanted'
    BY <2>2, <2>4 DEF WantsDisjoint, PlanIsWanted
  <2>6. UncheckedHasOnePrimary'
    BY <2>2, <2>4 DEF UncheckedHasOnePrimary
  <2>7. CheckedHasNoLivePrimary'
    BY <2>2, <2>3, <2>4 DEF CheckedHasNoLivePrimary
  <2>8. LiveRowHasPrimary' /\ OneLivePrimary' /\ SeenIsCurrent'
    BY <2>2 DEF LiveRowHasPrimary, OneLivePrimary, SeenIsCurrent
  <2>9. QED
    BY <2>5, <2>6, <2>7, <2>8
<1>3. ASSUME NEW c \in Uploader, ReservePlan(c)
      PROVE  PlacementInv'
  <2>1. /\ UNCHANGED <<placements, resolve, severed>>
        /\ reserve[c].pc = "plan"
        /\ \A o \in Uploader : o # c => reserve'[o] = reserve[o]
    BY <1>3 DEF ReservePlan, TypeOK
  <2>2. \/ Wanted(reserve'[c].want) = {} /\ reserve'[c].todo = {}
             /\ reserve'[c].pc = "idle" /\ ~reserve'[c].occupied
        \/ /\ reserve'[c].want = reserve[c].want
           /\ reserve'[c].todo = reserve[c].todo
           /\ reserve'[c].occupied = reserve[c].occupied
           /\ reserve'[c].pc = "commit"
           /\ Wanted(reserve'[c].at) = Wanted(reserve[c].want)
    <3>1. reserve[c] \in ReserveState
      BY DEF TypeOK
    <3>2. CASE reserve' = [reserve EXCEPT ![c] = ReserveIdle]
      BY <3>2 DEF ReserveIdle, Nothing, Wanted, TypeOK
    <3>3. ASSUME NEW at \in [Token -> Spot \cup {None}], NEW ttl \in 1..MaxTtl,
                 Wanted(at) = Wanted(reserve[c].want),
                 reserve' = [reserve EXCEPT ![c] =
                               [@ EXCEPT !.pc = "commit", !.at = at, !.ttl = ttl]]
          PROVE  <2>2!2
      BY <3>1, <3>3 DEF ReserveState, TypeOK
    <3>4. ASSUME NEW at \in [Token -> Spot \cup {None}],
                 \A t \in Token : reserve[c].want[t] = None <=> at[t] = None
          PROVE  Wanted(at) = Wanted(reserve[c].want)
      BY <3>4 DEF Wanted
    <3>5. QED
      BY <1>3, <3>2, <3>3, <3>4 DEF ReservePlan
  <2>3. WantsDisjoint' /\ PlanIsWanted'
    BY <2>1, <2>2 DEF WantsDisjoint, PlanIsWanted
  <2>4. UncheckedHasOnePrimary' /\ CheckedHasNoLivePrimary'
    BY <2>1, <2>2 DEF UncheckedHasOnePrimary, CheckedHasNoLivePrimary
  <2>5. LiveRowHasPrimary' /\ OneLivePrimary' /\ SeenIsCurrent'
    BY <2>1 DEF LiveRowHasPrimary, OneLivePrimary, SeenIsCurrent
  <2>6. QED
    BY <2>3, <2>4, <2>5
<1>4. ASSUME NEW c \in Uploader, ReserveCommit(c)
      PROVE  PlacementInv'
  <2>1. /\ UNCHANGED <<resolve, severed>>
        /\ reserve[c].pc = "commit" /\ reserve[c].todo = {}
        /\ ~reserve[c].occupied
        /\ Wanted(reserve[c].at) = Wanted(reserve[c].want)
        /\ \A o \in Uploader : o # c => reserve'[o] = reserve[o]
        /\ Wanted(reserve'[c].want) = {} /\ reserve'[c].todo = {}
        /\ reserve'[c].pc = "idle" /\ ~reserve'[c].occupied
    BY <1>4 DEF ReserveCommit, TypeOK, PlanIsWanted, ReserveIdle, Nothing, Wanted
  <2>2. \A t \in Token : t \notin Wanted(reserve[c].want) =>
            \A r \in Relay : placements'[t][r] = placements[t][r]
    BY <1>4, <2>1 DEF ReserveCommit, PlannedRow, Wanted
  <2>3. \A t \in Wanted(reserve[c].want), r \in Relay :
            ~LivePrimary(placements[t][r])
    BY <2>1 DEF CheckedHasNoLivePrimary
  <2>4. ASSUME NEW t \in Wanted(reserve[c].want)
        PROVE  \E p \in Relay, R \in SUBSET Relay :
                 \A r \in Relay :
                   placements'[t][r] =
                     IF r = p THEN [role |-> "primary", hash |-> reserve[c].want[t],
                                    ttl |-> reserve[c].ttl]
                     ELSE IF r \in R THEN [role |-> "replica",
                                           hash |-> reserve[c].want[t],
                                           ttl |-> reserve[c].ttl]
                     ELSE placements[t][r]
    <3>1. reserve[c].at[t] \in Spot /\ reserve[c].at[t] # None
      BY <2>1, PlacementAssumption DEF Wanted, TypeOK, ReserveState
    <3> DEFINE p == reserve[c].at[t].primary
    <3> DEFINE R == reserve[c].at[t].replicas
    <3>3. p \in Relay /\ R \in SUBSET Relay
      BY <3>1 DEF Spot
    <3>4. ASSUME NEW r \in Relay
          PROVE  /\ PlannedRow(c, t, r) \in Row \cup {None}
                 /\ r = p \/ r \in R => PlannedRow(c, t, r) # None
      <4>1. reserve[c].want[t] \in Hash /\ reserve[c].ttl \in 0..MaxTtl
        BY <2>1 DEF Wanted, TypeOK, ReserveState
      <4>2. QED
        BY <3>1, <4>1, PlacementAssumption DEF PlannedRow, Row, Role
    <3>5. \A r \in Relay :
            placements'[t][r] =
              IF r = p THEN [role |-> "primary", hash |-> reserve[c].want[t],
                             ttl |-> reserve[c].ttl]
              ELSE IF r \in R THEN [role |-> "replica", hash |-> reserve[c].want[t],
                                    ttl |-> reserve[c].ttl]
              ELSE placements[t][r]
      BY <1>4, <3>1, <3>4 DEF ReserveCommit, PlannedRow, Wanted
    <3>6. QED
      BY <3>3, <3>5
  <2>5. ASSUME NEW t \in Token
        PROVE  /\ \A r, s \in Relay :
                    LivePrimary(placements'[t][r]) /\ LivePrimary(placements'[t][s])
                      => r = s
               /\ t \notin severed => \A r \in Relay : Live(placements'[t][r]) =>
                    \E q \in Relay :
                      /\ LivePrimary(placements'[t][q])
                      /\ placements'[t][q].hash = placements'[t][r].hash
                      /\ placements'[t][q].ttl = placements'[t][r].ttl
    <3>1. CASE t \notin Wanted(reserve[c].want)
      BY <2>2, <3>1 DEF OneLivePrimary, LiveRowHasPrimary
    <3>2. CASE t \in Wanted(reserve[c].want)
      <4>1. PICK p \in Relay, R \in SUBSET Relay :
              \A r \in Relay :
                placements'[t][r] =
                  IF r = p THEN [role |-> "primary", hash |-> reserve[c].want[t],
                                 ttl |-> reserve[c].ttl]
                  ELSE IF r \in R THEN [role |-> "replica",
                                        hash |-> reserve[c].want[t],
                                        ttl |-> reserve[c].ttl]
                  ELSE placements[t][r]
        BY <2>4, <3>2
      <4>2. \A r \in Relay : LivePrimary(placements'[t][r]) => r = p
        BY <2>3, <3>2, <4>1 DEF LivePrimary, Primary
      <4>3. ASSUME t \notin severed, NEW r \in Relay, Live(placements'[t][r])
            PROVE  /\ LivePrimary(placements'[t][p])
                   /\ placements'[t][p].hash = placements'[t][r].hash
                   /\ placements'[t][p].ttl = placements'[t][r].ttl
        <5>1. ~Live(placements[t][r])
          BY <2>3, <3>2, <4>3 DEF LiveRowHasPrimary
        <5>2. r = p \/ r \in R
          BY <4>1, <4>3, <5>1
        <5>3. /\ placements'[t][r].ttl = reserve[c].ttl
              /\ placements'[t][r].hash = reserve[c].want[t]
              /\ placements'[t][p].ttl = reserve[c].ttl
              /\ placements'[t][p].hash = reserve[c].want[t]
              /\ placements'[t][p].role = "primary"
          BY <4>1, <5>2
        <5>4. placements'[t][p] \in Row \cup {None} /\ reserve[c].want[t] \in Hash
              /\ reserve[c].ttl \in 0..MaxTtl
          BY <3>2 DEF TypeOK, ReserveState, Wanted
        <5>5. placements'[t][p] # None
          BY <4>1, <5>4, PlacementAssumption DEF Row, Role
        <5>6. QED
          BY <4>3, <5>3, <5>5 DEF LivePrimary, Live, Primary
      <4>4. QED
        BY <4>2, <4>3
    <3>3. QED
      BY <3>1, <3>2
  <2>12. OneLivePrimary' /\ LiveRowHasPrimary'
    BY <2>1, <2>5 DEF OneLivePrimary, LiveRowHasPrimary
  <2>6. WantsDisjoint' /\ PlanIsWanted'
    BY <2>1 DEF WantsDisjoint, PlanIsWanted
  <2>7. \A o \in Uploader : \A t \in Wanted(reserve'[o].want) :
            t \in Token /\ t \notin Wanted(reserve[c].want)
    BY <2>1 DEF WantsDisjoint, Wanted
  <2>8. UncheckedHasOnePrimary'
    BY <2>1, <2>2, <2>6, <2>7 DEF UncheckedHasOnePrimary, PlanIsWanted
  <2>9. CheckedHasNoLivePrimary'
    BY <2>1, <2>2, <2>7 DEF CheckedHasNoLivePrimary
  <2>10. SeenIsCurrent'
    <3>1. ASSUME NEW d \in Downloader, resolve[d].pc = "answer", NEW r \in Relay,
                 LivePrimary(resolve[d].seen[r]), resolve[d].token \notin severed
          PROVE  placements'[resolve[d].token][r] = resolve[d].seen[r]
      <4>1. resolve[d].token \in Token
        BY <3>1 DEF TypeOK
      <4>2. placements[resolve[d].token][r] = resolve[d].seen[r]
        BY <3>1 DEF SeenIsCurrent
      <4>3. resolve[d].token \notin Wanted(reserve[c].want)
        BY <2>3, <3>1, <4>2
      <4>4. QED
        BY <2>2, <4>1, <4>2, <4>3
    <3>2. QED
      BY <2>1, <3>1 DEF SeenIsCurrent
  <2>11. QED
    BY <2>12, <2>6, <2>8, <2>9, <2>10
<1>5. ASSUME NEW d \in Downloader, NEW t \in Token, ResolvePurge(d, t)
      PROVE  PlacementInv'
  <2>1. Shrinks /\ UNCHANGED <<reserve, severed>>
    BY <1>5, PurgeShrinks DEF ResolvePurge
  <2>2. /\ \A e \in Downloader : e # d => resolve'[e] = resolve[e]
        /\ resolve'[d].pc = "select"
    BY <1>5 DEF ResolvePurge, TypeOK, ResolveIdle
  <2>3. OneLivePrimary' /\ LiveRowHasPrimary'
    BY <2>1, ShrinkingKeepsRows
  <2>4. WantsDisjoint' /\ PlanIsWanted'
    BY <2>1 DEF WantsDisjoint, PlanIsWanted
  <2>5. UncheckedHasOnePrimary'
    BY <2>1 DEF UncheckedHasOnePrimary, Shrinks, Primary, TypeOK, ReserveState
  <2>6. CheckedHasNoLivePrimary'
    BY <2>1 DEF CheckedHasNoLivePrimary, Shrinks, LivePrimary, Live, Wanted
  <2>7. SeenIsCurrent'
    <3>1. ASSUME NEW e \in Downloader, resolve'[e].pc = "answer",
                 NEW r \in Relay, LivePrimary(resolve'[e].seen[r])
          PROVE  \/ placements'[resolve'[e].token][r] = resolve'[e].seen[r]
                 \/ resolve'[e].token \in severed'
      <4>1. e # d /\ resolve'[e] = resolve[e]
        BY <2>2, <3>1
      <4>2. resolve[e].token \in Token
        BY <3>1, <4>1 DEF TypeOK
      <4>3. \/ placements[resolve[e].token][r] = resolve[e].seen[r]
            \/ resolve[e].token \in severed
        BY <3>1, <4>1 DEF SeenIsCurrent
      <4>4. LivePrimary(placements[resolve[e].token][r]) =>
              \/ placements'[resolve[e].token][r] = placements[resolve[e].token][r]
              \/ resolve[e].token \in severed'
        BY <2>1, <4>2 DEF Shrinks
      <4>5. QED
        BY <2>1, <3>1, <4>1, <4>3, <4>4
    <3>2. QED
      BY <3>1 DEF SeenIsCurrent
  <2>8. QED
    BY <2>3, <2>4, <2>5, <2>6, <2>7
<1>6. ASSUME NEW d \in Downloader, ResolveSelect(d) \/ ResolveAnswer(d)
      PROVE  PlacementInv'
  <2>1. /\ UNCHANGED <<placements, reserve, severed>>
        /\ \A e \in Downloader : e # d => resolve'[e] = resolve[e]
    BY <1>6 DEF ResolveSelect, ResolveAnswer, TypeOK
  <2>2. \/ resolve'[d].pc = "idle"
        \/ /\ resolve'[d].seen = placements[resolve[d].token]
           /\ resolve'[d].token = resolve[d].token
    <3>1. resolve[d] \in ResolveState
      BY DEF TypeOK
    <3>2. CASE resolve' = [resolve EXCEPT ![d] = ResolveIdle]
      BY <3>2 DEF ResolveIdle, TypeOK
    <3>3. CASE resolve' = [resolve EXCEPT ![d] =
                   [@ EXCEPT !.pc = "answer",
                             !.seen = placements[resolve[d].token]]]
      BY <3>1, <3>3 DEF ResolveState, TypeOK
    <3>4. QED
      BY <1>6, <3>2, <3>3 DEF ResolveSelect, ResolveAnswer
  <2>3. SeenIsCurrent'
    BY <2>1, <2>2 DEF SeenIsCurrent
  <2>4. /\ WantsDisjoint' /\ PlanIsWanted' /\ UncheckedHasOnePrimary'
        /\ CheckedHasNoLivePrimary' /\ LiveRowHasPrimary' /\ OneLivePrimary'
    BY <2>1 DEF WantsDisjoint, PlanIsWanted, UncheckedHasOnePrimary,
                CheckedHasNoLivePrimary, LiveRowHasPrimary, OneLivePrimary
  <2>5. QED
    BY <2>3, <2>4
<1>7. ASSUME NEW t \in Token, NEW R \in SUBSET Relay, AbandonReplicas(t, R)
      PROVE  PlacementInv'
  <2>1. Shrinks
    BY <1>7 DEF AbandonReplicas, Shrinks, LivePrimary, TypeOK
  <2>2. QED
    BY <1>7, <2>1, ShrinkingKeepsRequests DEF AbandonReplicas
<1>8. ASSUME NEW gone, Cut(gone) PROVE PlacementInv'
  <2>1. Shrinks
    BY <1>8 DEF Cut, Shrinks, TypeOK
  <2>2. QED
    BY <1>8, <2>1, ShrinkingKeepsRequests DEF Cut
<1>9. CASE Tick
  <2>1. /\ severed' = severed
        /\ \A t \in Token, r \in Relay :
             /\ placements[t][r] \in Row \cup {None}
             /\ placements'[t][r] = Older(placements[t][r])
        /\ \A t \in Token, r \in Relay :
             LivePrimary(placements'[t][r]) => LivePrimary(placements[t][r])
    BY <1>9, OlderFacts DEF Tick, TypeOK, LivePrimary
  <2>2. \A c \in Uploader :
          /\ reserve'[c].pc = reserve[c].pc /\ reserve'[c].want = reserve[c].want
          /\ reserve'[c].todo = reserve[c].todo /\ reserve'[c].at = reserve[c].at
          /\ reserve'[c].occupied = reserve[c].occupied
    BY <1>9 DEF Tick, TypeOK, ReserveState
  <2>3. \A d \in Downloader :
          /\ resolve'[d].pc = resolve[d].pc /\ resolve'[d].token = resolve[d].token
          /\ \A r \in Relay : /\ resolve[d].seen[r] \in Row \cup {None}
                              /\ resolve'[d].seen[r] = Older(resolve[d].seen[r])
    BY <1>9 DEF Tick, TypeOK, ResolveState
  <2>4. WantsDisjoint' /\ PlanIsWanted'
    BY <2>2 DEF WantsDisjoint, PlanIsWanted
  <2>5. UncheckedHasOnePrimary'
    <3>1. \A t \in Token, r \in Relay :
            Primary(placements'[t][r]) => Primary(placements[t][r])
      BY <2>1, OlderFacts
    <3>2. QED
      BY <2>2, <3>1 DEF UncheckedHasOnePrimary, TypeOK, ReserveState
  <2>6. CheckedHasNoLivePrimary'
    BY <2>1, <2>2 DEF CheckedHasNoLivePrimary, Wanted
  <2>7. OneLivePrimary'
    BY <2>1 DEF OneLivePrimary
  <2>8. ASSUME NEW t \in Token \ severed, NEW r \in Relay,
               Live(placements'[t][r])
        PROVE  \E p \in Relay :
                 /\ LivePrimary(placements'[t][p])
                 /\ placements'[t][p].hash = placements'[t][r].hash
                 /\ placements'[t][p].ttl = placements'[t][r].ttl
    <3>1. Live(placements[t][r]) /\ placements[t][r].ttl > 1
      BY <2>1, <2>8, OlderFacts
    <3>2. PICK p \in Relay : /\ LivePrimary(placements[t][p])
                             /\ placements[t][p].hash = placements[t][r].hash
                             /\ placements[t][p].ttl = placements[t][r].ttl
      BY <3>1 DEF LiveRowHasPrimary
    <3>3. LivePrimary(placements'[t][p])
      BY <2>1, <3>1, <3>2, OlderFacts DEF LivePrimary, Live
    <3>4. /\ placements'[t][p].hash = placements'[t][r].hash
          /\ placements'[t][p].ttl = placements'[t][r].ttl
      BY <2>1, <3>1, <3>2, OlderFacts DEF LivePrimary, Live
    <3>5. QED
      BY <3>3, <3>4
  <2>9. LiveRowHasPrimary'
    BY <2>1, <2>8 DEF LiveRowHasPrimary
  <2>10. SeenIsCurrent'
    <3>1. ASSUME NEW d \in Downloader, resolve'[d].pc = "answer", NEW r \in Relay,
                 LivePrimary(resolve'[d].seen[r]), resolve[d].token \notin severed
          PROVE  placements'[resolve[d].token][r] = resolve'[d].seen[r]
      <4>1. resolve[d].token \in Token /\ LivePrimary(resolve[d].seen[r])
        BY <2>3, <3>1, OlderFacts DEF TypeOK, LivePrimary
      <4>2. placements[resolve[d].token][r] = resolve[d].seen[r]
        BY <2>3, <3>1, <4>1 DEF SeenIsCurrent
      <4>3. QED
        BY <2>1, <2>3, <4>1, <4>2
    <3>2. QED
      BY <2>1, <2>3, <3>1 DEF SeenIsCurrent
  <2>11. QED
    BY <2>4, <2>5, <2>6, <2>7, <2>9, <2>10
<1>10. CASE UNCHANGED vars
  BY <1>10 DEF vars, WantsDisjoint, PlanIsWanted, UncheckedHasOnePrimary,
     CheckedHasNoLivePrimary, LiveRowHasPrimary, SeenIsCurrent, OneLivePrimary
<1>11. QED
  BY <1>1, <1>2, <1>3, <1>4, <1>5, <1>6, <1>7, <1>8, <1>9, <1>10
     DEF Next, ReserveStep, AdminDeleteRow, RemoveRelay

\* The invariant holds of every behaviour without overlapping reservations.
LEMMA PlacementInvariant ==
    ~OverlappingReserves => (Spec => [](TypeOK /\ PlacementInv))
<1> SUFFICES ASSUME ~OverlappingReserves
             PROVE  Spec => [](TypeOK /\ PlacementInv)
  OBVIOUS
<1>1. Init => PlacementInv
  <2> SUFFICES ASSUME Init PROVE PlacementInv
    OBVIOUS
  <2>1. /\ \A c \in Uploader : /\ reserve[c].pc = "idle" /\ reserve[c].todo = {}
                              /\ Wanted(reserve[c].want) = {}
                              /\ ~reserve[c].occupied
        /\ \A d \in Downloader : resolve[d].pc = "idle"
        /\ \A t \in Token, r \in Relay : placements[t][r] = None
    BY DEF Init, ReserveIdle, ResolveIdle, Nothing, NoRows, Wanted
  <2>2. QED
    BY <2>1 DEF PlacementInv, WantsDisjoint, PlanIsWanted,
       UncheckedHasOnePrimary, CheckedHasNoLivePrimary, LiveRowHasPrimary,
       SeenIsCurrent, OneLivePrimary, LivePrimary, Live
<1>2. TypeOK /\ TypeOK' /\ PlacementInv /\ [Next]_vars => PlacementInv'
  BY PlacementStep
<1>3. QED
  BY <1>1, <1>2, TypeCorrect, PTL DEF Spec

(* The primary key of the table is (token, relay_id): nothing in it stops  *)
(* a second primary, the check of lock_tokens_with_block_hashes does.      *)
THEOREM SerialReservesKeepOnePrimary ==
    ~OverlappingReserves => (Spec => []OneLivePrimary)
<1>1. PlacementInv => OneLivePrimary
  BY DEF PlacementInv
<1>2. QED
  BY <1>1, PlacementInvariant, PTL

(* Whichever holder a download falls back to, it is after the same block.  *)
THEOREM SerialReservesAgree ==
    ~OverlappingReserves => (Spec => []LiveRowsAgree)
<1>1. PlacementInv => LiveRowsAgree
  <2> SUFFICES ASSUME PlacementInv,
                      NEW t \in Token \ severed, NEW r \in Relay, NEW s \in Relay,
                      Live(placements[t][r]), Live(placements[t][s])
               PROVE  placements[t][r].hash = placements[t][s].hash
    BY DEF LiveRowsAgree
  <2>1. PICK p \in Relay : /\ LivePrimary(placements[t][p])
                           /\ placements[t][p].hash = placements[t][r].hash
    BY DEF PlacementInv, LiveRowHasPrimary
  <2>2. PICK q \in Relay : /\ LivePrimary(placements[t][q])
                           /\ placements[t][q].hash = placements[t][s].hash
    BY DEF PlacementInv, LiveRowHasPrimary
  <2>3. p = q
    BY <2>1, <2>2 DEF PlacementInv, OneLivePrimary
  <2>4. QED
    BY <2>1, <2>2, <2>3
<1>2. QED
  BY <1>1, PlacementInvariant, PTL

(* A reserved token stays where it was reserved until it expires, unless   *)
(* the operator intervenes.                                                *)
THEOREM SerialReservesHold ==
    ~OverlappingReserves => (Spec => ReservationHolds)
<1> SUFFICES ASSUME ~OverlappingReserves PROVE Spec => ReservationHolds
  OBVIOUS
<1> DEFINE Holds == \A t \in Token, r \in Relay :
         LivePrimary(placements[t][r]) =>
             \/ placements'[t][r] = placements[t][r]
             \/ placements'[t][r] = Older(placements[t][r])
             \/ placements'[t][r] = None /\ t \in severed'
<1>1. TypeOK /\ PlacementInv /\ [Next]_vars => [Holds]_vars
  <2> SUFFICES ASSUME TypeOK, PlacementInv, Next PROVE Holds
    BY DEF vars
  <2>1. ASSUME NEW c \in Uploader, ReserveCommit(c) PROVE Holds
    <3>1. ASSUME NEW t \in Token, NEW r \in Relay, LivePrimary(placements[t][r])
          PROVE  placements'[t][r] = placements[t][r]
      <4>1. t \notin Wanted(reserve[c].at)
        BY <2>1, <3>1 DEF ReserveCommit, PlacementInv, PlanIsWanted,
                          CheckedHasNoLivePrimary
      <4>2. QED
        BY <2>1, <4>1 DEF ReserveCommit, PlannedRow, Wanted
    <3>2. QED
      BY <3>1
  <2>2. CASE PurgeExpired
    BY <2>2 DEF PurgeExpired, LivePrimary
  <2>3. CASE UNCHANGED placements
    BY <2>3
  <2>4. ASSUME NEW t \in Token, NEW R \in SUBSET Relay, AbandonReplicas(t, R)
        PROVE  Holds
    BY <2>4 DEF AbandonReplicas, LivePrimary, TypeOK
  <2>5. ASSUME NEW gone, Cut(gone) PROVE Holds
    BY <2>5 DEF Cut
  <2>6. CASE Tick
    BY <2>6 DEF Tick
  <2>7. QED
    BY <2>1, <2>2, <2>3, <2>4, <2>5, <2>6
       DEF Next, ReserveStep, ReservePurge, ReserveCheck, ReservePlan,
           ResolvePurge, ResolveSelect, ResolveAnswer, AdminDeleteRow,
           RemoveRelay
<1>2. QED
  BY <1>1, PlacementInvariant, PTL DEF Spec, ReservationHolds

(* The wait for the list of healthy relays does not make the answer to a   *)
(* download stale.                                                         *)
THEOREM SerialReservesResolveCurrent ==
    ~OverlappingReserves => (Spec => ResolvedPrimaryIsCurrent)
<1> SUFFICES ASSUME ~OverlappingReserves PROVE Spec => ResolvedPrimaryIsCurrent
  OBVIOUS
<1> DEFINE Current == \A d \in Downloader :
         resolve[d].pc = "answer" /\ resolve'[d].pc = "idle" =>
             \A healthy \in Healthy : \A r \in Targets(d, healthy) :
                 Primary(resolve[d].seen[r]) =>
                     \/ placements[resolve[d].token][r] = resolve[d].seen[r]
                     \/ resolve[d].token \in severed
<1>1. PlacementInv => [Current]_vars
  BY DEF PlacementInv, SeenIsCurrent, Targets, Healthy, LivePrimary
<1>2. QED
  BY <1>1, PlacementInvariant, PTL DEF ResolvedPrimaryIsCurrent
=============================================================================
