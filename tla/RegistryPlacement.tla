------------------------- MODULE RegistryPlacement -------------------------
(***************************************************************************)
(* Where the registry (server/registry/registry_server) says the blocks    *)
(* are: the table token_relay_placements, which uploads reserve, downloads *)
(* resolve, uploads abandon in part, and operators cut rows out of.        *)
(*                                                                         *)
(* The routes are coroutines of one event loop over SQLite, and each opens *)
(* a connection of its own for every statement or transaction.  A step is  *)
(* therefore one statement or one transaction, with the code up to the     *)
(* next await, and the steps of all requests interleave.                   *)
(*                                                                         *)
(* Which relays a reservation takes is left to chance among the healthy    *)
(* ones (their order and capacities are arbitrary here).  Left out: the    *)
(* URLs, the audit tables, the status word of a token without targets, and *)
(* the rereading of the committed rows for the answer of a reservation:    *)
(* none of them changes what is modelled.                                  *)
(***************************************************************************)
EXTENDS Naturals

CONSTANTS
    Token, Hash,         \* block identifiers and block hashes
    Relay,               \* relay ids
    Uploader,            \* concurrent POST /api/relay/reserve-tokens
    Downloader,          \* concurrent POST /api/relay/resolve
    None,                \* no row, no value
    MaxTtl,              \* BOUND on a granted lifetime, in ticks
    OverlappingReserves  \* may two reservations of a token be in progress?

\* A row of token_relay_placements, and where a plan puts a token.
Role == {"primary", "replica"}
Row == [role : Role, hash : Hash, ttl : 0..MaxTtl]
Spot == [primary : Relay, replicas : SUBSET Relay]

ASSUME PlacementAssumption ==
    /\ None \notin Token \cup Hash \cup Row \cup Spot
    /\ MaxTtl \in Nat
    /\ OverlappingReserves \in BOOLEAN

VARIABLES
    placements,  \* the row of each token and relay: role, hash, ticks to live
    reserve,     \* the local state of each reservation request
    resolve,     \* the local state of each resolve request
    severed      \* history: tokens that lost a live primary to the operator

vars == <<placements, reserve, resolve, severed>>

-----------------------------------------------------------------------------
\* is_placement_live: the row has not reached expiry_at.
Live(row) == row # None /\ row.ttl > 0
Primary(row) == row # None /\ row.role = "primary"
LivePrimary(row) == Live(row) /\ Primary(row)

\* A tick of the clock, for a row or for what a request remembers of one.
Older(row) == IF Live(row) THEN [row EXCEPT !.ttl = @ - 1] ELSE row

NoRows == [r \in Relay |-> None]
Nothing == [t \in Token |-> None]
ReserveIdle == [pc |-> "idle", want |-> Nothing, todo |-> {},
                occupied |-> FALSE, at |-> Nothing, ttl |-> 0]
ResolveIdle == [pc |-> "idle", token |-> None, seen |-> NoRows]

\* The tokens that a request, or a plan, is about.
Wanted(want) == {t \in Token : want[t] # None}

\* What list_healthy_relays may return: operators enable and disable relays
\* and heartbeats come and fail to come at will.
Healthy == SUBSET Relay

Init ==
    /\ placements = [t \in Token |-> NoRows]
    /\ reserve = [c \in Uploader |-> ReserveIdle]
    /\ resolve = [d \in Downloader |-> ResolveIdle]
    /\ severed = {}

(* purge_expired_tokens.                                                   *)
PurgeExpired ==
    placements' = [t \in Token |-> [r \in Relay |->
                      IF Live(placements[t][r]) THEN placements[t][r]
                                                ELSE None]]

-----------------------------------------------------------------------------
(* POST /api/relay/reserve-tokens: lock_tokens_with_block_hashes.  A       *)
(* request that names a token twice is answered 400 after the purge.       *)

ReservePurge(c, want) ==
    /\ reserve[c].pc = "idle"
    /\ OverlappingReserves \/
         \A o \in Uploader : Wanted(reserve[o].want) \cap Wanted(want) = {}
    /\ PurgeExpired
    /\ reserve' = [reserve EXCEPT ![c] =
                      [ReserveIdle EXCEPT !.pc = "check", !.want = want,
                                          !.todo = Wanted(want)]]
    /\ UNCHANGED <<resolve, severed>>

\* get_primary_placement: the first primary row of the token, if any.
FirstPrimary(rows, row) ==
    \/ row = None /\ \A r \in Relay : ~Primary(rows[r])
    \/ \E r \in Relay : row = rows[r] /\ Primary(row)

\* MUTATION of CheckedNext: only the token checked last decides.
LastCheckDecides(c, t, live) ==
    LET todo == reserve[c].todo \ {t}
    IN  IF todo # {} THEN [reserve[c] EXCEPT !.todo = todo, !.occupied = live]
        ELSE IF live THEN ReserveIdle
        ELSE [reserve[c] EXCEPT !.pc = "plan", !.todo = {}]

\* MUTATION of CheckedNext: 409 only if every token is occupied.
AllOccupiedDecides(c, t, live) ==
    LET todo == reserve[c].todo \ {t}
        occupied == live /\ (reserve[c].todo = Wanted(reserve[c].want)
                               \/ reserve[c].occupied)
    IN  IF todo # {} THEN [reserve[c] EXCEPT !.todo = todo,
                                             !.occupied = occupied]
        ELSE IF occupied THEN ReserveIdle
        ELSE [reserve[c] EXCEPT !.pc = "plan", !.todo = {}]

\* get_primary_placement and is_placement_live for one token.  The last check
\* decides between 409 for all the tokens and going on.
CheckedNext(c, t, live) ==
    LET todo == reserve[c].todo \ {t}
        occupied == reserve[c].occupied \/ live
    IN  IF todo # {} THEN [reserve[c] EXCEPT !.todo = todo,
                                             !.occupied = occupied]
        ELSE IF occupied THEN ReserveIdle
        ELSE [reserve[c] EXCEPT !.pc = "plan", !.todo = {}]

ReserveCheck(c, t) ==
    /\ reserve[c].pc = "check"
    /\ t \in reserve[c].todo
    /\ \E row \in {placements[t][r] : r \in Relay} \cup {None} :
         /\ FirstPrimary(placements[t], row)
         /\ reserve' = [reserve EXCEPT ![c] = CheckedNext(c, t, Live(row))]
    /\ UNCHANGED <<placements, resolve, severed>>

\* list_healthy_relays, then resolve_placement_with_ttl: a primary for every
\* token, replicas on other relays, one lifetime; 503 without any relay.
ReservePlan(c) ==
    /\ reserve[c].pc = "plan"
    /\ \E healthy \in Healthy :
         \/ /\ healthy = {}
            /\ reserve' = [reserve EXCEPT ![c] = ReserveIdle]
         \/ \E at \in [Token -> Spot \cup {None}], ttl \in 1..MaxTtl :
              /\ \A t \in Token :
                   IF reserve[c].want[t] = None THEN at[t] = None
                   ELSE /\ at[t] # None
                        /\ at[t].primary \in healthy
                        /\ at[t].replicas \subseteq healthy \ {at[t].primary}
              /\ reserve' = [reserve EXCEPT ![c] =
                                [@ EXCEPT !.pc = "commit", !.at = at,
                                          !.ttl = ttl]]
    /\ UNCHANGED <<placements, resolve, severed>>

\* MUTATION of PlannedRow: a replica is entered without the block's hash.
PlannedRowUnhashed(c, t, r) ==
    LET spot == reserve[c].at[t]
        row(role, hash) == [role |-> role, hash |-> hash, ttl |-> reserve[c].ttl]
    IN  IF spot = None THEN None
        ELSE IF r = spot.primary THEN row("primary", reserve[c].want[t])
        ELSE IF r \in spot.replicas THEN row("replica", None)
        ELSE None

\* The row that the plan of c puts on relay r for token t, if any.
PlannedRow(c, t, r) ==
    LET row(role) == [role |-> role, hash |-> reserve[c].want[t],
                      ttl |-> reserve[c].ttl]
        spot == reserve[c].at[t]
    IN  IF spot = None THEN None
        ELSE IF r = spot.primary THEN row("primary")
        ELSE IF r \in spot.replicas THEN row("replica")
        ELSE None

\* INSERT ... ON CONFLICT(token, relay_id) DO UPDATE for all rows of the plan,
\* in one transaction; other rows of the tokens stay.
ReserveCommit(c) ==
    /\ reserve[c].pc = "commit"
    /\ placements' = [t \in Token |-> [r \in Relay |->
                         IF PlannedRow(c, t, r) # None THEN PlannedRow(c, t, r)
                                                       ELSE placements[t][r]]]
    /\ reserve' = [reserve EXCEPT ![c] = ReserveIdle]
    /\ UNCHANGED <<resolve, severed>>

-----------------------------------------------------------------------------
(* POST /api/relay/resolve: resolve_download_routes, for one token (the    *)
(* tokens of a request follow one another).                                *)

ResolvePurge(d, t) ==
    /\ resolve[d].pc = "idle"
    /\ PurgeExpired
    /\ resolve' = [resolve EXCEPT ![d] = [ResolveIdle EXCEPT !.pc = "select",
                                                             !.token = t]]
    /\ UNCHANGED <<reserve, severed>>

\* get_resolve_targets: no answer without a live primary.
ResolveSelect(d) ==
    /\ resolve[d].pc = "select"
    /\ LET rows == placements[resolve[d].token]
       IN  \E row \in {rows[r] : r \in Relay} \cup {None} :
             /\ FirstPrimary(rows, row)
             /\ resolve' = [resolve EXCEPT ![d] =
                               IF Live(row) THEN [@ EXCEPT !.pc = "answer",
                                                           !.seen = rows]
                                            ELSE ResolveIdle]
    /\ UNCHANGED <<placements, reserve, severed>>

\* MUTATION of Targets: rows are not asked again whether they are live.
TargetsMaybeExpired(d, healthy) == {r \in healthy : resolve[d].seen[r] # None}

\* The relays offered for the download once the healthy ones are known.
Targets(d, healthy) == {r \in healthy : Live(resolve[d].seen[r])}

ResolveAnswer(d) ==
    /\ resolve[d].pc = "answer"
    /\ resolve' = [resolve EXCEPT ![d] = ResolveIdle]
    /\ UNCHANGED <<placements, reserve, severed>>

-----------------------------------------------------------------------------
(* Rows that go before their time, and the relays.                         *)

\* Rows are deleted; the history notes the tokens that lost a live primary.
Cut(gone) ==
    /\ placements' = [t \in Token |-> [r \in Relay |->
                         IF <<t, r>> \in gone THEN None ELSE placements[t][r]]]
    /\ severed' = severed \cup
                     {t \in Token : \E r \in Relay :
                        <<t, r>> \in gone /\ LivePrimary(placements[t][r])}
    /\ UNCHANGED <<reserve, resolve>>

\* MUTATION of AbandonReplicas: the condition on the role is missing.
AbandonAnyRole(t, R) ==
    /\ \E r \in R : placements[t][r] # None
    /\ placements' = [placements EXCEPT ![t] = [r \in Relay |->
                         IF r \in R THEN None ELSE placements[t][r]]]
    /\ UNCHANGED <<reserve, resolve, severed>>

\* POST /api/relay/abandon-replica-placements, by any client at any time.
AbandonReplicas(t, R) ==
    /\ \E r \in R : placements[t][r] # None
    /\ placements' = [placements EXCEPT ![t] = [r \in Relay |->
                         IF r \in R /\ ~Primary(placements[t][r])
                         THEN None ELSE placements[t][r]]]
    /\ UNCHANGED <<reserve, resolve, severed>>

\* POST /api/admin/db/rows/delete on table token_relay_placements.
AdminDeleteRow(t, r) ==
    /\ placements[t][r] # None
    /\ Cut({<<t, r>>})

\* DELETE /api/admin/allowlist/{relay_id} takes the relay's rows along.
RemoveRelay(r) ==
    /\ \E t \in Token : placements[t][r] # None
    /\ Cut(Token \X {r})

\* Time passes for the rows and for the expiry_at that requests hold.
Tick ==
    /\ placements' = [t \in Token |->
                         [r \in Relay |-> Older(placements[t][r])]]
    /\ reserve' = [c \in Uploader |->
                      [reserve[c] EXCEPT !.ttl = IF @ > 0 THEN @ - 1 ELSE 0]]
    /\ resolve' = [d \in Downloader |->
                      [resolve[d] EXCEPT !.seen =
                          [r \in Relay |-> Older(resolve[d].seen[r])]]]
    /\ <<placements, reserve, resolve>>' # <<placements, reserve, resolve>>
    /\ UNCHANGED severed

Request == {want \in [Token -> Hash \cup {None}] : Wanted(want) # {}}

ReserveStep(c) ==
    \/ \E t \in Token : ReserveCheck(c, t)
    \/ ReservePlan(c)
    \/ ReserveCommit(c)

Next ==
    \/ \E c \in Uploader, want \in Request : ReservePurge(c, want)
    \/ \E c \in Uploader : ReserveStep(c)
    \/ \E d \in Downloader, t \in Token : ResolvePurge(d, t)
    \/ \E d \in Downloader : ResolveSelect(d) \/ ResolveAnswer(d)
    \/ \E t \in Token, R \in SUBSET Relay : AbandonReplicas(t, R)
    \/ \E t \in Token, r \in Relay : AdminDeleteRow(t, r)
    \/ \E r \in Relay : RemoveRelay(r)
    \/ Tick

Spec == Init /\ [][Next]_vars

-----------------------------------------------------------------------------
(* Properties.                                                             *)

\* Every variable holds a value of its kind.
ReserveState == [pc : {"idle", "check", "plan", "commit"},
                 want : [Token -> Hash \cup {None}], todo : SUBSET Token,
                 occupied : BOOLEAN, at : [Token -> Spot \cup {None}],
                 ttl : 0..MaxTtl]
ResolveState == [pc : {"idle", "select", "answer"}, token : Token \cup {None},
                 seen : [Relay -> Row \cup {None}]]
TypeOK ==
    /\ placements \in [Token -> [Relay -> Row \cup {None}]]
    /\ reserve \in [Uploader -> ReserveState]
    /\ \A c \in Uploader : Wanted(reserve[c].at) \subseteq Wanted(reserve[c].want)
    /\ resolve \in [Downloader -> ResolveState]
    /\ \A d \in Downloader : resolve[d].pc # "idle" => resolve[d].token \in Token
    /\ severed \subseteq Token

\* A token never has two live primaries, although a reservation checks with
\* one statement and writes with another (lock_tokens_with_block_hashes).
OneLivePrimary ==
    \A t \in Token : \A r, s \in Relay :
        LivePrimary(placements[t][r]) /\ LivePrimary(placements[t][s]) => r = s

\* All live rows of a token name the same block, so that a download may fall
\* back from any holder to any other, unless the operator took the primary
\* away and left the replicas.
LiveRowsAgree ==
    \A t \in Token \ severed : \A r, s \in Relay :
        Live(placements[t][r]) /\ Live(placements[t][s]) =>
            placements[t][r].hash = placements[t][s].hash

\* What keeps the invariants when reservations of a token do not overlap:
\* no two requests want the same token; a request has at most one primary row
\* per token it still has to check and no live one for those it has checked;
\* a live row stands by a live primary of the same reservation; and a primary
\* that a download has read is still there.
WantsDisjoint ==
    \A c, o \in Uploader : c # o =>
        Wanted(reserve[c].want) \cap Wanted(reserve[o].want) = {}
PlanIsWanted ==
    \A c \in Uploader :
        /\ reserve[c].todo \subseteq Wanted(reserve[c].want)
        /\ reserve[c].pc # "check" => reserve[c].todo = {} /\ ~reserve[c].occupied
        /\ reserve[c].pc = "commit" =>
             Wanted(reserve[c].at) = Wanted(reserve[c].want)
UncheckedHasOnePrimary ==
    \A c \in Uploader : \A t \in reserve[c].todo : \A r, s \in Relay :
        Primary(placements[t][r]) /\ Primary(placements[t][s]) => r = s
CheckedHasNoLivePrimary ==
    \A c \in Uploader : \A t \in Wanted(reserve[c].want) \ reserve[c].todo :
        ~reserve[c].occupied => \A r \in Relay : ~LivePrimary(placements[t][r])
LiveRowHasPrimary ==
    \A t \in Token \ severed : \A r \in Relay : Live(placements[t][r]) =>
        \E p \in Relay :
            /\ LivePrimary(placements[t][p])
            /\ placements[t][p].hash = placements[t][r].hash
            /\ placements[t][p].ttl = placements[t][r].ttl
SeenIsCurrent ==
    \A d \in Downloader : resolve[d].pc = "answer" =>
        \A r \in Relay : LivePrimary(resolve[d].seen[r]) =>
            \/ placements[resolve[d].token][r] = resolve[d].seen[r]
            \/ resolve[d].token \in severed

PlacementInv ==
    /\ WantsDisjoint
    /\ PlanIsWanted
    /\ UncheckedHasOnePrimary
    /\ CheckedHasNoLivePrimary
    /\ LiveRowHasPrimary
    /\ SeenIsCurrent
    /\ OneLivePrimary

\* What was reserved stays reserved: while it lives, a primary row changes
\* only by the passing of time, and goes only by the operator's hand
\* (registry README: a reservation locks only tokens that are not occupied).
ReservationHolds ==
    [][\A t \in Token, r \in Relay :
         LivePrimary(placements[t][r]) =>
             \/ placements'[t][r] = placements[t][r]
             \/ placements'[t][r] = Older(placements[t][r])
             \/ placements'[t][r] = None /\ t \in severed']_vars

\* A download answered with a primary is not sent to a holder that another
\* reservation has meanwhile replaced: the rows were read before the list of
\* healthy relays was awaited (get_resolve_targets).
ResolvedPrimaryIsCurrent ==
    [][\A d \in Downloader :
         resolve[d].pc = "answer" /\ resolve'[d].pc = "idle" =>
             \A healthy \in Healthy : \A r \in Targets(d, healthy) :
                 Primary(resolve[d].seen[r]) =>
                     \/ placements[resolve[d].token][r] = resolve[d].seen[r]
                     \/ resolve[d].token \in severed]_vars
=============================================================================
