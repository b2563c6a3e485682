-------------------------- MODULE ReceiveDownload --------------------------
(***************************************************************************)
(* Downloads of the client (client/transfer/src): calls of                 *)
(* downloadAdaptive that share one FetchReceiveTransport, as the calls of  *)
(* a TwelveCTransferClient do.  A session prefetches the first m tokens of *)
(* its credential, reads from block 0 how many blocks the file has, stops  *)
(* the tokens beyond the end, and takes the blocks in order, refilling a   *)
(* window ahead of it.  The transport asks the registry where tokens are   *)
(* (lookups queued in one tick travel in one request) and keeps for every  *)
(* token at most one GET, which tries the targets of its record in turn.   *)
(*                                                                         *)
(* JavaScript runs one task at a time: a step is the code between two      *)
(* awaits.  When a promise settles, the sessions that await it continue    *)
(* before the next task (a timer, an answer from the network) is taken.    *)
(*                                                                         *)
(* Left out: bytes within a block, delays, and who is told about progress. *)
(* A block of the wrong length fails the session as a fatal answer does.   *)
(***************************************************************************)
EXTENDS Integers, Sequences, FiniteSets

CONSTANTS
    Session,             \* running calls of downloadAdaptive
    Credential,
    Blocks,              \* [Credential -> Nat]: numTokens of the file
    Wire,                \* [Credential -> Nat]: its wireBlockSize
    Large,               \* credentials whose file is decrypted as it arrives
    RelayMaxBody,        \* relayMaxBodyBytes of the receiver
    Budget,              \* memory budget, in the unit of Wire
    MinPrefetch, MaxPrefetch,
    Targets,             \* [Credential -> Nat]: relays that hold each block
    GetMaxAttempts, ResolveMaxAttempts,
    None,
    Asks                 \* bound: the downloads the sessions may make, one after
                         \* the other, as a set of [Session -> Seq(Credential)]

VARIABLES
    session,    \* the local state of each call
    pending,    \* per token: the entry of `pending`, if any, and its promise
    cancelled,  \* cancelledBeforeResolve
    lookups,    \* lookups under way: their tokens are the keys of `inflight`,
                \* their batch the tokens of the request they travel in, if any
    placed,     \* per credential: what the registry knows of its tokens
    misses      \* history: relays that failed for a token, or were not named

vars == <<session, pending, cancelled, lookups, placed, misses>>

-----------------------------------------------------------------------------
Least(m, n) == IF m <= n THEN m ELSE n
Most(m, n) == IF m >= n THEN m ELSE n

\* resolveReceivePrefetchCount: m for a block size, 0 when it is not known yet
PrefetchCount(wire) ==
    LET bytes == IF wire > 0 THEN wire ELSE RelayMaxBody
    IN  Most(MinPrefetch, Least(MaxPrefetch, Budget \div bytes))

EstimatedM == PrefetchCount(0)
ConcurrentM(c) == PrefetchCount(Wire[c])

ASSUME DownloadAssumption ==
    /\ Blocks \in [Credential -> Nat \ {0}]
    /\ Wire \in [Credential -> Nat \ {0}]
    /\ Targets \in [Credential -> Nat \ {0}]
    /\ Large \subseteq Credential
    /\ None \notin Credential
    /\ {RelayMaxBody, MinPrefetch, MaxPrefetch, GetMaxAttempts,
        ResolveMaxAttempts} \subseteq Nat \ {0}
    /\ Budget \in Nat
    /\ Asks \subseteq [Session -> Seq(Credential)]
    /\ IsFiniteSet(Session)

\* A sender chooses blocks no longer than what the relays accept.
ASSUME BlocksFitRelays == \A c \in Credential : Wire[c] <= RelayMaxBody

Reach(c) == Most(Blocks[c], Most(EstimatedM, ConcurrentM(c)))

\* deriveIndexTokens: the tokens of c from index i up to, not including, j
Tokens(c, i, j) == {c} \X (i .. (j - 1))
Token == UNION {Tokens(c, 0, Reach(c)) : c \in Credential}

NoEntry == [st |-> "none", left |-> 0]
Getting(k) == [st |-> "getting", left |-> k]
Settled(how) == [st |-> how, left |-> 0]
Outcome == {"body", "transient", "fatal"}

\* A download of c.  History: `known`, whether the registry knew the file from the
\* start; `clean`, whether no earlier download of the session failed; `missed`, how
\* often the block it asked for had no relay or went to another download.
Download(c, pc) ==
    [c |-> c, pc |-> pc, i |-> 0, wait |-> {}, out |-> "none", why |-> "none",
     noRoute |-> 0, noBody |-> 0, missed |-> 0, todo |-> <<>>, known |-> FALSE, clean |-> TRUE]

Inflight == UNION {l.tokens : l \in lookups}
Has(t) == pending[t].st # "none"

\* s has a settled promise to continue with; the event loop is free when no
\* session has.
Continues(s) ==
    \/ session[s].out # "none"
    \/ session[s].pc \in {"prefetch", "ensured"} /\ session[s].wait = {}
Quiet == \A s \in Session : ~Continues(s)

TokenOf(s) == <<session[s].c, session[s].i>>
Busy(s) == session[s].pc \notin {"idle", "done", "failed"}

\* What session s does next is at pc; nothing else of it changes but e.
Put(s, e) == session' = [session EXCEPT ![s] = e]
Failed(e, why) == [e EXCEPT !.pc = "failed", !.why = why, !.wait = {},
                            !.out = "none"]
Fail(s, why) == Put(s, Failed(session[s], why))

Init ==
    /\ \E a \in Asks : session = [s \in Session |->
                                     [Download(None, "idle") EXCEPT !.todo = a[s]]]
    /\ pending = [t \in Token |-> NoEntry]
    /\ cancelled = {}
    /\ lookups = {}
    /\ placed = [c \in Credential |-> "unavailable"]
    /\ misses = [t \in Token |-> 0]

-----------------------------------------------------------------------------
(* FetchReceiveTransport, called by a session.                             *)

\* MUTATION of Needed: what is being looked up is asked for again.
NeededAgain(ts) == {t \in ts : ~Has(t)} \ cancelled

\* Those of ts that have no entry, are not cancelled, nor being looked up.
Needed(ts) == {t \in ts : ~Has(t)} \ (cancelled \cup Inflight)

\* ensureTokensStarted: a lookup for what is needed of ts; the caller waits for
\* all lookups of ts.
Ensure(s, ts, e) ==
    LET needed == Needed(ts)
        new == IF needed = {} THEN {} ELSE {[tokens |-> needed, batch |-> {}]}
    IN  /\ lookups' = lookups \cup new
        /\ Put(s, [e EXCEPT !.wait = ts \cap (Inflight \cup needed)])

\* get, at the head of its loop: after a prefetch, at once; after a delay, as
\* a task
Get(s) ==
    /\ \/ session[s].pc = "prefetch" /\ session[s].wait = {}
       \/ session[s].pc = "get" /\ Quiet
    /\ IF TokenOf(s) \in cancelled
         THEN Fail(s, "cancelled") /\ UNCHANGED lookups
         ELSE Ensure(s, {TokenOf(s)}, [session[s] EXCEPT !.pc = "ensured"])
    /\ UNCHANGED <<pending, cancelled, placed, misses>>

\* get, after ensureTokensStarted: await the promise of the entry, or wait
\* for the registry to know the token
Ensured(s) ==
    LET t == TokenOf(s)
        n == session[s].noRoute + 1
        Await == Put(s, [session[s] EXCEPT !.pc = "await"])
        Take == Put(s, [session[s] EXCEPT !.pc = "await", !.out = pending[t].st])
        Retry == Put(s, [session[s] EXCEPT !.pc = "get", !.noRoute = n])
    IN  /\ session[s].pc = "ensured"
        /\ session[s].wait = {}
        /\ CASE t \in cancelled -> Fail(s, "cancelled")
             [] t \notin cancelled /\ pending[t].st = "getting" -> Await
             [] t \notin cancelled /\ pending[t].st \in Outcome -> Take
             [] t \notin cancelled /\ ~Has(t) ->
                  IF n >= ResolveMaxAttempts THEN Fail(s, "unrouted") ELSE Retry
        /\ UNCHANGED <<pending, cancelled, lookups, placed, misses>>


\* A transient error is tried again from the lookup on.
RetryGet(s) == [session[s] EXCEPT !.pc = "get", !.out = "none", !.noBody = @ + 1]

\* The entry of t goes: a session about to look for it does not find it.
Passed(e, t) == IF e.pc = "ensured" /\ e.wait = {} /\ <<e.c, e.i>> = t
                THEN [e EXCEPT !.missed = @ + 1] ELSE e

\* get, when the promise was rejected: the entry goes
TakeError(s) ==
    LET e == session[s]
        next == IF e.out = "fatal" THEN Failed(e, "refused")
                ELSE IF e.noBody + 1 >= GetMaxAttempts THEN Failed(e, "unreachable")
                ELSE RetryGet(s)
    IN  /\ e.out \in {"transient", "fatal"}
        /\ pending' = [pending EXCEPT ![TokenOf(s)] = NoEntry]
        /\ session' = [x \in Session |-> IF x = s THEN next
                                         ELSE Passed(session[x], TokenOf(s))]
        /\ UNCHANGED <<cancelled, lookups, placed, misses>>

-----------------------------------------------------------------------------
(* downloadAdaptive.                                                       *)

\* The initial prefetch: block 0 shares the window with blocks 1 .. m - 1.
StartDownload(s, c) ==
    /\ ~Busy(s)
    /\ session[s].todo # <<>>
    /\ c = Head(session[s].todo)
    /\ Quiet
    /\ Ensure(s, Tokens(c, 0, EstimatedM),
              [Download(c, "prefetch") EXCEPT
                 !.todo = Tail(session[s].todo),
                 !.known = placed[c] # "unavailable",
                 !.clean = session[s].clean /\ session[s].pc # "failed"])
    /\ UNCHANGED <<pending, cancelled, placed, misses>>

\* MUTATION of WindowEnd: one token too many.
WindowEndInclusive(c, i) == Least(Blocks[c], i + 1 + ConcurrentM(c))

\* The window of block i: i itself and the m - 1 blocks behind it.
WindowEnd(c, i) == Least(Blocks[c], i + ConcurrentM(c))

\* decryptDownloadedLargeFile, before block i: refill the window behind it
OpenWindow(s) ==
    LET c == session[s].c
        i == session[s].i
    IN  /\ session[s].pc = "window"
        /\ Quiet
        /\ Ensure(s, Tokens(c, i + 1, WindowEnd(c, i)),
                  [session[s] EXCEPT !.pc = "prefetch"])
        /\ UNCHANGED <<pending, cancelled, placed, misses>>

\* A small file: ask for all blocks outside the first window at once.
FetchRest(s) ==
    LET c == session[s].c
    IN  /\ session[s].pc = "rest"
        /\ Quiet
        /\ Ensure(s, Tokens(c, ConcurrentM(c), Blocks[c]),
                  [session[s] EXCEPT !.pc = "prefetch"])
        /\ UNCHANGED <<pending, cancelled, placed, misses>>

\* Where a session goes when it has the first i blocks of c.
After(c, i) ==
    CASE i = Blocks[c] -> "done"
      [] i < Blocks[c] /\ c \in Large -> "window"
      [] i = 1 /\ i < Blocks[c] /\ c \notin Large ->
           IF Blocks[c] > ConcurrentM(c) THEN "rest" ELSE "get"
      [] i > 1 /\ i < Blocks[c] /\ c \notin Large -> "get"

\* MUTATIONS of CancelAfterSmb: the last block too, nothing.
CancelLastBlock(c) == Tokens(c, Blocks[c] - 1, ConcurrentM(c))
CancelNothing(c) == {}

\* The tokens given up once the file is known: those beyond its end, and, if
\* m became smaller, those beyond the new window.
CancelAfterSmb(c) ==
    Tokens(c, ConcurrentM(c), EstimatedM)
      \cup Tokens(c, Blocks[c], ConcurrentM(c))

\* cancelPending: whoever awaits the GET of a token that is dropped gets an error
Aborted(e, drop) == IF e.pc = "await" /\ <<e.c, e.i>> \in drop
                    THEN [e EXCEPT !.out = "fatal"] ELSE e

\* get returned block i.  Block 0 tells the session what the file is.
TakeBody(s) ==
    LET t == TokenOf(s)
        c == session[s].c
        i == session[s].i + 1
        drop == IF i = 1 THEN CancelAfterSmb(c) ELSE {}
    IN  /\ session[s].out = "body"
        /\ pending' = [u \in Token |-> IF u \in drop \cup {t} THEN NoEntry
                                       ELSE pending[u]]
        /\ cancelled' = (cancelled \ {t}) \cup drop
        /\ session' = [x \in Session |->
             IF x # s THEN Passed(Aborted(session[x], drop), t)
             ELSE [session[s] EXCEPT !.pc = After(c, i), !.i = i, !.out = "none",
                                     !.noRoute = 0, !.noBody = 0, !.missed = 0]]
        /\ misses' = [misses EXCEPT ![t] =
             IF \E x \in Session \ {s} : session[x].c = c THEN @ ELSE 0]
        /\ UNCHANGED <<lookups, placed>>

-----------------------------------------------------------------------------
(* The tasks of the event loop.                                            *)

\* CoalescingRegistryClient.flush: the lookups queued so far travel together.
Queued == {l \in lookups : l.batch = {}}
Flush ==
    LET batch == UNION {l.tokens : l \in Queued}
    IN  /\ Quiet
        /\ Queued # {}
        /\ lookups' = (lookups \ Queued)
                        \cup {[l EXCEPT !.batch = batch] : l \in Queued}
        /\ UNCHANGED <<session, pending, cancelled, placed, misses>>

\* The requests under way, and the lookups that wait for one of them.
Requests == {l.batch : l \in lookups} \ {{}}
Served(b) == {l \in lookups : l.batch = b}
Asked(b) == UNION {l.tokens : l \in Served(b)}

\* The sessions that wait for tokens of a lookup stop waiting for them.
Release(ts) == [s \in Session |-> [session[s] EXCEPT !.wait = @ \ ts]]

\* What the registry knows of t: of the blocks of a file what was reserved and
\* did not expire, and nothing of tokens beyond its end or of purged ones.
Status(t) ==
    IF t[2] >= Blocks[t[1]] \/ placed[t[1]] = "gone" THEN "unavailable"
    ELSE placed[t[1]]

\* resolve_download_routes answers for each token how many relays may serve it.
\* It leaves out relays that are not healthy, and names none when the primary is
\* not, or has no row.
Routes(t) == 0 .. (IF Status(t) = "ready" THEN Targets[t[1]] ELSE 0)
Answers(b) ==
    {r \in [Asked(b) -> UNION {Routes(t) : t \in Asked(b)}] :
        \A t \in Asked(b) : r[t] \in Routes(t)}

\* It classifies the tokens of a request first, and purges all that expired.
Purged == [c \in Credential |-> IF placed[c] = "expired" THEN "gone" ELSE placed[c]]

\* n more failures for t; more than make a session give up are not counted.
Missed(t, n) == Least(misses[t] + n, GetMaxAttempts * Targets[t[1]])

\* RegistryRelayRouter.resolveMany: one expired token spoils its whole lookup.
HasExpired(l) == \E t \in l.tokens : Status(t) = "expired"

\* resolveAndStart for the lookups of a request that is answered.  An expired
\* token rejects the lookup it is in, and all who wait for it; a token without a
\* relay is skipped.
RequestAnswered(b, r) ==
    LET bad == UNION {l.tokens : l \in {x \in Served(b) : HasExpired(x)}}
        start == {t \in Asked(b) \ (bad \cup cancelled) : r[t] > 0 /\ ~Has(t)}
        none == {t \in Asked(b) : Status(t) = "ready" /\ r[t] = 0}
    IN  /\ Quiet
        /\ lookups' = lookups \ Served(b)
        /\ session' = [s \in Session |->
             LET e == session[s]
             IN  IF e.wait \cap bad # {} THEN Failed(e, "expired")
                 ELSE IF e.pc = "ensured" /\ TokenOf(s) \in e.wait \cap none
                 THEN [e EXCEPT !.wait = @ \ Asked(b), !.missed = @ + 1]
                 ELSE [e EXCEPT !.wait = @ \ Asked(b)]]
        /\ pending' = [t \in Token |-> IF t \in start THEN Getting(r[t])
                                       ELSE pending[t]]
        /\ placed' = Purged
        /\ misses' = [t \in Token |-> IF t \in start
                                      THEN Missed(t, Targets[t[1]] - r[t])
                                      ELSE misses[t]]
        /\ UNCHANGED cancelled

\* resolveAndStart when the request failed: entries whose promise is rejected
RequestFailed(b, how) ==
    LET spoil == {t \in Asked(b) \ cancelled : ~Has(t)}
    IN  /\ Quiet
        /\ lookups' = lookups \ Served(b)
        /\ session' = Release(Asked(b))
        /\ pending' = [t \in Token |-> IF t \in spoil THEN Settled(how)
                                       ELSE pending[t]]
        /\ misses' = [t \in Token |-> IF t \in spoil
                                      THEN Missed(t, Targets[t[1]])
                                      ELSE misses[t]]
        /\ UNCHANGED <<cancelled, placed>>

\* The promise of t settles; whoever awaits it continues next.
Settle(t, how) ==
    /\ pending' = [pending EXCEPT ![t] = Settled(how)]
    /\ session' = [s \in Session |->
                     IF session[s].pc = "await" /\ TokenOf(s) = t
                     THEN [session[s] EXCEPT !.out = how] ELSE session[s]]

\* A target answers with the block.
GetSucceeds(t) ==
    /\ pending[t].st = "getting"
    /\ Quiet
    /\ Settle(t, "body")
    /\ UNCHANGED <<cancelled, lookups, placed, misses>>

\* MUTATION of HasFallback: only the primary is tried.
HasNoFallback(t) == pending[t].left > Targets[t[1]]

HasFallback(t) == pending[t].left > 1

\* getWithFallbacks: the next target, or the error of the last one
GetFails(t, how) ==
    /\ pending[t].st = "getting"
    /\ Quiet
    /\ misses' = [misses EXCEPT ![t] = Missed(t, 1)]
    /\ IF HasFallback(t)
         THEN /\ pending' = [pending EXCEPT ![t].left = @ - 1]
              /\ UNCHANGED session
         ELSE Settle(t, how)
    /\ UNCHANGED <<cancelled, lookups, placed>>

-----------------------------------------------------------------------------
(* The registry.                                                           *)

\* The sender reserves all tokens of a file at once, and they expire alike.
\* Files that nobody is going to ask for are left as they are.
Wanted(c) == \E s \in Session :
    \/ Busy(s) /\ session[s].c = c
    \/ \E k \in DOMAIN session[s].todo : session[s].todo[k] = c
Reserved(c) ==
    /\ placed[c] = "unavailable"
    /\ Wanted(c)
    /\ placed' = [placed EXCEPT ![c] = "ready"]
    /\ UNCHANGED <<session, pending, cancelled, lookups, misses>>

Expires(c) ==
    /\ placed[c] = "ready"
    /\ Wanted(c)
    /\ placed' = [placed EXCEPT ![c] = "expired"]
    /\ UNCHANGED <<session, pending, cancelled, lookups, misses>>

\* Reservations, and the requests of other clients, purge what expired.
Purges(c) ==
    /\ placed[c] = "expired"
    /\ Wanted(c)
    /\ placed' = [placed EXCEPT ![c] = "gone"]
    /\ UNCHANGED <<session, pending, cancelled, lookups, misses>>

SessionStep(s) == Get(s) \/ Ensured(s) \/ TakeError(s) \/ TakeBody(s) \/ FetchRest(s)

Answered(b) ==
    \/ \E r \in Answers(b) : RequestAnswered(b, r)
    \/ \E how \in {"transient", "fatal"} : RequestFailed(b, how)

Ended(t) ==
    GetSucceeds(t) \/ \E how \in {"transient", "fatal"} : GetFails(t, how)

\* What the event loop does of its own: timers, queued callbacks, continuations.
Loop == Flush \/ \E s \in Session : SessionStep(s)

\* What comes from the network, and what the browser calls when it paints.
Network == (\E b \in Requests : Answered(b)) \/ (\E t \in Token : Ended(t))
Paint == \E s \in Session : OpenWindow(s)

Next ==
    \/ Loop
    \/ Network
    \/ Paint
    \/ \E s \in Session, c \in Credential : StartDownload(s, c)
    \/ \E c \in Credential : Reserved(c) \/ Expires(c) \/ Purges(c)

Spec == Init /\ [][Next]_vars

\* The event loop does not stop while it has something to do.
FairSpec == Spec /\ WF_vars(Loop)

-----------------------------------------------------------------------------
(* Properties.                                                             *)

SessionState ==
    [c : Credential \cup {None}, i : Nat, wait : SUBSET Token,
     noRoute : Nat, noBody : Nat, missed : Nat,
     pc : {"idle", "prefetch", "get", "ensured", "await", "window", "rest",
           "done", "failed"},
     out : Outcome \cup {"none"},
     why : {"none", "cancelled", "unrouted", "refused", "unreachable", "expired"},
     todo : Seq(Credential), known : BOOLEAN, clean : BOOLEAN]

\* The maps of the transport and the sessions' locals have their types, no index
\* is past the derived tokens, and no token is looked up twice at a time,
\* whatever sessions ask for it between two ticks.
TypeOK ==
    /\ session \in [Session -> SessionState]
    /\ pending \in [Token -> [st : {"none", "getting"} \cup Outcome,
                              left : Nat]]
    /\ cancelled \subseteq Token
    /\ lookups \subseteq [tokens : SUBSET Token, batch : SUBSET Token]
    /\ \A l, m \in lookups : l # m => l.tokens \cap m.tokens = {}
    /\ placed \in [Credential -> {"unavailable", "ready", "expired", "gone"}]
    /\ misses \in [Token -> Nat]

\* cancelledBeforeResolve is never emptied of tokens nobody takes, and get
\* refuses a token in it for ever: whatever sessions shared the transport
\* before, it holds no block that a running download still has to take.
NeededIsNotCancelled ==
    \A s \in Session : Busy(s) =>
        Tokens(session[s].c, session[s].i, Blocks[session[s].c])
          \cap cancelled = {}

\* The refill of the window after every block keeps the GETs that are running
\* or waiting to be decrypted within the prefetch count of the session (the
\* memory budget), as long as no download of it failed.
WindowWithinBudget ==
    \A c \in Large :
        LET on == {s \in Session : Busy(s) /\ session[s].c = c}
        held == {t \in Token : t[1] = c /\ Has(t)}
        IN  (\A s \in Session : session[s].clean /\ session[s].pc # "failed")
              => Cardinality(held) <= Cardinality(on) * Most(EstimatedM, ConcurrentM(c))

\* Downloads that succeed leave the transport empty: every token that was
\* prefetched was taken or cancelled.
SuccessLeavesNothing ==
    (\A s \in Session : session[s].clean /\ session[s].pc \in {"idle", "done"})
      => Inflight = {} /\ \A t \in Token : ~Has(t)

\* A download of a file that the registry knew from the start fails only if
\* the file expired, or one of its blocks was out of reach for long enough: all
\* its relays failed or were left out of the answers, once with an error that
\* is final or in GetMaxAttempts rounds, or each of ResolveMaxAttempts lookups
\* named no relay for it.  What happens to other files is no reason.  A second
\* download of the same file is: get counts an entry that the other one took
\* since the lookup as a token the registry does not know.
FailureHasCause ==
    [][\A s \in Session :
         LET e == session[s]
             t == TokenOf(s)
             why == session'[s].why
         IN  e.known /\ e.pc # "failed" /\ session'[s].pc = "failed" =>
               \/ placed[e.c] \in {"expired", "gone"}
               \/ why = "refused" /\ misses[t] >= Targets[e.c]
               \/ why = "unreachable" /\ misses[t] >= Targets[e.c] * GetMaxAttempts
               \/ why = "unrouted" /\ e.missed >= ResolveMaxAttempts
      ]_vars

\* What the client waits for is assumed to come, one thing or another, as long as
\* it waits for any.  Nothing in the code ensures it: no lookup and no GET has a
\* time limit, so that they settle is up to the network and the servers; and a
\* block of a large file waits for an animation frame, which a page that is
\* hidden is not given.
OutsideAnswers == WF_vars(Network \/ Paint)

=============================================================================
