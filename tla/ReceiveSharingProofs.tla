------------------------ MODULE ReceiveSharingProofs ------------------------
(***************************************************************************)
(* What downloads that share a transport do to one another, for any number *)
(* of sessions, files, blocks and attempts.  First, every token the        *)
(* transport holds is owed to a session that will take it or cancel it, so *)
(* that what is held lies in the windows of the running sessions, and      *)
(* nothing is left when they have succeeded.  Second, a session gives up   *)
(* only for its own file: it expired, or its block was out of reach.       *)
(***************************************************************************)
EXTENDS ReceiveDownloadProofs, FiniteSetTheorems, FunctionTheorems

-----------------------------------------------------------------------------
\* The window holds at least the block itself.
LEMMA PrefetchIsPositive ==
    ASSUME NEW c \in Credential
    PROVE  ConcurrentM(c) >= 1
<1>1. /\ RelayMaxBody \in Nat \ {0} /\ Wire[c] \in Nat \ {0} /\ Budget \in Nat
      /\ MinPrefetch \in Nat \ {0} /\ MaxPrefetch \in Nat
    BY DownloadAssumption
<1>2. Budget \div Wire[c] \in Nat
    BY <1>1, QuotientGrows
<1> QED
    BY <1>1, <1>2 DEF ConcurrentM, PrefetchCount, Most, Least

-----------------------------------------------------------------------------
(* Tokens that are owed.                                                   *)

\* The session will take the block of t, or cancel t when it has block 0; and
\* t is in the window of a file that is decrypted as it arrives.
Owed(e, t) ==
    /\ Running(e)
    /\ t[1] = e.c /\ e.i <= t[2]
    /\ t[2] < Blocks[e.c] \/ (e.i = 0 /\ t[2] < EstimatedM)
    /\ e.c \in Large => t[2] < e.i + ConcurrentM(e.c)

\* No download has failed.
AllClean == \A s \in Session : session[s].clean /\ session[s].pc # "failed"

\* Who waits for a lookup owes its tokens; and while no download has failed,
\* lookups have waiters and entries are owed.
WaitsAreOwed ==
    \A s \in Session : \A t \in session[s].wait : Owed(session[s], t)
RestIsSmall ==
    \A s \in Session :
        session[s].pc = "rest" => session[s].c \notin Large /\ session[s].i = 1
LookupsAwaited ==
    AllClean => \A t \in Inflight : \E s \in Session : t \in session[s].wait
EntriesOwed ==
    AllClean => \A t \in Token :
                    Has(t) => \E s \in Session : Owed(session[s], t)

OwedInv == WaitsAreOwed /\ RestIsSmall /\ LookupsAwaited /\ EntriesOwed

\* What is owed depends on the file and the position, not on what is awaited.
LEMMA OwedDepends ==
    ASSUME NEW e, NEW f, f.c = e.c, f.i = e.i, Running(e) => Running(f)
    PROVE  \A t : Owed(e, t) => Owed(f, t)
BY DEF Owed

\* ensureTokensStarted, for tokens the caller owes.
LEMMA EnsureOwes ==
    ASSUME ReceiveInv, OwedInv, NEW s \in Session, NEW ts \in SUBSET Token,
           NEW e \in SessionState, e.pc \in {"prefetch", "ensured"},
           Ensure(s, ts, e), UNCHANGED pending,
           session[s].wait = {},
           \A t \in ts : Owed(e, t),
           \A t : Owed(session[s], t) => Owed(e, t),
           e.clean => session[s].clean /\ session[s].pc # "failed"
    PROVE  OwedInv'
<1> DEFINE needed == Needed(ts)
           w == ts \cap (Inflight \cup needed)
           f == [e EXCEPT !.wait = w]
<1>1. /\ lookups' = lookups \cup
           (IF needed = {} THEN {} ELSE {[tokens |-> needed, batch |-> {}]})
      /\ session' = [session EXCEPT ![s] = f]
    BY DEF Ensure, Put
<1>2. /\ needed \subseteq ts
      /\ \A t \in needed : t \in w
      /\ w \subseteq ts
    BY DEF Needed
<1> HIDE DEF needed, w
<1>3. /\ f.c = e.c /\ f.i = e.i /\ f.pc = e.pc /\ f.clean = e.clean /\ f.wait = w
    BY DEF SessionState
<1>4. session \in [Session -> SessionState]
    BY DEF ReceiveInv, SessionsOK
<1>5. session'[s] = f /\ \A x \in Session : x # s => session'[x] = session[x]
    BY <1>1, <1>4
<1>6. \A t : Owed(e, t) => Owed(f, t)
    BY <1>3, OwedDepends DEF Running
<1> HIDE DEF f
<1>7. AllClean' => AllClean
    BY <1>3, <1>5 DEF AllClean
<1>8. WaitsAreOwed'
    BY <1>2, <1>3, <1>5, <1>6 DEF OwedInv, WaitsAreOwed
<1>9. RestIsSmall'
    BY <1>3, <1>5 DEF OwedInv, RestIsSmall
<1>10. LookupsAwaited'
  <2>1. \A t \in Inflight' : t \in Inflight \/ t \in needed
    BY <1>1 DEF Inflight
  <2>2. ASSUME AllClean, NEW t \in Inflight
        PROVE  \E x \in Session : t \in session'[x].wait
    <3>1. PICK x \in Session : t \in session[x].wait
      BY <2>2 DEF OwedInv, LookupsAwaited
    <3> QED
      BY <1>5, <3>1
  <2>3. \A t \in needed : t \in session'[s].wait
    BY <1>2, <1>3, <1>5
  <2> QED
    BY <1>7, <2>1, <2>2, <2>3 DEF LookupsAwaited
<1>11. EntriesOwed'
  <2>1. \A t \in Token : Has(t)' <=> Has(t)
    BY DEF Has
  <2>2. ASSUME NEW x \in Session, NEW t, Owed(session[x], t)
        PROVE  Owed(session'[x], t)
    BY <1>5, <1>6, <2>2
  <2> QED
    BY <1>7, <2>1, <2>2 DEF OwedInv, EntriesOwed
<1> QED
    BY <1>8, <1>9, <1>10, <1>11 DEF OwedInv

\* A step that moves no session to another file or block, starts or ends no
\* lookup and adds no entry.
LEMMA SteadyOwes ==
    ASSUME OwedInv, Inflight' = Inflight,
           \A t \in Token : Has(t)' => Has(t),
           \A x \in Session :
             /\ session'[x].c = session[x].c /\ session'[x].i = session[x].i
             /\ session'[x].clean = session[x].clean
             /\ session'[x].wait = session[x].wait
             /\ \/ session'[x].pc = session[x].pc
                \/ /\ Running(session[x]) /\ Running(session'[x])
                   /\ session'[x].pc # "rest"
    PROVE  OwedInv'
<1>1. \A x \in Session : \A t : Owed(session[x], t) => Owed(session'[x], t)
    BY OwedDepends DEF Running
<1>2. AllClean' => AllClean
    BY DEF AllClean, Running
<1>3. WaitsAreOwed' /\ RestIsSmall'
    BY <1>1 DEF OwedInv, WaitsAreOwed, RestIsSmall
<1>4. LookupsAwaited' /\ EntriesOwed'
    BY <1>1, <1>2 DEF OwedInv, LookupsAwaited, EntriesOwed
<1> QED
    BY <1>3, <1>4 DEF OwedInv

\* After a failure only what the other sessions wait for is promised.
LEMMA FailureOwes ==
    ASSUME OwedInv, NEW s \in Session, session'[s].pc = "failed",
           \A x \in Session : LET g == session'[x] IN
             \/ g.pc = "failed" /\ g.wait = {}
             \/ /\ g.c = session[x].c /\ g.i = session[x].i /\ g.pc = session[x].pc
                /\ g.wait \subseteq session[x].wait
    PROVE  OwedInv'
<1>1. ~AllClean'
    BY DEF AllClean
<1>2. WaitsAreOwed'
  <2> SUFFICES ASSUME NEW x \in Session, NEW t \in session'[x].wait
               PROVE  Owed(session'[x], t)
    BY DEF WaitsAreOwed
  <2>1. /\ session'[x].c = session[x].c /\ session'[x].i = session[x].i
        /\ session'[x].pc = session[x].pc /\ t \in session[x].wait
    OBVIOUS
  <2> QED
    BY <2>1, OwedDepends DEF OwedInv, WaitsAreOwed, Running
<1>3. RestIsSmall'
    BY DEF OwedInv, RestIsSmall
<1> QED
    BY <1>1, <1>2, <1>3 DEF OwedInv, LookupsAwaited, EntriesOwed

\* Passed only counts.
LEMMA PassedFacts ==
    ASSUME NEW e \in SessionState, NEW t
    PROVE  LET g == Passed(e, t) IN
           /\ g.c = e.c /\ g.i = e.i /\ g.pc = e.pc /\ g.wait = e.wait
           /\ g.out = e.out /\ g.why = e.why /\ g.known = e.known /\ g.clean = e.clean
           /\ g.noRoute = e.noRoute /\ g.noBody = e.noBody
           /\ g.missed \in Nat /\ g.missed >= e.missed
           /\ e.pc = "ensured" /\ e.wait = {} /\ <<e.c, e.i>> = t
                => g.missed > e.missed
<1>1. e.missed \in Nat
    BY DEF SessionState
<1>2. CASE e.pc = "ensured" /\ e.wait = {} /\ <<e.c, e.i>> = t
  <2>1. PICK n : n = e.missed + 1
    OBVIOUS
  <2>2. Passed(e, t) = [e EXCEPT !.missed = n]
    BY <1>2, <2>1 DEF Passed
  <2> QED
    BY <1>1, <2>1, <2>2 DEF SessionState
<1>3. CASE ~(e.pc = "ensured" /\ e.wait = {} /\ <<e.c, e.i>> = t)
  <2>1. Passed(e, t) = e
    BY <1>3 DEF Passed
  <2> QED
    BY <1>1, <1>3, <2>1
<1> QED
    BY <1>2, <1>3

-----------------------------------------------------------------------------
(* The steps of a session.                                                 *)

\* A token of the window of the block a session is at.
LEMMA WindowIsOwed ==
    ASSUME ReceiveInv, NEW s \in Session, Running(session[s])
    PROVE  LET e == session[s] IN
           /\ e.c \in Credential /\ e.i \in Nat /\ e.i < Blocks[e.c]
           /\ Blocks[e.c] \in Nat /\ EstimatedM \in Nat
           /\ ConcurrentM(e.c) \in Nat /\ EstimatedM <= ConcurrentM(e.c)
           /\ ConcurrentM(e.c) >= 1
           /\ Owed(e, TokenOf(s)) /\ TokenOf(s) \in Token
           /\ \A t \in Tokens(e.c, e.i + 1, WindowEnd(e.c, e.i)) : Owed(e, t)
<1> DEFINE e == session[s]
<1>1. /\ SessionOK(e) /\ e \in SessionState
      /\ e.c \in Credential /\ e.i \in Nat /\ e.i < Blocks[e.c]
    BY SessionFacts DEF SessionOK, SessionState
<1>2. /\ Blocks[e.c] \in Nat /\ EstimatedM \in Nat
      /\ ConcurrentM(e.c) \in Nat /\ EstimatedM <= ConcurrentM(e.c)
      /\ TokenOf(s) \in Token
    BY <1>1, TokenFacts, WindowGrows DEF TokenOf
<1>3. ConcurrentM(e.c) >= 1
    BY <1>1, PrefetchIsPositive
<1> HIDE DEF e
<1>4. Owed(e, <<e.c, e.i>>)
    BY <1>1, <1>2, <1>3 DEF Owed, e
<1>5. ASSUME NEW t \in Tokens(e.c, e.i + 1, WindowEnd(e.c, e.i))
      PROVE  Owed(e, t)
  <2>1. WindowEnd(e.c, e.i) \in Int /\ WindowEnd(e.c, e.i) <= Blocks[e.c]
        /\ WindowEnd(e.c, e.i) <= e.i + ConcurrentM(e.c)
    BY <1>1, <1>2 DEF WindowEnd, Least
  <2>2. t[1] = e.c /\ t[2] \in (e.i + 1) .. (WindowEnd(e.c, e.i) - 1)
    BY <1>5 DEF Tokens
  <2> QED
    BY <1>1, <1>2, <2>1, <2>2 DEF Owed, e
<1> QED
    BY <1>1, <1>2, <1>3, <1>4, <1>5 DEF e, TokenOf

LEMMA SessionOwes ==
    ASSUME ReceiveInv, OwedInv, NEW s \in Session,
           Get(s) \/ Ensured(s) \/ TakeError(s) \/ OpenWindow(s) \/ FetchRest(s)
    PROVE  OwedInv'
<1> DEFINE e == session[s]
<1>1. /\ SessionOK(e) /\ e \in SessionState
      /\ session \in [Session -> SessionState]
      /\ e.out # "none" => e.pc = "await" /\ e.wait = {}
      /\ e.wait # {} => e.pc \in {"prefetch", "ensured"}
    BY SessionFacts DEF ReceiveInv, SessionsOK
<1>2. ASSUME NEW why, session'[s] = Failed(e, why),
             \A x \in Session : x # s => \/ session'[x] = session[x]
                                         \/ session'[x] = Passed(session[x], TokenOf(s))
      PROVE  OwedInv'
  <2>1. session'[s].pc = "failed" /\ session'[s].wait = {}
    BY <1>1, <1>2 DEF Failed, SessionState
  <2>2. \A x \in Session : x # s =>
          LET g == session'[x] IN
          /\ g.c = session[x].c /\ g.i = session[x].i /\ g.pc = session[x].pc
          /\ g.wait = session[x].wait
    BY <1>1, <1>2, PassedFacts
  <2> QED
    BY <2>1, <2>2, FailureOwes
<1>3. ASSUME NEW f \in SessionState, session'[s] = f,
             \A x \in Session : x # s => \/ session'[x] = session[x]
                                         \/ session'[x] = Passed(session[x], TokenOf(s)),
             Running(e), Running(f), UNCHANGED lookups,
             \A t \in Token : Has(t)' => Has(t),
             f.c = e.c, f.i = e.i, f.clean = e.clean, f.wait = e.wait, f.pc # "rest"
      PROVE  OwedInv'
  <2>1. \A x \in Session : x # s =>
          LET g == session'[x] IN
          /\ g.c = session[x].c /\ g.i = session[x].i /\ g.pc = session[x].pc
          /\ g.clean = session[x].clean /\ g.wait = session[x].wait
    BY <1>1, <1>3, PassedFacts
  <2>2. Inflight' = Inflight
    BY <1>3 DEF Inflight
  <2> HIDE DEF e
  <2>3. \A x \in Session :
          /\ session'[x].c = session[x].c /\ session'[x].i = session[x].i
          /\ session'[x].clean = session[x].clean
          /\ session'[x].wait = session[x].wait
          /\ \/ session'[x].pc = session[x].pc
             \/ /\ Running(session[x]) /\ Running(session'[x])
                /\ session'[x].pc # "rest"
    BY <1>3, <2>1 DEF e
  <2> QED
    BY <1>3, <2>2, <2>3, SteadyOwes
<1>4. ASSUME NEW f, Put(s, f)
       PROVE  /\ session'[s] = f
              /\ \A x \in Session : x # s => session'[x] = session[x]
    BY <1>1, <1>4 DEF Put
<1>5. ASSUME NEW why, Fail(s, why) PROVE OwedInv'
    BY <1>2, <1>4, <1>5 DEF Fail
<1>6. ASSUME NEW ts \in SUBSET Token, NEW pc \in {"prefetch", "ensured"},
             Ensure(s, ts, [e EXCEPT !.pc = pc]), UNCHANGED pending,
             Running(e), e.wait = {}, \A t \in ts : Owed(e, t)
      PROVE  OwedInv'
  <2> DEFINE f == [e EXCEPT !.pc = pc]
  <2>1. /\ f \in SessionState /\ f.pc = pc /\ f.c = e.c /\ f.i = e.i
        /\ f.clean = e.clean /\ Running(f)
    BY <1>1 DEF SessionState, Running
  <2>2. \A t : Owed(e, t) => Owed(f, t)
    BY <2>1, OwedDepends
  <2>3. f.clean => e.clean /\ e.pc # "failed"
    BY <1>6, <2>1 DEF Running
  <2> HIDE DEF f
  <2>4. Ensure(s, ts, f)
    BY <1>6 DEF f
  <2> QED
    BY <1>6, <2>1, <2>2, <2>3, <2>4, EnsureOwes
<1>7. CASE Get(s)
  <2>1. Running(e) /\ e.wait = {} /\ UNCHANGED pending
    BY <1>1, <1>7 DEF Get, Running
  <2>2. Owed(e, TokenOf(s)) /\ TokenOf(s) \in Token
    BY <2>1, WindowIsOwed
  <2>3. CASE TokenOf(s) \in cancelled
    BY <1>5, <1>7, <2>3 DEF Get
  <2>4. CASE TokenOf(s) \notin cancelled
    <3>1. Ensure(s, {TokenOf(s)}, [e EXCEPT !.pc = "ensured"])
      BY <1>7, <2>4 DEF Get
    <3> HIDE DEF e
    <3> QED
      BY <1>6, <2>1, <2>2, <3>1
  <2> QED
    BY <2>3, <2>4
<1>8. CASE Ensured(s)
  <2>1. /\ Running(e) /\ e.noRoute + 1 \in Nat
        /\ UNCHANGED <<pending, lookups>>
        /\ \A t \in Token : Has(t)' => Has(t)
    BY <1>1, <1>8 DEF Ensured, Running, SessionState, Has
  <2>2. \/ Fail(s, "cancelled") \/ Fail(s, "unrouted")
        \/ Put(s, [e EXCEPT !.pc = "await"])
        \/ /\ pending[TokenOf(s)].st \in Outcome
           /\ Put(s, [e EXCEPT !.pc = "await", !.out = pending[TokenOf(s)].st])
        \/ Put(s, [e EXCEPT !.pc = "get", !.noRoute = e.noRoute + 1])
    <3>1. pending[TokenOf(s)].st \in {"none", "getting"} \cup Outcome
      BY <2>1, WindowIsOwed DEF ReceiveInv, TransportOK
    <3> QED
      BY <1>8, <3>1 DEF Ensured, Has
  <2>3. CASE Fail(s, "cancelled") \/ Fail(s, "unrouted")
    BY <1>5, <2>3
  <2>4. CASE Put(s, [e EXCEPT !.pc = "await"])
    <3> DEFINE f == [e EXCEPT !.pc = "await"]
    <3>1. /\ f \in SessionState /\ Running(f) /\ f.c = e.c /\ f.i = e.i
          /\ f.clean = e.clean /\ f.wait = e.wait /\ f.pc # "rest"
      BY <1>1 DEF SessionState, Running
    <3>2. Put(s, f)
      BY <2>4
    <3> HIDE DEF e, f
    <3> QED
      BY <1>3, <1>4, <2>1, <3>1, <3>2
  <2>5. CASE /\ pending[TokenOf(s)].st \in Outcome
             /\ Put(s, [e EXCEPT !.pc = "await", !.out = pending[TokenOf(s)].st])
    <3> DEFINE f == [e EXCEPT !.pc = "await", !.out = pending[TokenOf(s)].st]
    <3>1. /\ f \in SessionState /\ Running(f) /\ f.c = e.c /\ f.i = e.i
          /\ f.clean = e.clean /\ f.wait = e.wait /\ f.pc # "rest"
      BY <1>1, <2>5 DEF SessionState, Running
    <3>2. Put(s, f)
      BY <2>5
    <3> HIDE DEF e, f
    <3> QED
      BY <1>3, <1>4, <2>1, <3>1, <3>2
  <2>6. CASE Put(s, [e EXCEPT !.pc = "get", !.noRoute = e.noRoute + 1])
    <3> DEFINE n == e.noRoute + 1
               f == [e EXCEPT !.pc = "get", !.noRoute = n]
    <3> HIDE DEF n
    <3>1. n \in Nat
      BY <2>1 DEF n
    <3>2. /\ f \in SessionState /\ Running(f) /\ f.c = e.c /\ f.i = e.i
          /\ f.clean = e.clean /\ f.wait = e.wait /\ f.pc # "rest"
      BY <1>1, <3>1 DEF SessionState, Running
    <3>3. Put(s, f)
      BY <2>6 DEF n
    <3> HIDE DEF e, f
    <3> QED
      BY <1>3, <1>4, <2>1, <3>2, <3>3
  <2> QED
    BY <2>2, <2>3, <2>4, <2>5, <2>6
<1>9. CASE TakeError(s)
  <2>1. /\ Running(e) /\ e.pc = "await" /\ e.wait = {} /\ UNCHANGED lookups
        /\ pending' = [pending EXCEPT ![TokenOf(s)] = NoEntry]
    BY <1>1, <1>9 DEF TakeError, Running
  <2>2. \A t \in Token : Has(t)' => Has(t)
    BY <2>1 DEF Has, NoEntry, ReceiveInv, TransportOK
  <2>3. \A x \in Session : x # s => session'[x] = Passed(session[x], TokenOf(s))
    BY <1>9 DEF TakeError
  <2>4. \/ \E why : session'[s] = Failed(e, why)
        \/ session'[s] = RetryGet(s)
    BY <1>9 DEF TakeError
  <2>5. ASSUME NEW why, session'[s] = Failed(e, why) PROVE OwedInv'
    BY <1>2, <2>3, <2>5
  <2>6. CASE session'[s] = RetryGet(s)
    <3> DEFINE f == RetryGet(s)
    <3>1. /\ f \in SessionState /\ Running(f) /\ f.c = e.c /\ f.i = e.i
          /\ f.clean = e.clean /\ f.wait = e.wait /\ f.pc # "rest"
      <4>1. e.noBody + 1 \in Nat
        BY <1>1 DEF SessionState
      <4>2. \A n \in Nat : LET g == [e EXCEPT !.pc = "get", !.out = "none", !.noBody = n]
                           IN  /\ g \in SessionState /\ Running(g) /\ g.c = e.c
                               /\ g.i = e.i /\ g.clean = e.clean
                               /\ g.wait = e.wait /\ g.pc # "rest"
        BY <1>1 DEF SessionState, Running
      <4> QED
        BY <4>1, <4>2 DEF RetryGet
    <3>2. session'[s] = f
      BY <2>6
    <3> HIDE DEF e, f
    <3> QED
      BY <1>3, <2>1, <2>2, <2>3, <3>1, <3>2
  <2> QED
    BY <2>4, <2>5, <2>6
<1>10. CASE OpenWindow(s)
  <2>1. /\ Running(e) /\ e.wait = {} /\ UNCHANGED pending
        /\ Ensure(s, Tokens(e.c, e.i + 1, WindowEnd(e.c, e.i)),
                  [e EXCEPT !.pc = "prefetch"])
    BY <1>1, <1>10 DEF OpenWindow, Running
  <2> DEFINE ts == Tokens(e.c, e.i + 1, WindowEnd(e.c, e.i))
  <2>2. \A t \in ts : Owed(e, t)
    BY <2>1, WindowIsOwed
  <2>3. ts \in SUBSET Token
    <3>1. e.c \in Credential /\ e.i \in Nat
      BY <2>1, WindowIsOwed
    <3> QED
      BY <3>1, TokenFacts
  <2> HIDE DEF e
  <2> QED
    BY <1>6, <2>1, <2>2, <2>3
<1>11. CASE FetchRest(s)
  <2>1. /\ Running(e) /\ e.wait = {} /\ UNCHANGED pending
        /\ Ensure(s, Tokens(e.c, ConcurrentM(e.c), Blocks[e.c]),
                  [e EXCEPT !.pc = "prefetch"])
        /\ e.c \notin Large /\ e.i = 1
    BY <1>1, <1>11 DEF FetchRest, Running, OwedInv, RestIsSmall
  <2> DEFINE ts == Tokens(e.c, ConcurrentM(e.c), Blocks[e.c])
  <2>2. /\ e.c \in Credential /\ Blocks[e.c] \in Nat
        /\ ConcurrentM(e.c) \in Nat /\ ConcurrentM(e.c) >= 1
    BY <2>1, WindowIsOwed
  <2>3. ts \in SUBSET Token
    BY <2>2, TokenFacts
  <2>4. \A t \in ts : Owed(e, t)
    BY <2>1, <2>2 DEF Tokens, Owed
  <2> HIDE DEF e
  <2> QED
    BY <1>6, <2>1, <2>3, <2>4
<1> QED
    BY <1>7, <1>8, <1>9, <1>10, <1>11

\* A download owes what it prefetches.
LEMMA StartOwes ==
    ASSUME ReceiveInv, OwedInv, NEW s \in Session, NEW c \in Credential,
           StartDownload(s, c)
    PROVE  OwedInv'
<1> DEFINE e == session[s]
           td == Tail(e.todo)
           kn == placed[c] # "unavailable"
           cl == e.clean /\ e.pc # "failed"
           d == [Download(c, "prefetch") EXCEPT !.todo = td, !.known = kn, !.clean = cl]
           ts == Tokens(c, 0, EstimatedM)
<1>1. /\ Ensure(s, ts, d) /\ e.todo # <<>> /\ ~Busy(s) /\ UNCHANGED pending
    BY DEF StartDownload
<1>2. /\ e.todo \in Seq(Credential) /\ e.clean \in BOOLEAN
      /\ e.wait = {} /\ ~Running(e)
    BY <1>1, SessionFacts DEF SessionState, Busy, Running
<1>3. td \in Seq(Credential) /\ kn \in BOOLEAN /\ cl \in BOOLEAN
    BY <1>1, <1>2
<1>4. cl => e.clean /\ e.pc # "failed"
    OBVIOUS
<1> HIDE DEF td, kn, cl
<1>5. /\ d \in SessionState /\ d.c = c /\ d.pc = "prefetch" /\ d.i = 0
      /\ d.clean = cl
    BY <1>3 DEF SessionState, Download, Outcome
<1> HIDE DEF d
<1>6. ConcurrentM(c) \in Nat /\ EstimatedM \in Nat /\ EstimatedM <= ConcurrentM(c)
    BY WindowGrows
<1>7. ASSUME NEW t \in ts PROVE Owed(d, t)
  <2>1. t[1] = c /\ t[2] \in Nat /\ t[2] < EstimatedM
    BY <1>6 DEF Tokens
  <2> QED
    BY <1>5, <1>6, <2>1 DEF Owed, Running
<1>8. \A t : Owed(e, t) => Owed(d, t)
    BY <1>2 DEF Owed
<1>9. ts \in SUBSET Token
    BY TokenFacts
<1> HIDE DEF ts
<1> QED
    BY <1>1, <1>2, <1>4, <1>5, <1>7, <1>8, <1>9, EnsureOwes

\* What the session owed beyond the block it takes it still owes; what lies
\* past the end of the file is taken out of `pending`.
LEMMA TakeBodyOwes ==
    ASSUME ReceiveInv, OwedInv, NEW s \in Session, TakeBody(s)
    PROVE  OwedInv'
<1> DEFINE e == session[s]
           i == e.i + 1
           drop == IF i = 1 THEN CancelAfterSmb(e.c) ELSE {}
           f == [e EXCEPT !.pc = After(e.c, i), !.i = i, !.out = "none",
                          !.noRoute = 0, !.noBody = 0, !.missed = 0]
<1>1. /\ e.out = "body"
      /\ pending' = [u \in Token |-> IF u \in drop \cup {TokenOf(s)} THEN NoEntry
                                      ELSE pending[u]]
      /\ session' = [x \in Session |-> IF x # s
              THEN Passed(Aborted(session[x], drop), TokenOf(s)) ELSE f]
      /\ UNCHANGED lookups
    BY DEF TakeBody
<1>2. /\ e \in SessionState /\ e.wait = {} /\ Running(e)
    BY <1>1, SessionFacts DEF Running
<1>3. /\ e.c \in Credential /\ e.i \in Nat /\ i \in Nat /\ i # 0
      /\ e.i < Blocks[e.c] /\ Blocks[e.c] \in Nat /\ EstimatedM \in Nat
      /\ ConcurrentM(e.c) \in Nat /\ EstimatedM <= ConcurrentM(e.c)
    BY <1>2, WindowIsOwed
<1>4. /\ After(e.c, i) \in {"done", "window", "rest", "get"}
      /\ i < Blocks[e.c] => After(e.c, i) # "done"
      /\ After(e.c, i) = "rest" => i = 1 /\ e.c \notin Large
    BY <1>3 DEF After
<1> HIDE DEF i
<1>5. /\ f.c = e.c /\ f.i = i /\ f.clean = e.clean /\ f.wait = {}
      /\ f.pc = After(e.c, i)
    BY <1>2 DEF SessionState
<1>6. \A u \in Token : u[1] \in Credential /\ u[2] \in Nat
    BY TokenFacts
<1>7. ASSUME NEW u \in Token, Owed(e, u), u \notin drop, u # TokenOf(s)
      PROVE  Owed(f, u)
  <2>1. u[1] = e.c /\ e.i <= u[2] /\ u[2] \in Nat
    BY <1>6, <1>7 DEF Owed
  <2>2. u \in {e.c} \X Nat
    <3>1. PICK c \in Credential : u \in Tokens(c, 0, Reach(c))
      BY <1>7 DEF Token
    <3>2. u = <<u[1], u[2]>>
      BY <3>1 DEF Tokens
    <3> QED
      BY <2>1, <3>2
  <2>3. u[2] # e.i
    BY <1>7, <2>1, <2>2 DEF TokenOf
  <2>4. i <= u[2]
    BY <1>3, <2>1, <2>3 DEF i
  <2>5. u[2] < Blocks[e.c]
    <3> SUFFICES ASSUME ~(u[2] < Blocks[e.c]) PROVE FALSE
      OBVIOUS
    <3>1. e.i = 0 /\ u[2] < EstimatedM
      BY <1>7 DEF Owed
    <3>2. u[2] \in Blocks[e.c] .. (ConcurrentM(e.c) - 1)
      BY <1>3, <2>1, <3>1
    <3>3. u \in Tokens(e.c, Blocks[e.c], ConcurrentM(e.c))
      BY <2>2, <3>2 DEF Tokens
    <3>4. i = 1
      BY <3>1 DEF i
    <3> QED
      BY <1>7, <3>3, <3>4 DEF CancelAfterSmb
  <2>6. Running(f)
    BY <1>3, <1>4, <1>5, <2>1, <2>4, <2>5 DEF Running
  <2>7. e.c \in Large => u[2] < i + ConcurrentM(e.c)
    BY <1>3, <1>7, <2>1 DEF Owed, i
  <2> QED
    BY <1>5, <2>1, <2>4, <2>5, <2>6, <2>7 DEF Owed
<1> HIDE DEF drop, f
<1>8. ASSUME NEW x \in Session, x # s
      PROVE  LET g == session'[x] IN
             /\ g.c = session[x].c /\ g.i = session[x].i /\ g.pc = session[x].pc
             /\ g.clean = session[x].clean /\ g.wait = session[x].wait
  <2>1. /\ session[x] \in SessionState
        /\ session'[x] = Passed(Aborted(session[x], drop), TokenOf(s))
    BY <1>1, <1>8, SessionFacts
  <2>2. /\ Aborted(session[x], drop) \in SessionState
        /\ LET g == Aborted(session[x], drop) IN
             /\ g.c = session[x].c /\ g.i = session[x].i /\ g.pc = session[x].pc
             /\ g.clean = session[x].clean /\ g.wait = session[x].wait
    BY <2>1 DEF Aborted, SessionState, Outcome
  <2> QED
    BY <2>1, <2>2, PassedFacts
<1>9. session'[s] = f
    BY <1>1
<1>10. \A x \in Session : x # s => \A u : Owed(session[x], u) => Owed(session'[x], u)
    BY <1>8, OwedDepends DEF Running
<1>11. AllClean' => AllClean
    BY <1>2, <1>5, <1>8, <1>9 DEF AllClean, Running
<1>12. Inflight' = Inflight
    BY <1>1 DEF Inflight
<1>13. WaitsAreOwed'
    BY <1>5, <1>8, <1>9, <1>10 DEF OwedInv, WaitsAreOwed
<1>14. RestIsSmall'
    BY <1>4, <1>5, <1>8, <1>9 DEF OwedInv, RestIsSmall
<1>15. LookupsAwaited'
    BY <1>2, <1>8, <1>11, <1>12 DEF OwedInv, LookupsAwaited
<1>16. EntriesOwed'
  <2> SUFFICES ASSUME AllClean', NEW u \in Token, Has(u)'
               PROVE  \E x \in Session : Owed(session'[x], u)
    BY DEF EntriesOwed
  <2>1. Has(u) /\ u \notin drop /\ u # TokenOf(s)
    BY <1>1 DEF Has, NoEntry
  <2>2. PICK x \in Session : Owed(session[x], u)
    BY <1>11, <2>1 DEF OwedInv, EntriesOwed
  <2> QED
    BY <1>7, <1>9, <1>10, <2>1, <2>2
<1> QED
    BY <1>13, <1>14, <1>15, <1>16 DEF OwedInv

-----------------------------------------------------------------------------
(* The other tasks.                                                        *)

\* The tokens of a request that ended may become entries: they were awaited,
\* and are still owed.
LEMMA ReleaseOwes ==
    ASSUME ReceiveInv, OwedInv, NEW b, lookups' = lookups \ Served(b),
           \A x \in Session : LET g == session'[x] IN
             /\ g.c = session[x].c /\ g.i = session[x].i /\ g.pc = session[x].pc
             /\ g.clean = session[x].clean
             /\ g.wait = session[x].wait \ Asked(b),
           \A t \in Token : Has(t)' => Has(t) \/ t \in Asked(b)
    PROVE  OwedInv'
<1>1. \A x \in Session : \A t : Owed(session[x], t) => Owed(session'[x], t)
    BY OwedDepends DEF Running
<1>2. AllClean' => AllClean
    BY DEF AllClean
<1>3. WaitsAreOwed' /\ RestIsSmall'
    BY <1>1 DEF OwedInv, WaitsAreOwed, RestIsSmall
<1>4. Asked(b) \subseteq Inflight
    BY DEF Asked, Served, Inflight
<1>5. \A t \in Inflight' : t \in Inflight /\ t \notin Asked(b)
  <2> SUFFICES ASSUME NEW l \in lookups \ Served(b), NEW t \in l.tokens
               PROVE  t \in Inflight /\ t \notin Asked(b)
    BY DEF Inflight
  <2>1. \A m \in Served(b) : m \in lookups /\ l # m
    BY DEF Served
  <2> QED
    BY <2>1 DEF Inflight, Asked, ReceiveInv, LookupsApart
<1>6. LookupsAwaited'
    BY <1>2, <1>5 DEF OwedInv, LookupsAwaited
<1>7. EntriesOwed'
  <2> SUFFICES ASSUME AllClean', NEW t \in Token, Has(t)'
               PROVE  \E x \in Session : Owed(session'[x], t)
    BY DEF EntriesOwed
  <2>1. CASE Has(t)
    BY <1>1, <1>2, <2>1 DEF OwedInv, EntriesOwed
  <2>2. CASE t \in Asked(b)
    <3>1. PICK x \in Session : t \in session[x].wait
      BY <1>2, <1>4, <2>2 DEF OwedInv, LookupsAwaited
    <3> QED
      BY <1>1, <3>1 DEF OwedInv, WaitsAreOwed
  <2> QED
    BY <2>1, <2>2
<1> QED
    BY <1>3, <1>6, <1>7 DEF OwedInv

LEMMA AnsweredOwes ==
    ASSUME ReceiveInv, OwedInv, NEW b, Answered(b)
    PROVE  OwedInv'
<1>1. lookups' = lookups \ Served(b)
    BY DEF Answered, RequestAnswered, RequestFailed
<1>2. ASSUME NEW r, RequestAnswered(b, r) PROVE OwedInv'
  <2> DEFINE bad == UNION {l.tokens : l \in {x \in Served(b) : HasExpired(x)}}
             start == {t \in Asked(b) \ (bad \cup cancelled) : r[t] > 0 /\ ~Has(t)}
             none == {t \in Asked(b) : Status(t) = "ready" /\ r[t] = 0}
             calm(e) == [e EXCEPT !.wait = @ \ Asked(b)]
             bare(e) == [e EXCEPT !.wait = @ \ Asked(b), !.missed = @ + 1]
  <2>1. /\ session' = [s \in Session |->
             IF session[s].wait \cap bad # {} THEN Failed(session[s], "expired")
             ELSE IF session[s].pc = "ensured" /\ TokenOf(s) \in session[s].wait \cap none
             THEN bare(session[s]) ELSE calm(session[s])]
        /\ pending' = [t \in Token |-> IF t \in start THEN Getting(r[t]) ELSE pending[t]]
        /\ start \subseteq Asked(b)
    BY <1>2 DEF RequestAnswered
  <2>2. ASSUME NEW x \in Session
        PROVE  /\ \A g \in {calm(session[x]), bare(session[x])} :
                    /\ g.c = session[x].c /\ g.i = session[x].i /\ g.pc = session[x].pc
                    /\ g.clean = session[x].clean
                    /\ g.wait = session[x].wait \ Asked(b)
               /\ Failed(session[x], "expired").pc = "failed"
               /\ Failed(session[x], "expired").wait = {}
    BY SessionFacts DEF SessionState, Failed
  <2> HIDE DEF bad, start, none, calm, bare
  <2>3. ASSUME NEW x \in Session, session[x].wait \cap bad = {}
        PROVE  LET g == session'[x] IN
               /\ g.c = session[x].c /\ g.i = session[x].i /\ g.pc = session[x].pc
               /\ g.clean = session[x].clean
               /\ g.wait = session[x].wait \ Asked(b)
    BY <2>1, <2>2, <2>3
  <2>4. ASSUME NEW x \in Session, session[x].wait \cap bad # {}
        PROVE  session'[x].pc = "failed" /\ session'[x].wait = {}
    BY <2>1, <2>2, <2>4
  <2>5. CASE \E x \in Session : session[x].wait \cap bad # {}
    BY <2>3, <2>4, <2>5, FailureOwes
  <2>6. CASE \A x \in Session : session[x].wait \cap bad = {}
    <3>1. \A t \in Token : Has(t)' => Has(t) \/ t \in Asked(b)
      BY <2>1 DEF Has
    <3> QED
      BY <1>1, <2>3, <2>6, <3>1, ReleaseOwes
  <2> QED
    BY <2>5, <2>6
<1>3. ASSUME NEW how, RequestFailed(b, how) PROVE OwedInv'
  <2>1. /\ session' = Release(Asked(b))
        /\ \A t \in Token : t \notin Asked(b) => pending'[t] = pending[t]
    BY <1>3 DEF RequestFailed
  <2>2. \A t \in Token : Has(t)' => Has(t) \/ t \in Asked(b)
    BY <2>1 DEF Has
  <2>3. \A x \in Session : LET g == session'[x] IN
          /\ g.c = session[x].c /\ g.i = session[x].i /\ g.pc = session[x].pc
          /\ g.clean = session[x].clean
          /\ g.wait = session[x].wait \ Asked(b)
    BY <2>1, SessionFacts DEF Release, SessionState
  <2> QED
    BY <1>1, <2>2, <2>3, ReleaseOwes
<1> QED
    BY <1>2, <1>3 DEF Answered

LEMMA EndedOwes ==
    ASSUME ReceiveInv, OwedInv, NEW t \in Token, Ended(t)
    PROVE  OwedInv'
<1>1. pending[t].st = "getting" /\ UNCHANGED lookups
    BY DEF Ended, GetSucceeds, GetFails
<1>2. Inflight' = Inflight
    BY <1>1 DEF Inflight
<1>3. \A u \in Token : u # t => pending'[u] = pending[u]
    BY DEF Ended, GetSucceeds, GetFails, Settle, ReceiveInv, TransportOK
<1>4. \A u \in Token : Has(u)' => Has(u)
    BY <1>1, <1>3 DEF Has
<1>5. \/ UNCHANGED session
      \/ \E how : session' = [s \in Session |->
                     IF session[s].pc = "await" /\ TokenOf(s) = t
                     THEN [session[s] EXCEPT !.out = how] ELSE session[s]]
    BY DEF Ended, GetSucceeds, GetFails, Settle
<1>6. ASSUME NEW x \in Session
      PROVE  LET g == session'[x] IN
             /\ g.c = session[x].c /\ g.i = session[x].i /\ g.pc = session[x].pc
             /\ g.clean = session[x].clean /\ g.wait = session[x].wait
    BY <1>5, SessionFacts DEF SessionState
<1> QED
    BY <1>2, <1>4, <1>6, SteadyOwes

LEMMA FlushOwes ==
    ASSUME ReceiveInv, OwedInv, Flush
    PROVE  OwedInv'
<1>1. Inflight' = Inflight /\ UNCHANGED <<session, pending>>
    BY SentFacts
<1>2. \A u \in Token : Has(u)' => Has(u)
    BY <1>1 DEF Has
<1> QED
    BY <1>1, <1>2, SteadyOwes

LEMMA OwedInitially == Init => OwedInv
<1> SUFFICES ASSUME Init PROVE OwedInv
    OBVIOUS
<1>1. \A s \in Session : session[s].wait = {} /\ session[s].pc = "idle"
    BY DEF Init, Download
<1>2. lookups = {} /\ \A t \in Token : ~Has(t)
    BY DEF Init, Has, NoEntry
<1> QED
    BY <1>1, <1>2 DEF OwedInv, WaitsAreOwed, RestIsSmall,
                      LookupsAwaited, EntriesOwed, Inflight

LEMMA OwedStep == ReceiveInv /\ OwedInv /\ [Next]_vars => OwedInv'
<1> SUFFICES ASSUME ReceiveInv, OwedInv, [Next]_vars PROVE OwedInv'
    OBVIOUS
<1>1. ASSUME UNCHANGED <<session, pending, lookups>> PROVE OwedInv'
    BY <1>1 DEF OwedInv, WaitsAreOwed, RestIsSmall, LookupsAwaited,
                EntriesOwed, Inflight, AllClean, Has
<1>2. ASSUME NEW s \in Session, SessionStep(s) \/ OpenWindow(s) PROVE OwedInv'
    BY <1>2, SessionOwes, TakeBodyOwes DEF SessionStep
<1>3. ASSUME NEW c \in Credential, Reserved(c) \/ Expires(c) \/ Purges(c)
      PROVE  OwedInv'
    BY <1>1, <1>3 DEF Reserved, Expires, Purges
<1> QED
    BY <1>1, <1>2, <1>3, StartOwes, AnsweredOwes, EndedOwes, FlushOwes
       DEF Next, Loop, Network, Paint, vars

LEMMA OwedInvariant == Spec => [](ReceiveInv /\ OwedInv)
BY ReceiveInitially, ReceiveInvHolds, OwedInitially, OwedStep, PTL DEF Spec

\* Nothing of the transport outlives the downloads that succeed: what is looked
\* up is awaited and what is pending is owed, and a session that is done awaits
\* and owes nothing.
THEOREM SuccessIsClean == FairSpec => []SuccessLeavesNothing
<1>1. ReceiveInv /\ OwedInv => SuccessLeavesNothing
  <2> SUFFICES ASSUME ReceiveInv, OwedInv,
                      \A s \in Session : session[s].clean /\ session[s].pc \in {"idle", "done"}
               PROVE  Inflight = {} /\ \A t \in Token : ~Has(t)
    BY DEF SuccessLeavesNothing
  <2>1. AllClean /\ \A s \in Session : ~Running(session[s])
    BY DEF AllClean, Running
  <2>2. \A s \in Session : session[s].wait = {}
    BY <2>1, SessionFacts DEF Running
  <2> QED
    BY <2>1, <2>2 DEF OwedInv, LookupsAwaited, EntriesOwed, Owed
<1> QED
    BY <1>1, OwedInvariant, PTL DEF FairSpec

\* While no download has failed, each running download of a file that is
\* decrypted as it arrives accounts for at most m of the tokens held for it:
\* a token is one of the m from the block its owner is at.
THEOREM WindowIsBounded == FairSpec => []WindowWithinBudget
<1>1. ReceiveInv /\ OwedInv => WindowWithinBudget
  <2> SUFFICES ASSUME ReceiveInv, OwedInv, NEW c \in Large, AllClean
               PROVE  LET on == {s \in Session : Busy(s) /\ session[s].c = c}
                          held == {t \in Token : t[1] = c /\ Has(t)}
                      IN  Cardinality(held)
                            <= Cardinality(on) * Most(EstimatedM, ConcurrentM(c))
    BY DEF WindowWithinBudget, AllClean
  <2> DEFINE on == {s \in Session : Busy(s) /\ session[s].c = c}
             held == {t \in Token : t[1] = c /\ Has(t)}
             m == ConcurrentM(c)
             owner(t) == CHOOSE s \in Session : Owed(session[s], t)
             f == [t \in held |-> <<owner(t), t[2] - session[owner(t)].i>>]
             T == on \X (0 .. (m - 1))
  <2>1. c \in Credential /\ m \in Nat /\ Most(EstimatedM, ConcurrentM(c)) = m
    BY DownloadAssumption, WindowGrows DEF Most
  <2>2. ASSUME NEW t \in held
        PROVE  /\ owner(t) \in on /\ t[2] \in Nat /\ session[owner(t)].i \in Nat
               /\ t[2] - session[owner(t)].i \in 0 .. (m - 1)
               /\ t = <<c, t[2]>>
    <3> DEFINE s == owner(t)
    <3>1. s \in Session /\ Owed(session[s], t)
      BY DEF OwedInv, EntriesOwed
    <3> HIDE DEF s
    <3>2. /\ session[s].c = c /\ session[s].i <= t[2] /\ Running(session[s])
          /\ t[2] < session[s].i + m
      BY <3>1 DEF Owed
    <3>3. session[s].i \in Nat /\ t[2] \in Nat
      BY <3>1, <3>2, WindowIsOwed, TokenFacts
    <3>4. t = <<c, t[2]>>
      BY DEF Token, Tokens
    <3>5. s \in on
      BY <3>1, <3>2 DEF Busy, Running
    <3>6. t[2] - session[s].i \in 0 .. (m - 1)
      BY <2>1, <3>2, <3>3
    <3> QED
      BY <3>3, <3>4, <3>5, <3>6 DEF s
  <2> HIDE DEF on, m, held, owner
  <2>3. f \in [held -> T]
    BY <2>2
  <2>4. ASSUME NEW t \in held, NEW u \in held, f[t] = f[u] PROVE t = u
    <3>1. owner(t) = owner(u)
          /\ t[2] - session[owner(t)].i = u[2] - session[owner(u)].i
      BY <2>4
    <3>2. t[2] = u[2]
      BY <2>2, <3>1
    <3> QED
      BY <2>2, <3>2
  <2>5. f \in Injection(held, T)
    BY <2>3, <2>4, Fun_IsInj
  <2>6. IsFiniteSet(on)
    BY DownloadAssumption, FS_Subset DEF on
  <2>7. IsFiniteSet(0 .. (m - 1)) /\ Cardinality(0 .. (m - 1)) = m
    BY <2>1, FS_Interval
  <2>8. IsFiniteSet(T) /\ Cardinality(T) = Cardinality(on) * m
    BY <2>6, <2>7, FS_Product
  <2> HIDE DEF f, T
  <2>9. Cardinality(held) <= Cardinality(T)
    BY <2>5, <2>8, FS_Injection
  <2> QED
    BY <2>1, <2>8, <2>9 DEF on, held
<1> QED
    BY <1>1, OwedInvariant, PTL DEF FairSpec

-----------------------------------------------------------------------------
(* Failures that are counted.                                              *)

\* All targets of t failed in n rounds, and those the running round has tried
\* have failed in it.
MissedRounds(t, n) ==
    /\ misses[t] >= Targets[t[1]] * n
    /\ pending[t].st = "getting"
         => misses[t] + pending[t].left >= Targets[t[1]] * (n + 1)
    /\ pending[t].st \in {"transient", "fatal"}
         => misses[t] >= Targets[t[1]] * (n + 1)

\* A running session was refused its block in every round it gave up on.
RoundsOK(e) == Running(e) =>
    /\ e.noBody < GetMaxAttempts
    /\ MissedRounds(<<e.c, e.i>>, e.noBody)
    /\ e.out \in {"transient", "fatal"}
         => misses[<<e.c, e.i>>] >= Targets[e.c] * (e.noBody + 1)

MissesCounted ==
    /\ \A t \in Token : MissedRounds(t, 0)
    /\ \A s \in Session : RoundsOK(session[s])

\* While its file is there, a session of a known file had an answer that named
\* no relay, or lost the entry to another session, for every time it found none.
RouteOK(e) == Running(e) /\ e.known /\ placed[e.c] = "ready" =>
    /\ e.missed >= e.noRoute
    /\ e.pc = "ensured" /\ e.wait = {} /\ pending[<<e.c, e.i>>].st = "none"
         => e.missed > e.noRoute

RoutesCounted == \A s \in Session : RouteOK(session[s])

\* A lookup is for tokens of one file; the registry does not return to knowing
\* nothing of a file; and get awaits the lookup of its own block.
OneFile == \A l \in lookups : \A t, u \in l.tokens : t[1] = u[1]
KnownIsPlaced ==
    \A s \in Session : Running(session[s]) /\ session[s].known
                         => placed[session[s].c] # "unavailable"
EnsuredWaits ==
    \A s \in Session : session[s].pc = "ensured" => session[s].wait \subseteq {TokenOf(s)}

CauseInv == OneFile /\ KnownIsPlaced /\ EnsuredWaits /\ MissesCounted /\ RoutesCounted

\* Rounds of failures are not forgotten when an entry goes.
LEMMA RoundsStay ==
    ASSUME NEW t, NEW n, MissedRounds(t, n), misses'[t] = misses[t],
           pending'[t] = pending[t] \/ pending'[t] = NoEntry
    PROVE  MissedRounds(t, n)'
BY DEF MissedRounds, NoEntry

\* A session that stays at its block, and has not been refused it again.
LEMMA RoundsDepend ==
    ASSUME NEW e, NEW f, RoundsOK(e), f.c = e.c, f.i = e.i, f.noBody = e.noBody,
           f.out = e.out \/ f.out \notin {"transient", "fatal"},
           Running(f) => Running(e),
           LET t == <<e.c, e.i>>
           IN  Running(e) => /\ misses'[t] = misses[t]
                             /\ pending'[t] = pending[t] \/ pending'[t] = NoEntry
    PROVE  RoundsOK(f)'
<1>1. CASE Running(f)
  <2>1. MissedRounds(<<e.c, e.i>>, e.noBody)'
    BY <1>1, RoundsStay DEF RoundsOK
  <2> QED
    BY <1>1, <2>1 DEF RoundsOK
<1> QED
    BY <1>1 DEF RoundsOK

\* A session that leaves the registry's answer behind.
LEMMA RouteDepends ==
    ASSUME NEW e, NEW f, RouteOK(e), f.c = e.c, f.i = e.i, f.known = e.known,
           f.missed = e.missed, f.noRoute = e.noRoute,
           Running(f) => Running(e), placed' = placed,
           f.pc = "ensured" /\ f.wait = {} => pending'[<<e.c, e.i>>].st # "none"
    PROVE  RouteOK(f)'
BY DEF RouteOK

\* A session that stands by while another one moves, and may take the entry of t.
LEMMA OtherCauses ==
    ASSUME ReceiveInv, CauseInv, NEW x \in Session, NEW t, placed' = placed,
           Running(session[x]) => misses'[TokenOf(x)] = misses[TokenOf(x)],
           \/ /\ session'[x] = session[x]
              /\ Running(session[x]) => pending'[TokenOf(x)] = pending[TokenOf(x)]
           \/ /\ session'[x] = Passed(session[x], t)
              /\ Running(session[x]) =>
                   \/ pending'[TokenOf(x)] = pending[TokenOf(x)]
                   \/ pending'[TokenOf(x)] = NoEntry /\ TokenOf(x) = t
    PROVE  /\ session'[x].c = session[x].c /\ session'[x].known = session[x].known
           /\ Running(session'[x]) <=> Running(session[x])
           /\ session'[x].pc = "ensured" => session'[x].wait \subseteq {TokenOf(x)'}
           /\ RoundsOK(session[x])' /\ RouteOK(session[x])'
<1>1. PICK e, g, u : e = session[x] /\ g = session'[x] /\ u = <<e.c, e.i>>
    OBVIOUS
<1>2. e \in SessionState /\ RoundsOK(e) /\ RouteOK(e) /\ u = TokenOf(x)
    BY <1>1, SessionFacts DEF CauseInv, MissesCounted, RoutesCounted, TokenOf
<1>3. /\ g.c = e.c /\ g.i = e.i /\ g.pc = e.pc /\ g.wait = e.wait
      /\ g.out = e.out /\ g.known = e.known
      /\ g.noRoute = e.noRoute /\ g.noBody = e.noBody
      /\ g.missed \in Nat /\ e.missed \in Nat /\ e.noRoute \in Nat
      /\ g.missed >= e.missed
      /\ Running(e) => \/ pending'[u] = pending[u]
                       \/ /\ pending'[u] = NoEntry
                          /\ e.pc = "ensured" /\ e.wait = {} => g.missed > e.missed
  <2>1. e.missed \in Nat /\ e.noRoute \in Nat
    BY <1>2 DEF SessionState
  <2>2. CASE g = e /\ (Running(e) => pending'[u] = pending[u])
    BY <2>1, <2>2
  <2>3. CASE /\ g = Passed(e, t)
             /\ Running(e) => \/ pending'[u] = pending[u]
                              \/ pending'[u] = NoEntry /\ u = t
    BY <1>1, <1>2, <2>1, <2>3, PassedFacts
  <2> QED
    BY <1>1, <1>2, <2>2, <2>3
<1>4. RoundsOK(g)'
  <2>1. Running(e) => /\ misses'[u] = misses[u]
                      /\ pending'[u] = pending[u] \/ pending'[u] = NoEntry
    BY <1>1, <1>2, <1>3
  <2> QED
    BY <1>1, <1>2, <1>3, <2>1, RoundsDepend DEF Running
<1>5. RouteOK(g)'
  <2> SUFFICES ASSUME Running(g), g.known, placed[g.c] = "ready"
               PROVE  /\ g.missed >= g.noRoute
                      /\ g.pc = "ensured" /\ g.wait = {} /\ pending'[u].st = "none"
                           => g.missed > g.noRoute
    BY <1>1, <1>3 DEF RouteOK
  <2>1. /\ Running(e) /\ e.missed >= e.noRoute
        /\ e.pc = "ensured" /\ e.wait = {} /\ pending[u].st = "none"
             => e.missed > e.noRoute
    BY <1>1, <1>2, <1>3 DEF RouteOK, Running
  <2> QED
    BY <1>3, <2>1
<1>6. g.pc = "ensured" => g.wait \subseteq {TokenOf(x)'}
    BY <1>1, <1>2, <1>3 DEF CauseInv, EnsuredWaits, TokenOf
<1>7. RoundsOK(session[x])' /\ RouteOK(session[x])'
    BY <1>1, <1>4, <1>5 DEF RoundsOK, RouteOK
<1> QED
    BY <1>1, <1>3, <1>6, <1>7 DEF Running

\* A step of session s, which moves it to f and takes no entry but its own.
LEMMA MoveCauses ==
    ASSUME ReceiveInv, CauseInv, NEW s \in Session, NEW f, session'[s] = f,
           OneFile', UNCHANGED <<placed, misses>>,
           \/ /\ UNCHANGED pending
              /\ \A x \in Session : x # s => session'[x] = session[x]
           \/ /\ \A u \in Token : pending'[u] = IF u = TokenOf(s) THEN NoEntry ELSE pending[u]
              /\ \A x \in Session : x # s => session'[x] = Passed(session[x], TokenOf(s)),
           f.c = session[s].c, f.i = session[s].i, f.known = session[s].known,
           Running(f) => Running(session[s]),
           f.pc = "ensured" => f.wait \subseteq {TokenOf(s)},
           RoundsOK(f)', RouteOK(f)'
    PROVE  CauseInv'
<1>1. ASSUME NEW x \in Session, x # s
      PROVE  /\ session'[x].c = session[x].c /\ session'[x].known = session[x].known
             /\ Running(session'[x]) <=> Running(session[x])
             /\ session'[x].pc = "ensured" => session'[x].wait \subseteq {TokenOf(x)'}
             /\ RoundsOK(session[x])' /\ RouteOK(session[x])'
  <2>1. Running(session[x]) => TokenOf(x) \in Token
    BY WindowIsOwed
  <2>2. \/ /\ session'[x] = session[x]
           /\ Running(session[x]) => pending'[TokenOf(x)] = pending[TokenOf(x)]
        \/ /\ session'[x] = Passed(session[x], TokenOf(s))
           /\ Running(session[x]) =>
                \/ pending'[TokenOf(x)] = pending[TokenOf(x)]
                \/ pending'[TokenOf(x)] = NoEntry /\ TokenOf(x) = TokenOf(s)
    BY <1>1, <2>1
  <2>3. PICK t : t = TokenOf(s)
    OBVIOUS
  <2> QED
    BY <2>2, <2>3, OtherCauses
<1>2. TokenOf(s)' = TokenOf(s)
    BY DEF TokenOf
<1>3. KnownIsPlaced'
    BY <1>1 DEF CauseInv, KnownIsPlaced
<1>4. EnsuredWaits'
    BY <1>1, <1>2 DEF EnsuredWaits
<1>5. \A t \in Token : MissedRounds(t, 0)'
    BY RoundsStay DEF CauseInv, MissesCounted
<1>6. \A x \in Session : RoundsOK(session[x])' /\ RouteOK(session[x])'
    BY <1>1 DEF RoundsOK, RouteOK
<1> QED
    BY <1>3, <1>4, <1>5, <1>6 DEF CauseInv, MissesCounted, RoutesCounted

\* Put moves one session.
LEMMA PutMoves ==
    ASSUME ReceiveInv, NEW s \in Session, NEW f, Put(s, f)
    PROVE  /\ session'[s] = f
           /\ \A x \in Session : x # s => session'[x] = session[x]
BY DEF Put, ReceiveInv, SessionsOK

\* A session that waits for the tokens w.
Waiting(e, w) == [e EXCEPT !.wait = w]

\* ensureTokensStarted for tokens of one file: who need not wait has entries.
LEMMA EnsureFacts ==
    ASSUME OneFile, NEW s, NEW ts, NEW e, Ensure(s, ts, e),
           \A t, u \in ts : t[1] = u[1]
    PROVE  /\ OneFile'
           /\ \E w : /\ Put(s, Waiting(e, w))
                     /\ w \subseteq ts
                     /\ w = {} => \A t \in ts \ cancelled : Has(t)
<1> DEFINE needed == Needed(ts)
           w == ts \cap (Inflight \cup needed)
           new == [tokens |-> needed, batch |-> {}]
<1>1. /\ lookups' = lookups \cup (IF needed = {} THEN {} ELSE {new})
      /\ Put(s, Waiting(e, w))
    BY DEF Ensure, Waiting
<1>2. /\ w \subseteq ts
      /\ w = {} => \A t \in ts \ cancelled : Has(t)
    BY DEF Needed
<1>3. new.tokens \subseteq ts
    BY DEF Needed
<1> HIDE DEF new, w, needed
<1>4. OneFile'
    BY <1>1, <1>3 DEF OneFile
<1> QED
    BY <1>1, <1>2, <1>4

\* A session that starts lookups for tokens of its file stays at its block.
LEMMA EnsureCauses ==
    ASSUME ReceiveInv, CauseInv, NEW s \in Session, NEW ts, Running(session[s]),
           NEW pc \in {"prefetch", "ensured"},
           Ensure(s, ts, [session[s] EXCEPT !.pc = pc]),
           UNCHANGED <<pending, placed, misses>>,
           \A t \in ts : t[1] = session[s].c,
           pc = "ensured" => ts = {TokenOf(s)} /\ TokenOf(s) \notin cancelled
    PROVE  CauseInv'
<1>1. PICK e : e = session[s]
    OBVIOUS
<1>2. e \in SessionState /\ RoundsOK(e) /\ RouteOK(e) /\ Running(e)
    BY <1>1, SessionFacts DEF CauseInv, MissesCounted, RoutesCounted
<1>3. PICK g : g = [e EXCEPT !.pc = pc]
    OBVIOUS
<1>4. /\ g \in SessionState /\ g.pc = pc /\ g.c = e.c /\ g.i = e.i
      /\ g.known = e.known /\ g.noBody = e.noBody /\ g.out = e.out /\ Running(g)
      /\ g.noRoute = e.noRoute /\ g.missed = e.missed
    BY <1>2, <1>3 DEF SessionState, Running
<1>5. Ensure(s, ts, g) /\ \A t, u \in ts : t[1] = u[1]
    BY <1>1, <1>3
<1>6. /\ OneFile'
      /\ \E w : /\ Put(s, Waiting(g, w))
                /\ w \subseteq ts
                /\ w = {} => \A t \in ts \ cancelled : Has(t)
  <2>1. OneFile
    BY DEF CauseInv
  <2> QED
    BY <1>5, <2>1, EnsureFacts
<1>7. PICK w : /\ Put(s, Waiting(g, w))
               /\ w \subseteq ts
               /\ w = {} => \A t \in ts \ cancelled : Has(t)
    BY <1>6
<1>8. PICK f : f = Waiting(g, w)
    OBVIOUS
<1>9. /\ f.c = e.c /\ f.i = e.i /\ f.pc = pc /\ f.known = e.known /\ f.wait = w
      /\ f.noBody = e.noBody /\ f.out = e.out
      /\ f.noRoute = e.noRoute /\ f.missed = e.missed
    BY <1>4, <1>8 DEF SessionState, Waiting
<1>10. /\ session'[s] = f
       /\ \A x \in Session : x # s => session'[x] = session[x]
    BY <1>7, <1>8, PutMoves
<1>11. RoundsOK(f)'
    BY <1>2, <1>9, RoundsDepend
<1>12. f.pc = "ensured" => /\ f.wait \subseteq {TokenOf(s)}
                           /\ f.wait = {} => pending'[TokenOf(s)].st # "none"
    BY <1>7, <1>9 DEF Has
<1>13. RouteOK(f)'
  <2>1. TokenOf(s) = <<e.c, e.i>>
    BY <1>1 DEF TokenOf
  <2> QED
    BY <1>2, <1>9, <1>12, <2>1, RouteDepends
<1> QED
    BY <1>1, <1>2, <1>6, <1>9, <1>10, <1>11, <1>12, <1>13, MoveCauses

\* A session that gives up leaves nothing to explain later.
LEMMA FailCauses ==
    ASSUME ReceiveInv, CauseInv, NEW s \in Session, NEW why,
           session'[s] = Failed(session[s], why),
           UNCHANGED <<lookups, placed, misses>>,
           \/ /\ UNCHANGED pending
              /\ \A x \in Session : x # s => session'[x] = session[x]
           \/ /\ \A u \in Token : pending'[u] = IF u = TokenOf(s) THEN NoEntry ELSE pending[u]
              /\ \A x \in Session : x # s => session'[x] = Passed(session[x], TokenOf(s))
    PROVE  CauseInv'
<1>1. PICK f : f = Failed(session[s], why)
    OBVIOUS
<1>2. /\ f.c = session[s].c /\ f.i = session[s].i /\ f.pc = "failed"
      /\ f.known = session[s].known
    BY <1>1, SessionFacts DEF Failed, SessionState
<1>3. RoundsOK(f)' /\ RouteOK(f)' /\ OneFile'
    BY <1>2 DEF RoundsOK, RouteOK, Running, CauseInv, OneFile
<1> QED
    BY <1>1, <1>2, <1>3, MoveCauses DEF Running

LEMMA SessionCauses ==
    ASSUME ReceiveInv, OwedInv, CauseInv, NEW s \in Session,
           Get(s) \/ Ensured(s) \/ TakeError(s) \/ OpenWindow(s) \/ FetchRest(s)
    PROVE  CauseInv'
<1>1. PICK e, t : e = session[s] /\ t = TokenOf(s)
    OBVIOUS
<1>2. /\ e \in SessionState
      /\ Running(e) /\ t \in Token /\ RoundsOK(e) /\ RouteOK(e)
      /\ t = <<e.c, e.i>>
      /\ e.out # "none" => e.pc = "await" /\ e.wait = {}
    BY <1>1, SessionFacts DEF Get, Ensured, TakeError, OpenWindow, FetchRest,
                              CauseInv, MissesCounted, RoutesCounted, Running, TokenOf
<1>3. ASSUME NEW why, Fail(s, why), UNCHANGED <<pending, lookups, placed, misses>>
      PROVE  CauseInv'
    BY <1>1, <1>3, PutMoves, FailCauses DEF Fail
<1>4. CASE Get(s)
  <2>1. UNCHANGED <<pending, placed, misses>>
    BY <1>1, <1>4 DEF Get
  <2>2. CASE t \in cancelled
    BY <1>1, <1>4, <1>3, <2>1, <2>2 DEF Get
  <2>3. CASE t \notin cancelled
    <3>1. Ensure(s, {t}, [e EXCEPT !.pc = "ensured"])
      BY <1>1, <1>4, <2>3 DEF Get
    <3>2. \A u \in {t} : u[1] = session[s].c
      BY <1>1, <1>2
    <3> QED
      BY <1>1, <1>2, <2>1, <2>3, <3>1, <3>2, EnsureCauses
  <2> QED
    BY <2>2, <2>3
<1>5. CASE Ensured(s)
  <2>1. UNCHANGED <<pending, cancelled, lookups, placed, misses>>
    BY <1>1, <1>5 DEF Ensured
  <2>2. pending[t].st \in {"none", "getting"} \cup Outcome
    BY <1>1, <1>2 DEF ReceiveInv, TransportOK
  <2>3. \/ Fail(s, "cancelled") \/ Fail(s, "unrouted")
        \/ Put(s, [e EXCEPT !.pc = "await"])
        \/ /\ pending[t].st \in Outcome
           /\ Put(s, [e EXCEPT !.pc = "await", !.out = pending[t].st])
        \/ /\ Put(s, [e EXCEPT !.pc = "get", !.noRoute = e.noRoute + 1])
           /\ pending[t].st = "none"
    BY <1>1, <1>5, <2>2 DEF Ensured, Has
  <2>4. OneFile'
    BY <2>1 DEF CauseInv, OneFile
  <2>5. ASSUME NEW f, Put(s, f), f.c = e.c, f.i = e.i, f.known = e.known,
               f.pc # "ensured", RoundsOK(f)', RouteOK(f)'
        PROVE  CauseInv'
    <3>1. /\ session'[s] = f
          /\ \A x \in Session : x # s => session'[x] = session[x]
      BY <2>5, PutMoves
    <3> QED
      BY <1>1, <1>2, <2>1, <2>4, <2>5, <3>1, MoveCauses
  <2>6. CASE Fail(s, "cancelled") \/ Fail(s, "unrouted")
    BY <1>3, <2>1, <2>6
  <2>7. CASE Put(s, [e EXCEPT !.pc = "await"])
    <3>0. PICK f : f = [e EXCEPT !.pc = "await"]
      OBVIOUS
    <3>1. /\ f.c = e.c /\ f.i = e.i /\ f.known = e.known /\ f.pc = "await"
          /\ f.noBody = e.noBody /\ f.out = e.out
          /\ f.noRoute = e.noRoute /\ f.missed = e.missed
      BY <1>1, <1>2, <3>0 DEF SessionState
    <3>2. Put(s, f)
      BY <2>7, <3>0
    <3>3. RoundsOK(f)' /\ RouteOK(f)'
      BY <1>1, <1>2, <2>1, <3>1, RoundsDepend, RouteDepends
    <3> QED
      BY <2>5, <3>1, <3>2, <3>3
  <2>8. CASE /\ pending[t].st \in Outcome
             /\ Put(s, [e EXCEPT !.pc = "await", !.out = pending[t].st])
    <3>0. PICK f, o : o = pending[t].st /\ f = [e EXCEPT !.pc = "await", !.out = o]
      OBVIOUS
    <3>1. /\ f.c = e.c /\ f.i = e.i /\ f.known = e.known /\ f.pc = "await"
          /\ f.noBody = e.noBody /\ f.out = o
          /\ f.noRoute = e.noRoute /\ f.missed = e.missed
      BY <1>1, <1>2, <3>0 DEF SessionState
    <3>2. Put(s, f)
      BY <2>8, <3>0
    <3>3. /\ e.noBody < GetMaxAttempts /\ MissedRounds(t, e.noBody)'
      BY <1>1, <1>2, <2>1, RoundsStay DEF RoundsOK
    <3>4. t[1] = e.c
      BY <1>1, <1>2
    <3>5. RoundsOK(f)'
      BY <1>1, <1>2, <2>1, <3>0, <3>1, <3>3, <3>4 DEF RoundsOK, MissedRounds
    <3>6. RouteOK(f)'
      BY <1>2, <2>1, <3>1, RouteDepends DEF Running
    <3> QED
      BY <2>5, <3>1, <3>2, <3>5, <3>6
  <2>9. CASE /\ Put(s, [e EXCEPT !.pc = "get", !.noRoute = e.noRoute + 1])
             /\ pending[t].st = "none"
    <3>0. PICK n, f : n = e.noRoute + 1 /\ f = [e EXCEPT !.pc = "get", !.noRoute = n]
      OBVIOUS
    <3>1. /\ f.c = e.c /\ f.i = e.i /\ f.known = e.known /\ f.pc = "get"
          /\ f.noBody = e.noBody /\ f.out = e.out
          /\ f.noRoute = n /\ f.missed = e.missed
          /\ e.noRoute \in Nat /\ e.missed \in Nat
      BY <1>1, <1>2, <3>0 DEF SessionState
    <3>2. Put(s, f)
      BY <2>9, <3>0
    <3>3. RoundsOK(f)'
      BY <1>1, <1>2, <2>1, <3>1, RoundsDepend
    <3>4. e.known /\ placed[e.c] = "ready" => e.missed > e.noRoute
      BY <1>1, <1>2, <1>5, <2>9 DEF RouteOK, Ensured
    <3>5. RouteOK(f)'
      BY <2>1, <3>0, <3>1, <3>4 DEF RouteOK
    <3> QED
      BY <2>5, <3>1, <3>2, <3>3, <3>5
  <2> QED
    BY <2>3, <2>6, <2>7, <2>8, <2>9
<1>6. CASE TakeError(s)
  <2>1. /\ pending' = [pending EXCEPT ![t] = NoEntry]
        /\ e.out \in {"transient", "fatal"}
        /\ UNCHANGED <<cancelled, lookups, placed, misses>>
    BY <1>1, <1>6 DEF TakeError
  <2>2. \A u \in Token : pending'[u] = IF u = t THEN NoEntry ELSE pending[u]
    BY <2>1 DEF ReceiveInv, TransportOK
  <2>3. \A x \in Session : x # s => session'[x] = Passed(session[x], t)
    BY <1>1, <1>6 DEF TakeError
  <2>4. \/ \E why : session'[s] = Failed(e, why)
        \/ session'[s] = RetryGet(s) /\ ~(e.noBody + 1 >= GetMaxAttempts)
    BY <1>1, <1>6 DEF TakeError
  <2>5. ASSUME NEW why, session'[s] = Failed(e, why) PROVE CauseInv'
    BY <1>1, <2>1, <2>2, <2>3, <2>5, FailCauses
  <2>6. CASE session'[s] = RetryGet(s) /\ ~(e.noBody + 1 >= GetMaxAttempts)
    <3>0. PICK n, f : /\ n = e.noBody + 1
                      /\ f = [e EXCEPT !.pc = "get", !.out = "none", !.noBody = n]
      OBVIOUS
    <3>1. e.noBody \in Nat /\ n \in Nat /\ GetMaxAttempts \in Nat /\ n < GetMaxAttempts
      <4>1. e.noBody \in Nat
        BY <1>2 DEF SessionState
      <4>2. GetMaxAttempts \in Nat
        BY DownloadAssumption
      <4> QED
        BY <2>6, <3>0, <4>1, <4>2
    <3>2. session'[s] = f
      BY <1>1, <2>6, <3>0 DEF RetryGet
    <3>3. misses[t] >= Targets[t[1]] * n
      BY <1>1, <1>2, <2>1, <3>0 DEF RoundsOK
    <3>4. /\ f.c = e.c /\ f.i = e.i /\ f.known = e.known /\ f.pc = "get"
          /\ f.noBody = n /\ f.out = "none"
          /\ f.noRoute = e.noRoute /\ f.missed = e.missed
      BY <1>1, <1>2, <3>0 DEF SessionState
    <3>5. pending'[t].st = "none" /\ misses' = misses
      BY <1>1, <1>2, <2>1, <2>2 DEF NoEntry
    <3>6. MissedRounds(t, n)'
      BY <3>3, <3>5 DEF MissedRounds
    <3>7. RoundsOK(f)'
      BY <1>1, <1>2, <3>1, <3>4, <3>6 DEF RoundsOK
    <3>8. RouteOK(f)'
      BY <1>2, <2>1, <3>4, RouteDepends
    <3>9. OneFile'
      BY <2>1 DEF CauseInv, OneFile
    <3>10. /\ f.c = session[s].c /\ f.i = session[s].i /\ f.known = session[s].known
           /\ f.pc # "ensured" /\ Running(session[s])
      BY <1>1, <1>2, <3>4
    <3>11. /\ \A u \in Token : pending'[u] = IF u = TokenOf(s) THEN NoEntry ELSE pending[u]
           /\ \A x \in Session : x # s => session'[x] = Passed(session[x], TokenOf(s))
      BY <1>1, <2>2, <2>3
    <3> QED
      BY <2>1, <3>2, <3>7, <3>8, <3>9, <3>10, <3>11, MoveCauses
  <2> QED
    BY <2>4, <2>5, <2>6
<1>7. CASE OpenWindow(s)
  <2>1. /\ UNCHANGED <<pending, placed, misses>>
        /\ Ensure(s, Tokens(e.c, e.i + 1, WindowEnd(e.c, e.i)),
                  [e EXCEPT !.pc = "prefetch"])
    BY <1>1, <1>7 DEF OpenWindow
  <2>2. \A u \in Tokens(e.c, e.i + 1, WindowEnd(e.c, e.i)) : u[1] = e.c
    BY DEF Tokens
  <2> QED
    BY <1>1, <1>2, <2>1, <2>2, EnsureCauses
<1>8. CASE FetchRest(s)
  <2>1. /\ UNCHANGED <<pending, placed, misses>>
        /\ Ensure(s, Tokens(e.c, ConcurrentM(e.c), Blocks[e.c]),
                  [e EXCEPT !.pc = "prefetch"])
    BY <1>1, <1>8 DEF FetchRest
  <2>2. \A u \in Tokens(e.c, ConcurrentM(e.c), Blocks[e.c]) : u[1] = e.c
    BY DEF Tokens
  <2> QED
    BY <1>1, <1>2, <2>1, <2>2, EnsureCauses
<1> QED
    BY <1>4, <1>5, <1>6, <1>7, <1>8

\* cancelPending never hits a GET that is awaited.
LEMMA NobodyIsAborted ==
    ASSUME ReceiveInv, NEW drop, NEW x \in Session,
           drop \subseteq {u \in Token : u[2] >= Blocks[u[1]]}
    PROVE  Aborted(session[x], drop) = session[x]
<1>1. CASE session[x].pc = "await"
  <2> DEFINE u == <<session[x].c, session[x].i>>
  <2>1. /\ session[x].c \in Credential /\ session[x].i < Blocks[session[x].c]
        /\ session[x].i \in Nat /\ Blocks[session[x].c] \in Nat
    BY <1>1, WindowIsOwed DEF Running
  <2>2. u[1] = session[x].c /\ u[2] = session[x].i
    OBVIOUS
  <2> HIDE DEF u
  <2>3. u \notin drop
    BY <2>1, <2>2
  <2> QED
    BY <2>3 DEF Aborted, u
<1> QED
    BY <1>1 DEF Aborted

LEMMA TakeBodyCauses ==
    ASSUME ReceiveInv, CauseInv, NEW s \in Session, TakeBody(s)
    PROVE  CauseInv'
<1>1. PICK e, t, i : e = session[s] /\ t = TokenOf(s) /\ i = e.i + 1
    OBVIOUS
<1>2. PICK drop, f :
        /\ drop = IF i = 1 THEN CancelAfterSmb(e.c) ELSE {}
        /\ f = [e EXCEPT !.pc = After(e.c, i), !.i = i, !.out = "none",
                         !.noRoute = 0, !.noBody = 0, !.missed = 0]
    OBVIOUS
<1>3. /\ e.out = "body"
      /\ pending' = [u \in Token |-> IF u \in drop \cup {t} THEN NoEntry ELSE pending[u]]
      /\ session' = [x \in Session |-> IF x # s
              THEN Passed(Aborted(session[x], drop), t) ELSE f]
      /\ misses' = [misses EXCEPT ![t] =
            IF \E x \in Session \ {s} : session[x].c = e.c THEN @ ELSE 0]
      /\ UNCHANGED <<lookups, placed>>
    BY <1>1, <1>2 DEF TakeBody
<1>4. /\ e \in SessionState /\ Running(e) /\ RoundsOK(e)
    BY <1>1, <1>3, SessionFacts DEF CauseInv, MissesCounted, Running
<1>5. /\ e.c \in Credential /\ e.i \in Nat /\ i \in Nat /\ i # 0
      /\ e.i < Blocks[e.c] /\ Blocks[e.c] \in Nat /\ t = <<e.c, e.i>> /\ t \in Token
    BY <1>1, <1>4, WindowIsOwed DEF TokenOf
<1>6. /\ After(e.c, i) \in {"done", "window", "rest", "get"}
      /\ After(e.c, i) # "done" => i < Blocks[e.c]
    BY <1>1, <1>5 DEF After
<1>7. /\ f.c = e.c /\ f.i = i /\ f.known = e.known /\ f.noBody = 0 /\ f.out = "none"
      /\ f.noRoute = 0 /\ f.missed = 0
      /\ f.pc \in {"done", "window", "rest", "get"}
      /\ Running(f) => i < Blocks[e.c]
    BY <1>2, <1>4, <1>6 DEF SessionState, Running
<1>8. /\ drop \subseteq {u \in Token : u[2] >= Blocks[u[1]]}
      /\ \A u \in drop : u[1] = e.c
    BY <1>2, <1>5, CancelledIsPastEnd DEF CancelAfterSmb, Tokens
<1>9. /\ session'[s] = f
      /\ \A x \in Session : x # s => session'[x] = Passed(session[x], t)
    BY <1>1, <1>3, <1>7, <1>8, NobodyIsAborted
<1>10. ASSUME NEW u \in Token
       PROVE  pending'[u] = pending[u]
                \/ (pending'[u] = NoEntry /\ (u = t \/ u[2] >= Blocks[u[1]]))
    BY <1>3, <1>5, <1>8
<1>11. \A u \in Token : misses'[u] = misses[u]
                          \/ (u = t /\ misses'[u] = 0
                               /\ ~ \E x \in Session \ {s} : session[x].c = e.c)
    BY <1>3 DEF ReceiveInv, TransportOK
<1>12. OneFile'
    BY <1>3 DEF CauseInv, OneFile
<1>13. ASSUME NEW u \in Token PROVE MissedRounds(u, 0)'
  <2>1. CASE u = t
    <3>1. /\ misses'[t] \in Nat /\ Targets[t[1]] \in Nat /\ pending'[t].st = "none"
      BY <1>3, <1>5, <1>11, TokenFacts DEF ReceiveInv, TransportOK, NoEntry
    <3> QED
      BY <2>1, <3>1 DEF MissedRounds
  <2>2. CASE u # t
    BY <1>10, <1>11, <2>2, RoundsStay DEF CauseInv, MissesCounted
  <2> QED
    BY <2>1, <2>2
<1>14. RoundsOK(f)'
  <2>1. Running(f) => <<f.c, f.i>> \in Token
    BY <1>5, <1>7, TokenFacts
  <2>2. 0 < GetMaxAttempts
    BY DownloadAssumption
  <2> QED
    BY <1>7, <1>13, <2>1, <2>2 DEF RoundsOK
<1>15. ASSUME NEW x \in Session, x # s
       PROVE  /\ session'[x].c = session[x].c /\ session'[x].known = session[x].known
              /\ Running(session'[x]) <=> Running(session[x])
              /\ session'[x].pc = "ensured" => session'[x].wait \subseteq {TokenOf(x)'}
              /\ RoundsOK(session[x])' /\ RouteOK(session[x])'
  <2>1. PICK u : u = TokenOf(x)
    OBVIOUS
  <2>2. ASSUME Running(session[x])
        PROVE  /\ misses'[u] = misses[u]
               /\ pending'[u] = pending[u] \/ (pending'[u] = NoEntry /\ u = t)
    <3>1. /\ u \in Token /\ u[1] = session[x].c /\ u[2] = session[x].i
          /\ session[x].i < Blocks[session[x].c]
          /\ session[x].i \in Nat /\ Blocks[session[x].c] \in Nat
      BY <2>1, <2>2, WindowIsOwed DEF TokenOf
    <3>2. u = t => session[x].c = e.c
      BY <1>5, <3>1
    <3> QED
      BY <1>10, <1>11, <1>15, <3>1, <3>2
  <2>3. session'[x] = Passed(session[x], t) /\ placed' = placed
    BY <1>3, <1>9, <1>15
  <2> QED
    BY <2>1, <2>2, <2>3, OtherCauses
<1>16. RouteOK(f)'
    BY <1>7 DEF RouteOK
<1>17. KnownIsPlaced'
    BY <1>1, <1>3, <1>4, <1>7, <1>9, <1>15 DEF CauseInv, KnownIsPlaced
<1>18. EnsuredWaits'
    BY <1>7, <1>9, <1>15 DEF EnsuredWaits
<1>19. MissesCounted' /\ RoutesCounted'
    BY <1>9, <1>13, <1>14, <1>15, <1>16
       DEF MissesCounted, RoutesCounted, RoundsOK, RouteOK
<1> QED
    BY <1>12, <1>17, <1>18, <1>19 DEF CauseInv

\* A new download has met no failure yet.
LEMMA StartCauses ==
    ASSUME ReceiveInv, CauseInv, NEW s \in Session, NEW c \in Credential,
           StartDownload(s, c)
    PROVE  CauseInv'
<1> DEFINE td == Tail(session[s].todo)
           kn == placed[c] # "unavailable"
           cl == session[s].clean /\ session[s].pc # "failed"
           ts == Tokens(c, 0, EstimatedM)
<1>1. PICK d : d = [Download(c, "prefetch") EXCEPT !.todo = td, !.known = kn, !.clean = cl]
    OBVIOUS
<1>2. /\ Ensure(s, ts, d) /\ Quiet /\ UNCHANGED <<pending, placed, misses>>
    BY <1>1 DEF StartDownload
<1> HIDE DEF td, kn, cl
<1>3. /\ DOMAIN d = DOMAIN Download(c, "prefetch")
      /\ d.c = c /\ d.pc = "prefetch" /\ d.i = 0 /\ d.out = "none"
      /\ d.noBody = 0 /\ d.known = kn /\ d.wait = {}
    BY <1>1 DEF Download
<1>4. /\ OneFile'
      /\ \E w : /\ Put(s, Waiting(d, w))
                /\ w \subseteq ts
                /\ w = {} => \A t \in ts \ cancelled : Has(t)
  <2>1. OneFile /\ \A t, u \in ts : t[1] = u[1]
    BY DEF CauseInv, Tokens
  <2> HIDE DEF ts
  <2> QED
    BY <1>2, <2>1, EnsureFacts
<1>5. PICK w : Put(s, Waiting(d, w))
    BY <1>4
<1>6. PICK f : f = Waiting(d, w)
    OBVIOUS
<1>7. /\ f.c = c /\ f.pc = "prefetch" /\ f.i = 0 /\ f.out = "none"
      /\ f.noBody = 0 /\ f.known = kn /\ f.noRoute = 0 /\ f.missed = 0
    BY <1>1, <1>6 DEF Download, Waiting
<1>8. session'[s] = f /\ \A x \in Session : x # s => session'[x] = session[x]
    BY <1>5, <1>6 DEF Put, ReceiveInv, SessionsOK
<1>9. KnownIsPlaced'
    BY <1>2, <1>7, <1>8 DEF CauseInv, KnownIsPlaced, kn
<1>10. EnsuredWaits'
  <2> SUFFICES ASSUME NEW x \in Session, session'[x].pc = "ensured"
               PROVE  session'[x].wait \subseteq {TokenOf(x)'}
    BY DEF EnsuredWaits
  <2>1. x # s /\ session'[x] = session[x] /\ TokenOf(x)' = TokenOf(x)
    BY <1>7, <1>8 DEF TokenOf
  <2> QED
    BY <2>1 DEF CauseInv, EnsuredWaits
<1>11. \A t \in Token : MissedRounds(t, 0)'
    BY <1>2, RoundsStay DEF CauseInv, MissesCounted
<1>12. RoundsOK(f)'
  <2>1. <<f.c, f.i>> \in Token
    BY <1>7, TokenFacts
  <2>2. 0 < GetMaxAttempts
    BY DownloadAssumption
  <2> QED
    BY <1>7, <1>11, <2>1, <2>2 DEF RoundsOK
<1>13. \A x \in Session : x # s => RoundsOK(session[x])'
    BY <1>2, <1>8 DEF CauseInv, MissesCounted, RoundsOK, MissedRounds
<1>14. MissesCounted'
    BY <1>8, <1>11, <1>12, <1>13 DEF MissesCounted, RoundsOK
<1>15. \A x \in Session : x # s => RouteOK(session[x])'
    BY <1>2, <1>8 DEF CauseInv, RoutesCounted, RouteOK
<1>16. RoutesCounted'
    BY <1>7, <1>8, <1>15 DEF RoutesCounted, RouteOK
<1> QED
    BY <1>4, <1>9, <1>10, <1>14, <1>16 DEF CauseInv

\* More failures, up to what makes a session give up.
LEMMA MissedGrows ==
    ASSUME ReceiveInv, NEW t \in Token, NEW k \in Nat, NEW n \in Nat, n < GetMaxAttempts
    PROVE  /\ misses[t] \in Nat /\ Targets[t[1]] \in Nat \ {0}
           /\ Targets[t[1]] * n \in Nat
           /\ Targets[t[1]] * (n + 1) = Targets[t[1]] * n + Targets[t[1]]
           /\ misses[t] >= Targets[t[1]] * n => Missed(t, k) >= Targets[t[1]] * n
           /\ misses[t] + k >= Targets[t[1]] * (n + 1)
                => Missed(t, k) >= Targets[t[1]] * (n + 1)
           /\ \/ Missed(t, k) = misses[t] + k
              \/ Missed(t, k) >= Targets[t[1]] * (n + 1)
<1>1. PICK m, T, G : m = misses[t] /\ T = Targets[t[1]] /\ G = GetMaxAttempts
    OBVIOUS
<1>2. m \in Nat /\ T \in Nat \ {0} /\ G \in Nat /\ n + 1 <= G
    BY <1>1, TokenFacts, DownloadAssumption DEF ReceiveInv, TransportOK
<1>3. T * n \in Nat /\ T * (n + 1) \in Nat /\ G * T \in Nat
      /\ T * (n + 1) = T * n + T
    BY <1>2
<1>4. T * (n + 1) <= G * T
  <2>1. PICK r \in Nat : G = n + 1 + r
    <3>1. G - (n + 1) \in Nat /\ G = n + 1 + (G - (n + 1))
      BY <1>2
    <3> QED
      BY <3>1
  <2>2. G * T = T * (n + 1) + r * T /\ r * T \in Nat
    BY <1>2, <2>1
  <2> QED
    BY <1>3, <2>2
<1>5. Missed(t, k) = IF m + k <= G * T THEN m + k ELSE G * T
    BY <1>1 DEF Missed, Least
<1> QED
    BY <1>1, <1>2, <1>3, <1>4, <1>5

\* A step that changes no session's file, block or attempts, takes no entry,
\* and accounts for the failures it adds.
LEMMA SteadyCauses ==
    ASSUME ReceiveInv, CauseInv, OneFile',
           \A c \in Credential : /\ placed'[c] = "ready" => placed[c] = "ready"
                                 /\ placed'[c] = "unavailable" => placed[c] = "unavailable",
           \A t \in Token : Has(t) => Has(t)',
           \A t \in Token, n \in Nat :
             n < GetMaxAttempts /\ MissedRounds(t, n)
               => MissedRounds(t, n)' /\ (   misses[t] >= Targets[t[1]] * (n + 1)
                                          => misses'[t] >= Targets[t[1]] * (n + 1)),
           \A x \in Session : LET e == session[x]
                                  g == session'[x] IN
             /\ g.c = e.c /\ g.i = e.i /\ g.known = e.known
             /\ g.noRoute = e.noRoute /\ g.noBody = e.noBody
             /\ g.pc = e.pc \/ g.pc = "failed"
             /\ g.out = e.out \/ g.out = pending'[TokenOf(x)].st
             /\ g.wait \subseteq e.wait /\ g.missed \in Nat /\ g.missed >= e.missed
             /\ g.pc = "ensured" /\ e.known /\ placed[e.c] = "ready"
                  /\ e.wait # {} /\ g.wait = {}
                  => Has(TokenOf(x))' \/ g.missed > e.missed
    PROVE  CauseInv'
<1>1. KnownIsPlaced'
    BY WindowIsOwed DEF CauseInv, KnownIsPlaced, Running
<1>2. \A x \in Session : TokenOf(x)' = TokenOf(x)
    BY DEF TokenOf
<1>3. EnsuredWaits'
    BY <1>2 DEF CauseInv, EnsuredWaits
<1>4. ASSUME NEW x \in Session PROVE RouteOK(session[x])'
  <2>1. PICK e, g, u : e = session[x] /\ g = session'[x] /\ u = <<e.c, e.i>>
    OBVIOUS
  <2>2. /\ g.c = e.c /\ g.i = e.i /\ g.known = e.known
        /\ g.noRoute = e.noRoute
        /\ g.pc = e.pc \/ g.pc = "failed"
        /\ g.wait \subseteq e.wait /\ g.missed \in Nat /\ g.missed >= e.missed
        /\ g.pc = "ensured" /\ e.known /\ placed[e.c] = "ready"
             /\ e.wait # {} /\ g.wait = {}
             => pending'[u].st # "none" \/ g.missed > e.missed
    BY <1>2, <2>1 DEF Has, TokenOf
  <2>3. RouteOK(e) /\ e.missed \in Nat /\ e.noRoute \in Nat
    BY <2>1, SessionFacts DEF CauseInv, RoutesCounted, SessionState
  <2>4. ASSUME Running(g), g.known, placed'[g.c] = "ready"
        PROVE  /\ g.missed >= g.noRoute
               /\ g.pc = "ensured" /\ g.wait = {} /\ pending'[u].st = "none"
                    => g.missed > g.noRoute
    <3>1. Running(e) /\ e.pc = g.pc
      BY <2>2, <2>4 DEF Running
    <3>2. u \in Token /\ u = TokenOf(x) /\ e.c \in Credential
      BY <2>1, <3>1, WindowIsOwed DEF TokenOf
    <3>3. placed[e.c] = "ready"
      BY <2>2, <2>4, <3>2
    <3>4. pending'[u].st = "none" => pending[u].st = "none"
      BY <3>2 DEF Has
    <3>5. /\ e.missed >= e.noRoute
          /\ e.pc = "ensured" /\ e.wait = {} /\ pending[u].st = "none"
               => e.missed > e.noRoute
      BY <2>1, <2>2, <2>3, <2>4, <3>1, <3>3 DEF RouteOK
    <3>6. e.wait = {} \/ g.missed > e.missed \/ pending'[u].st # "none" \/ g.wait # {}
            \/ g.pc # "ensured"
      BY <2>2, <2>4, <3>3
    <3>7. g.missed >= e.missed /\ g.missed \in Nat /\ g.noRoute = e.noRoute
      BY <2>2
    <3> QED
      BY <2>3, <3>1, <3>4, <3>5, <3>6, <3>7
  <2> QED
    BY <2>1, <2>2, <2>4 DEF RouteOK, Running
<1>5. \A t \in Token : MissedRounds(t, 0)'
  <2>1. 0 \in Nat /\ 0 < GetMaxAttempts
    BY DownloadAssumption
  <2> QED
    BY <2>1 DEF CauseInv, MissesCounted
<1>6. ASSUME NEW x \in Session PROVE RoundsOK(session[x])'
  <2>1. PICK e, t : e = session[x] /\ t = <<e.c, e.i>>
    OBVIOUS
  <2>2. CASE Running(e)
    <3>1. /\ t \in Token /\ t = TokenOf(x) /\ t[1] = e.c /\ e.noBody \in Nat
          /\ e.noBody < GetMaxAttempts /\ MissedRounds(t, e.noBody)
          /\ e.out \in {"transient", "fatal"}
               => misses[t] >= Targets[t[1]] * (e.noBody + 1)
      BY <2>1, <2>2, WindowIsOwed, SessionFacts
         DEF CauseInv, MissesCounted, RoundsOK, TokenOf, SessionState
    <3>2. /\ MissedRounds(t, e.noBody)'
          /\ misses[t] >= Targets[t[1]] * (e.noBody + 1)
               => misses'[t] >= Targets[t[1]] * (e.noBody + 1)
      BY <3>1
    <3>3. session'[x].out \in {"transient", "fatal"}
            => misses'[t] >= Targets[t[1]] * (e.noBody + 1)
      BY <2>1, <3>1, <3>2 DEF MissedRounds
    <3> QED
      BY <2>1, <3>1, <3>2, <3>3 DEF RoundsOK
  <2>3. CASE ~Running(e)
    BY <2>1, <2>3 DEF RoundsOK, Running
  <2> QED
    BY <2>2, <2>3
<1>7. MissesCounted' /\ RoutesCounted'
    BY <1>5, <1>6, <1>4 DEF MissesCounted, RoutesCounted
<1> QED
    BY <1>1, <1>3, <1>7 DEF CauseInv

\* Relays that an answer does not name for a token count as failures, and the
\* round of the relays it names begins.
LEMMA RoundStarts ==
    ASSUME ReceiveInv, NEW t \in Token, NEW n \in Nat, n < GetMaxAttempts,
           MissedRounds(t, n), NEW r \in Nat, r <= Targets[t[1]],
           misses'[t] = Missed(t, Targets[t[1]] - r),
           \/ pending'[t] = Getting(r)
           \/ r = 0 /\ \E how : pending'[t] = Settled(how)
    PROVE  /\ MissedRounds(t, n)'
           /\ misses[t] >= Targets[t[1]] * (n + 1)
                => misses'[t] >= Targets[t[1]] * (n + 1)
<1> DEFINE T == Targets[t[1]]
           a == T * n
           b == T * (n + 1)
           m == Missed(t, T - r)
<1>1. T \in Nat /\ T - r \in Nat
    BY TokenFacts
<1>2. /\ misses[t] \in Nat /\ a \in Nat /\ b = a + T
      /\ misses[t] >= a => m >= a
      /\ misses[t] + (T - r) >= b => m >= b
      /\ m = misses[t] + (T - r) \/ m >= b
    BY <1>1, MissedGrows
<1>3. m \in Nat
    BY <1>1, MissedIsCount
<1>4. misses[t] >= a /\ misses'[t] = m
    BY DEF MissedRounds
<1>5. /\ pending'[t].st = "getting" => pending'[t].left = r \/ (r = 0 /\ pending'[t].left = 0)
      /\ pending'[t].st # "getting" => r = 0
  <2>1. Getting(r).st = "getting" /\ Getting(r).left = r
    BY DEF Getting
  <2>2. \A how : Settled(how).st = how /\ Settled(how).left = 0
    BY DEF Settled
  <2>3. CASE pending'[t] = Getting(r)
    BY <2>1, <2>3
  <2>4. CASE r = 0 /\ \E how : pending'[t] = Settled(how)
    BY <2>2, <2>4
  <2> QED
    BY <2>3, <2>4
<1> HIDE DEF T, a, b, m
<1>6. m >= a /\ m + r >= b /\ (r = 0 => m >= b) /\ (misses[t] >= b => m >= b)
    BY <1>1, <1>2, <1>3, <1>4
<1> QED
    BY <1>4, <1>5, <1>6 DEF MissedRounds, Getting, T, a, b

\* An answer that names no relay for a block that a session waits for is
\* counted, if the file is there; any other leads to an entry.
LEMMA AnsweredCauses ==
    ASSUME ReceiveInv, OwedInv, CauseInv, NEW b \in Requests, Answered(b)
    PROVE  CauseInv'
<1>1. lookups' \subseteq lookups
    BY DEF Answered, RequestAnswered, RequestFailed
<1>2. OneFile'
    BY <1>1 DEF CauseInv, OneFile
<1>3. ASSUME NEW x \in Session, session[x].pc = "ensured", session[x].wait # {},
             session[x].wait \ Asked(b) = {}
      PROVE  /\ TokenOf(x) \in Token \ cancelled /\ TokenOf(x) \in Asked(b)
             /\ TokenOf(x) \in session[x].wait
             /\ placed[session[x].c] = "ready" => Status(TokenOf(x)) = "ready"
  <2>1. PICK e, t : e = session[x] /\ t = TokenOf(x)
    OBVIOUS
  <2>2. /\ t \in Token /\ t[1] = e.c /\ t[2] = e.i /\ e.i < Blocks[e.c]
        /\ e.i \in Nat /\ Blocks[e.c] \in Nat
    BY <1>3, <2>1, WindowIsOwed DEF TokenOf, Running
  <2>3. e.wait = {t} /\ t \in Asked(b)
    BY <1>3, <2>1 DEF CauseInv, EnsuredWaits
  <2> QED
    BY <2>1, <2>2, <2>3 DEF Status, ReceiveInv, OnlyPastEnd
<1>4. ASSUME NEW r \in Answers(b), RequestAnswered(b, r)
      PROVE  CauseInv'
  <2> DEFINE bad == UNION {l.tokens : l \in {y \in Served(b) : HasExpired(y)}}
             start == {t \in Asked(b) \ (bad \cup cancelled) : r[t] > 0 /\ ~Has(t)}
             none == {t \in Asked(b) : Status(t) = "ready" /\ r[t] = 0}
             calm(e) == [e EXCEPT !.wait = @ \ Asked(b)]
             bare(e) == [e EXCEPT !.wait = @ \ Asked(b), !.missed = @ + 1]
  <2>1. /\ session' = [s \in Session |->
             IF session[s].wait \cap bad # {} THEN Failed(session[s], "expired")
             ELSE IF session[s].pc = "ensured" /\ TokenOf(s) \in session[s].wait \cap none
             THEN bare(session[s]) ELSE calm(session[s])]
        /\ pending' = [t \in Token |-> IF t \in start THEN Getting(r[t]) ELSE pending[t]]
        /\ misses' = [t \in Token |-> IF t \in start THEN Missed(t, Targets[t[1]] - r[t])
                                      ELSE misses[t]]
        /\ placed' = Purged
    BY <1>4 DEF RequestAnswered
  <2>2. ASSUME NEW t \in Token, t \in Asked(b)
        PROVE  /\ r[t] \in Nat /\ r[t] <= Targets[t[1]]
               /\ t \in start => r[t] > 0
               /\ t \notin bad /\ t \notin cancelled /\ r[t] > 0 => t \in start \/ Has(t)
               /\ Status(t) = "ready" /\ r[t] = 0 => t \in none
    BY <2>2, AnswerFacts
  <2>3. start \subseteq Asked(b)
    OBVIOUS
  <2>4. ASSUME NEW x \in Session
        PROVE  LET e == session[x] IN
               /\ \A g \in {calm(e), bare(e), Failed(e, "expired")} :
                    /\ g.c = e.c /\ g.i = e.i /\ g.known = e.known
                    /\ g.noRoute = e.noRoute /\ g.noBody = e.noBody
                    /\ g.missed \in Nat /\ g.missed >= e.missed
                    /\ g.wait \subseteq e.wait
               /\ \A g \in {calm(e), bare(e)} :
                    g.pc = e.pc /\ g.out = e.out /\ g.wait = e.wait \ Asked(b)
               /\ bare(e).missed > e.missed
               /\ Failed(e, "expired").pc = "failed"
               /\ Failed(e, "expired").out = "none"
    BY SessionFacts DEF SessionState, Failed
  <2> HIDE DEF bad, start, none, calm, bare
  <2>5. \A t \in Token : Has(t) \/ t \in start => Has(t)'
    BY <2>1 DEF Has, Getting
  <2>6. ASSUME NEW t \in Token, NEW n \in Nat, n < GetMaxAttempts, MissedRounds(t, n)
        PROVE  /\ MissedRounds(t, n)'
               /\ misses[t] >= Targets[t[1]] * (n + 1)
                    => misses'[t] >= Targets[t[1]] * (n + 1)
    <3>1. CASE t \in start
      <4>1. /\ r[t] \in Nat /\ r[t] <= Targets[t[1]]
            /\ pending'[t] = Getting(r[t])
            /\ misses'[t] = Missed(t, Targets[t[1]] - r[t])
        BY <2>1, <2>2, <2>3, <3>1
      <4> QED
        BY <2>6, <4>1, RoundStarts
    <3>2. CASE t \notin start
      BY <2>1, <2>6, <3>2, RoundsStay
    <3> QED
      BY <3>1, <3>2
  <2>7. ASSUME NEW x \in Session
        PROVE  LET e == session[x]
                   g == session'[x] IN
               /\ g.c = e.c /\ g.i = e.i /\ g.known = e.known
               /\ g.noRoute = e.noRoute /\ g.noBody = e.noBody
               /\ g.pc = e.pc \/ g.pc = "failed"
               /\ g.wait \subseteq e.wait /\ g.missed \in Nat /\ g.missed >= e.missed
               /\ g.out = e.out
               /\ g.pc = "ensured" /\ e.known /\ placed[e.c] = "ready"
                    /\ e.wait # {} /\ g.wait = {}
                    => Has(TokenOf(x))' \/ g.missed > e.missed
    <3>1. CASE session[x].wait \cap bad # {}
      <4>1. session'[x] = Failed(session[x], "expired")
        BY <2>1, <3>1
      <4>2. session[x].out = "none"
        BY <3>1, SessionFacts
      <4> QED
        BY <2>4, <4>1, <4>2
    <3>2. CASE session[x].wait \cap bad = {}
      <4>1. \/ session'[x] = calm(session[x])
            \/ session'[x] = bare(session[x])
        BY <2>1, <3>2
      <4>2. ASSUME session'[x].pc = "ensured", session[x].known,
                   placed[session[x].c] = "ready",
                   session[x].wait # {}, session'[x].wait = {}
            PROVE  Has(TokenOf(x))' \/ session'[x].missed > session[x].missed
        <5>1. session[x].pc = "ensured" /\ session[x].wait \ Asked(b) = {}
          BY <2>4, <4>1, <4>2
        <5>2. PICK t : t = TokenOf(x)
          OBVIOUS
        <5>3. /\ t \in Token /\ t \notin cancelled /\ t \in Asked(b)
              /\ t \in session[x].wait /\ Status(t) = "ready"
          BY <1>3, <4>2, <5>1, <5>2
        <5>4. CASE r[t] = 0
          <6>1. t \in none
            BY <2>2, <5>3, <5>4
          <6>2. session'[x] = bare(session[x])
            BY <2>1, <3>2, <5>1, <5>2, <5>3, <6>1
          <6> QED
            BY <2>4, <6>2
        <5>5. CASE r[t] # 0
          <6>1. r[t] > 0
            BY <2>2, <5>3, <5>5
          <6>2. t \in start \/ Has(t)
            BY <2>2, <3>2, <5>3, <6>1
          <6>3. pending'[t].st # "none"
            BY <2>5, <5>3, <6>2 DEF Has
          <6>4. TokenOf(x)' = t
            BY <2>4, <4>1, <5>2 DEF TokenOf
          <6> QED
            BY <6>3, <6>4 DEF Has
        <5> QED
          BY <5>4, <5>5
      <4> QED
        BY <2>4, <4>1, <4>2
    <3> QED
      BY <3>1, <3>2
  <2>8. \A c \in Credential : /\ placed'[c] = "ready" => placed[c] = "ready"
                              /\ placed'[c] = "unavailable" => placed[c] = "unavailable"
    BY <2>1 DEF Purged
  <2> QED
    BY <1>2, <2>5, <2>6, <2>7, <2>8, SteadyCauses
<1>5. ASSUME NEW how \in {"transient", "fatal"}, RequestFailed(b, how)
      PROVE  CauseInv'
  <2> DEFINE spoil == {t \in Asked(b) \ cancelled : ~Has(t)}
  <2>1. /\ session' = Release(Asked(b))
        /\ pending' = [t \in Token |-> IF t \in spoil THEN Settled(how) ELSE pending[t]]
        /\ misses' = [t \in Token |-> IF t \in spoil THEN Missed(t, Targets[t[1]])
                                      ELSE misses[t]]
        /\ UNCHANGED placed
    BY <1>5 DEF RequestFailed
  <2>2. \A t \in Asked(b) : t \notin cancelled => t \in spoil \/ Has(t)
    OBVIOUS
  <2> HIDE DEF spoil
  <2>3. \A t \in Token : Has(t) \/ t \in spoil => Has(t)'
    BY <2>1 DEF Has, Settled
  <2>4. ASSUME NEW t \in Token, NEW n \in Nat, n < GetMaxAttempts, MissedRounds(t, n)
        PROVE  /\ MissedRounds(t, n)'
               /\ misses[t] >= Targets[t[1]] * (n + 1)
                    => misses'[t] >= Targets[t[1]] * (n + 1)
    <3>1. CASE t \in spoil
      <4>1. Targets[t[1]] \in Nat /\ Targets[t[1]] - 0 = Targets[t[1]]
        BY TokenFacts
      <4>2. /\ pending'[t] = Settled(how)
            /\ misses'[t] = Missed(t, Targets[t[1]] - 0)
        BY <2>1, <3>1, <4>1
      <4>3. 0 \in Nat /\ 0 <= Targets[t[1]]
        BY <4>1
      <4> QED
        BY <2>4, <4>2, <4>3, RoundStarts
    <3>2. CASE t \notin spoil
      BY <2>1, <2>4, <3>2, RoundsStay
    <3> QED
      BY <3>1, <3>2
  <2>5. ASSUME NEW x \in Session
        PROVE  LET e == session[x]
                   g == session'[x] IN
               /\ g.c = e.c /\ g.i = e.i /\ g.known = e.known
               /\ g.noRoute = e.noRoute /\ g.noBody = e.noBody
               /\ g.pc = e.pc /\ g.out = e.out
               /\ g.wait = e.wait \ Asked(b)
               /\ g.missed \in Nat /\ g.missed = e.missed
    BY <2>1, SessionFacts DEF Release, SessionState
  <2>6. ASSUME NEW x \in Session, session'[x].pc = "ensured",
               session[x].wait # {}, session'[x].wait = {}
        PROVE  Has(TokenOf(x))'
    <3>1. PICK t : t = TokenOf(x)
      OBVIOUS
    <3>2. t \in Token /\ t \notin cancelled /\ t \in Asked(b)
      BY <1>3, <2>5, <2>6, <3>1
    <3>3. pending'[t].st # "none"
      BY <2>2, <2>3, <3>2 DEF Has
    <3>4. TokenOf(x)' = t
      BY <2>5, <3>1 DEF TokenOf
    <3> QED
      BY <3>3, <3>4 DEF Has
  <2> QED
    BY <1>2, <2>1, <2>3, <2>4, <2>5, <2>6, SteadyCauses
<1> QED
    BY <1>4, <1>5 DEF Answered

\* A target that fails is counted, and the round ends when none is left.
LEMMA EndedCauses ==
    ASSUME ReceiveInv, CauseInv, NEW t \in Token, Ended(t)
    PROVE  CauseInv'
<1>1. /\ pending[t].st = "getting" /\ UNCHANGED <<cancelled, lookups, placed>>
      /\ \A u \in Token : u # t => pending'[u] = pending[u]
    BY DEF Ended, GetSucceeds, GetFails, Settle, ReceiveInv, TransportOK
<1>2. OneFile'
    BY <1>1 DEF CauseInv, OneFile
<1>3. ASSUME NEW how \in Outcome, Settle(t, how)
      PROVE  /\ pending'[t] = Settled(how)
             /\ \A x \in Session : LET g == session'[x] IN
                  /\ g.c = session[x].c /\ g.i = session[x].i
                  /\ g.known = session[x].known /\ g.noBody = session[x].noBody
                  /\ g.noRoute = session[x].noRoute /\ g.missed = session[x].missed
                  /\ g.pc = session[x].pc /\ g.wait = session[x].wait
                  /\ g.missed \in Nat
                  /\ \/ g.out = session[x].out
                     \/ g.out = pending'[TokenOf(x)].st
  <2>1. pending'[t] = Settled(how)
    BY <1>3 DEF Settle, ReceiveInv, TransportOK
  <2>2. ASSUME NEW x \in Session
        PROVE  LET g == session'[x] IN
                  /\ g.c = session[x].c /\ g.i = session[x].i
                  /\ g.known = session[x].known /\ g.noBody = session[x].noBody
                  /\ g.noRoute = session[x].noRoute /\ g.missed = session[x].missed
                  /\ g.pc = session[x].pc /\ g.wait = session[x].wait
                  /\ g.missed \in Nat
                  /\ \/ g.out = session[x].out
                     \/ g.out = pending'[TokenOf(x)].st
    <3>1. session'[x] = IF session[x].pc = "await" /\ TokenOf(x) = t
                        THEN [session[x] EXCEPT !.out = how] ELSE session[x]
      BY <1>3 DEF Settle
    <3> QED
      BY <2>1, <3>1, SessionFacts DEF SessionState, Settled
  <2> QED
    BY <2>1, <2>2
<1>4. CASE GetSucceeds(t)
  <2>1. Settle(t, "body") /\ UNCHANGED misses /\ "body" \in Outcome
    BY <1>4 DEF GetSucceeds, Outcome
  <2>2. pending'[t] = Settled("body")
    BY <1>3, <2>1
  <2>3. \A u \in Token : Has(u) => Has(u)'
    BY <1>1, <2>2 DEF Has, Settled
  <2>4. \A u \in Token, n \in Nat : MissedRounds(u, n) => MissedRounds(u, n)'
    BY <1>1, <2>1, <2>2 DEF MissedRounds, Settled
  <2> QED
    BY <1>1, <1>2, <1>3, <2>1, <2>3, <2>4, SteadyCauses
<1>5. ASSUME NEW how \in {"transient", "fatal"}, GetFails(t, how)
      PROVE  CauseInv'
  <2>1. /\ misses'[t] = Missed(t, 1)
        /\ \A u \in Token : u # t => misses'[u] = misses[u]
    BY <1>5 DEF GetFails, ReceiveInv, TransportOK
  <2>2. /\ pending[t].left \in Nat
        /\ pending[t] \in [st : {"none", "getting"} \cup Outcome, left : Nat]
    BY DEF ReceiveInv, TransportOK
  <2>3. \/ /\ pending'[t].st = "getting" /\ pending'[t].left = pending[t].left - 1
           /\ pending[t].left > 1 /\ UNCHANGED session
        \/ /\ pending[t].left <= 1 /\ Settle(t, how) /\ pending'[t] = Settled(how)
    <3>1. CASE HasFallback(t)
      <4>1. pending' = [pending EXCEPT ![t].left = @ - 1] /\ UNCHANGED session
        BY <1>5, <3>1 DEF GetFails
      <4> QED
        BY <1>1, <2>2, <3>1, <4>1 DEF ReceiveInv, TransportOK, HasFallback
    <3>2. CASE ~HasFallback(t)
      <4>1. Settle(t, how) /\ how \in Outcome
        BY <1>5, <3>2 DEF GetFails, Outcome
      <4> QED
        BY <1>3, <2>2, <3>2, <4>1 DEF HasFallback
    <3> QED
      BY <3>1, <3>2
  <2>4. \A u \in Token : Has(u) => Has(u)'
    BY <1>1, <2>3 DEF Has, Settled
  <2>5. ASSUME NEW u \in Token, NEW n \in Nat, n < GetMaxAttempts, MissedRounds(u, n)
        PROVE  /\ MissedRounds(u, n)'
               /\ misses[u] >= Targets[u[1]] * (n + 1)
                    => misses'[u] >= Targets[u[1]] * (n + 1)
    <3>1. CASE u = t
      <4> DEFINE a == Targets[t[1]] * n
                 b == Targets[t[1]] * (n + 1)
                 m == Missed(t, 1)
      <4>1. /\ misses[t] \in Nat /\ a \in Nat /\ b \in Nat
            /\ m \in Nat
            /\ misses[t] >= a => m >= a
            /\ misses[t] + 1 >= b => m >= b
            /\ m = misses[t] + 1 \/ m >= b
        <5>1. Targets[t[1]] \in Nat
          BY TokenFacts
        <5>2. Missed(t, 1) = misses[t] + 1 \/ Missed(t, 1) = Missed(t, b)
          <6>1. b \in Nat /\ misses[t] \in Nat
            BY <2>5, <3>1, <5>1, MissedGrows
          <6>2. PICK q \in Nat : q = GetMaxAttempts * Targets[t[1]]
            <7>1. GetMaxAttempts \in Nat
              BY DownloadAssumption
            <7> QED
              BY <5>1, <7>1
          <6>3. b >= 1
            BY <2>5, <3>1, <5>1, MissedGrows
          <6> HIDE DEF b
          <6> QED
            BY <6>1, <6>2, <6>3 DEF Missed, Least
        <5>3. b \in Nat /\ misses[t] + b >= b
          BY <2>5, <3>1, <5>1, MissedGrows
        <5>4. Missed(t, b) >= b
          BY <2>5, <3>1, <5>3, MissedGrows
        <5>5. Missed(t, 1) \in Nat
          BY MissedIsCount
        <5> QED
          BY <2>5, <3>1, <5>1, <5>2, <5>3, <5>4, <5>5, MissedGrows
      <4>2. misses[t] >= a /\ misses[t] + pending[t].left >= b
        BY <1>1, <2>5, <3>1 DEF MissedRounds
      <4> HIDE DEF a, b, m
      <4>3. /\ m >= a
            /\ pending[t].left <= 1 => m >= b
            /\ pending[t].left > 1 => m + (pending[t].left - 1) >= b
            /\ misses[t] >= b => m >= b
        BY <2>2, <4>1, <4>2
      <4> QED
        BY <2>1, <2>2, <2>3, <3>1, <4>3 DEF MissedRounds, Settled, a, b, m
    <3>2. CASE u # t
      BY <1>1, <2>1, <2>5, <3>2, RoundsStay
    <3> QED
      BY <3>1, <3>2
  <2>6. ASSUME NEW x \in Session
        PROVE  LET g == session'[x] IN
               /\ g.c = session[x].c /\ g.i = session[x].i
               /\ g.known = session[x].known /\ g.noBody = session[x].noBody
               /\ g.noRoute = session[x].noRoute /\ g.missed = session[x].missed
               /\ g.pc = session[x].pc /\ g.wait = session[x].wait
               /\ g.missed \in Nat
               /\ \/ g.out = session[x].out
                  \/ g.out = pending'[TokenOf(x)].st
    <3>1. how \in Outcome
      BY DEF Outcome
    <3>2. session[x].missed \in Nat
      BY SessionFacts DEF SessionState
    <3> QED
      BY <1>3, <2>3, <3>1, <3>2
  <2> QED
    BY <1>1, <1>2, <2>4, <2>5, <2>6, SteadyCauses
<1> QED
    BY <1>4, <1>5 DEF Ended

\* Requests that leave, and records that appear and expire.
LEMMA FlushCauses ==
    ASSUME ReceiveInv, CauseInv, Flush
    PROVE  CauseInv'
<1>1. UNCHANGED <<session, pending, cancelled, placed, misses>>
    BY SentFacts
<1>2. \A l \in lookups' : \E m \in lookups : l.tokens = m.tokens
    BY SentFacts
<1>3. OneFile'
    BY <1>2 DEF CauseInv, OneFile
<1> QED
    BY <1>1, <1>3 DEF CauseInv, KnownIsPlaced, EnsuredWaits, MissesCounted, MissedRounds,
                      RoutesCounted, RouteOK, RoundsOK, TokenOf

LEMMA RegistryCauses ==
    ASSUME ReceiveInv, CauseInv, NEW c \in Credential,
           Reserved(c) \/ Expires(c) \/ Purges(c)
    PROVE  CauseInv'
<1>1. /\ UNCHANGED <<session, pending, cancelled, lookups, misses>>
      /\ \/ placed' = [placed EXCEPT ![c] = "ready"] /\ placed[c] = "unavailable"
         \/ placed' = [placed EXCEPT ![c] = "expired"]
         \/ placed' = [placed EXCEPT ![c] = "gone"]
    BY DEF Reserved, Expires, Purges
<1>2. \A d \in Credential :
         /\ placed[d] # "unavailable" => placed'[d] # "unavailable"
         /\ placed[d] # "unavailable" /\ placed'[d] = "ready" => placed[d] = "ready"
    BY <1>1 DEF ReceiveInv, TransportOK
<1>3. KnownIsPlaced'
    BY <1>1, <1>2, WindowIsOwed DEF CauseInv, KnownIsPlaced
<1>4. RoutesCounted'
  <2> SUFFICES ASSUME NEW x \in Session PROVE RouteOK(session[x])'
    BY DEF RoutesCounted
  <2>1. RouteOK(session[x])
    BY DEF CauseInv, RoutesCounted
  <2>2. Running(session[x]) /\ session[x].known =>
          /\ session[x].c \in Credential
          /\ placed[session[x].c] # "unavailable"
    BY WindowIsOwed DEF CauseInv, KnownIsPlaced
  <2> QED
    BY <1>1, <1>2, <2>1, <2>2 DEF RouteOK
<1> QED
    BY <1>1, <1>3, <1>4 DEF CauseInv, OneFile, EnsuredWaits, MissesCounted, MissedRounds,
                            RoundsOK, TokenOf

LEMMA CauseInitially == Init => CauseInv
<1> SUFFICES ASSUME Init PROVE CauseInv
    OBVIOUS
<1>1. \A s \in Session : session[s].pc = "idle"
    BY DEF Init, Download
<1>2. /\ lookups = {}
      /\ \A t \in Token : pending[t].st = "none" /\ misses[t] = 0
    BY DEF Init, NoEntry
<1>3. \A t \in Token : Targets[t[1]] \in Nat
    BY TokenFacts
<1>4. \A t \in Token : MissedRounds(t, 0)
    BY <1>2, <1>3 DEF MissedRounds
<1> QED
    BY <1>1, <1>2, <1>4 DEF CauseInv, OneFile, KnownIsPlaced, EnsuredWaits,
                            MissesCounted, RoundsOK, RoutesCounted, RouteOK, Running

LEMMA CauseStep == ReceiveInv /\ OwedInv /\ CauseInv /\ [Next]_vars => CauseInv'
<1> SUFFICES ASSUME ReceiveInv, OwedInv, CauseInv, [Next]_vars PROVE CauseInv'
    OBVIOUS
<1>1. ASSUME UNCHANGED vars PROVE CauseInv'
    BY <1>1 DEF vars, CauseInv, OneFile, KnownIsPlaced, EnsuredWaits, MissesCounted,
                MissedRounds, RoundsOK, RoutesCounted, RouteOK, TokenOf
<1>2. ASSUME NEW s \in Session, SessionStep(s) \/ OpenWindow(s) PROVE CauseInv'
    BY <1>2, SessionCauses, TakeBodyCauses DEF SessionStep
<1> QED
    BY <1>1, <1>2, StartCauses, AnsweredCauses, EndedCauses, FlushCauses,
       RegistryCauses DEF Next, Loop, Network, Paint

LEMMA CauseInvariant == Spec => [](ReceiveInv /\ OwedInv /\ CauseInv)
BY ReceiveInitially, ReceiveInvHolds, OwedInitially, OwedStep, CauseInitially,
   CauseStep, PTL DEF Spec

\* A session that gives up had the block refused by every target, or named no
\* relay, in the attempts it makes; or its file is there no more.
LEMMA GivesUpForCause ==
    ASSUME ReceiveInv, OwedInv, CauseInv, NEW s \in Session,
           SessionStep(s) \/ OpenWindow(s),
           session[s].known, session[s].pc # "failed", session'[s].pc = "failed"
    PROVE  LET e == session[s]
               t == TokenOf(s)
               why == session'[s].why
           IN  \/ placed[e.c] \in {"expired", "gone"}
               \/ why = "refused" /\ misses[t] >= Targets[e.c]
               \/ why = "unreachable" /\ misses[t] >= Targets[e.c] * GetMaxAttempts
               \/ why = "unrouted" /\ e.missed >= ResolveMaxAttempts
<1>1. PICK e, t : e = session[s] /\ t = TokenOf(s)
    OBVIOUS
<1>2. Running(e)
    BY <1>1, SessionFacts DEF SessionStep, Get, Ensured, TakeError, TakeBody,
                              OpenWindow, FetchRest, Running
<1>3. /\ e \in SessionState /\ e.c \in Credential /\ e.i \in Nat
      /\ e.i < Blocks[e.c] /\ Blocks[e.c] \in Nat
      /\ t = <<e.c, e.i>> /\ t \in Token /\ RoundsOK(e) /\ RouteOK(e)
    BY <1>1, <1>2, WindowIsOwed, SessionFacts
       DEF TokenOf, CauseInv, MissesCounted, RoutesCounted
<1>4. t \notin cancelled
    BY <1>3 DEF ReceiveInv, OnlyPastEnd
<1>5. ASSUME NEW f, Put(s, f) PROVE session'[s] = f
    BY <1>5 DEF Put, ReceiveInv, SessionsOK
<1>6. ASSUME NEW ts, NEW pc \in {"prefetch", "ensured"}, Ensure(s, ts, [e EXCEPT !.pc = pc])
      PROVE  session'[s].pc = pc
  <2>1. PICK w : Put(s, [[e EXCEPT !.pc = pc] EXCEPT !.wait = w])
    BY <1>6 DEF Ensure
  <2>2. session'[s] = [[e EXCEPT !.pc = pc] EXCEPT !.wait = w]
    BY <1>5, <2>1
  <2> QED
    BY <1>3, <2>2 DEF SessionState
<1>7. ASSUME NEW why PROVE Failed(e, why).why = why
    BY <1>3 DEF Failed, SessionState
<1>8. ~Get(s)
    BY <1>1, <1>4, <1>6 DEF Get
<1>9. ~OpenWindow(s) /\ ~FetchRest(s)
    BY <1>1, <1>6 DEF OpenWindow, FetchRest
<1>10. ~TakeBody(s)
  <2> SUFFICES ASSUME TakeBody(s) PROVE FALSE
    OBVIOUS
  <2>1. PICK i \in Nat : i = e.i + 1 /\ i <= Blocks[e.c] /\ i # 0
    BY <1>3
  <2>2. After(e.c, i) # "failed"
    BY <1>3, <2>1 DEF After
  <2>3. session'[s].pc = After(e.c, i)
    BY <1>1, <1>3, <2>1 DEF TakeBody, SessionState
  <2> QED
    BY <2>2, <2>3
<1>11. CASE Ensured(s)
  <2>1. pending[t].st \in {"none", "getting"} \cup Outcome
    BY <1>3 DEF ReceiveInv, TransportOK
  <2>2. \/ /\ ~Has(t) /\ e.noRoute + 1 >= ResolveMaxAttempts
           /\ Put(s, Failed(e, "unrouted"))
        \/ Put(s, [e EXCEPT !.pc = "await"])
        \/ Put(s, [e EXCEPT !.pc = "await", !.out = pending[t].st])
        \/ Put(s, [e EXCEPT !.pc = "get", !.noRoute = e.noRoute + 1])
    BY <1>1, <1>4, <1>11, <2>1 DEF Ensured, Fail, Has
  <2>3. /\ ~Has(t) /\ e.noRoute + 1 >= ResolveMaxAttempts
        /\ Put(s, Failed(e, "unrouted"))
    <3>1. \A o, n : /\ [e EXCEPT !.pc = "await"].pc = "await"
                    /\ [e EXCEPT !.pc = "await", !.out = o].pc = "await"
                    /\ [e EXCEPT !.pc = "get", !.noRoute = n].pc = "get"
      BY <1>3 DEF SessionState
    <3>2. \A f : Put(s, f) => f.pc = "failed"
      BY <1>5
    <3> QED
      BY <2>2, <3>1, <3>2
  <2>4. session'[s].why = "unrouted"
    BY <1>5, <1>7, <2>3
  <2>5. placed[e.c] = "ready" => e.missed > e.noRoute
    BY <1>1, <1>2, <1>3, <1>11, <2>3 DEF Ensured, RouteOK, Has
  <2>6. e.missed \in Nat /\ e.noRoute \in Nat /\ ResolveMaxAttempts \in Nat
    BY <1>3, DownloadAssumption DEF SessionState
  <2>7. placed[e.c] \in {"ready", "expired", "gone"}
    BY <1>1, <1>2, <1>3 DEF CauseInv, KnownIsPlaced, ReceiveInv, TransportOK
  <2>8. e.missed > e.noRoute => e.missed >= ResolveMaxAttempts
    BY <2>3, <2>6
  <2> QED
    BY <1>1, <2>4, <2>5, <2>7, <2>8
<1>12. CASE TakeError(s)
  <2>1. /\ e.out \in {"transient", "fatal"}
        /\ misses[t] >= Targets[e.c] * (e.noBody + 1)
        /\ e.noBody < GetMaxAttempts
        /\ e.noBody \in Nat /\ GetMaxAttempts \in Nat /\ Targets[e.c] \in Nat
        /\ misses[t] \in Nat
    BY <1>1, <1>2, <1>3, <1>12, DownloadAssumption, TokenFacts
       DEF TakeError, RoundsOK, SessionState, ReceiveInv, TransportOK
  <2>2. \/ session'[s] = Failed(e, "refused")
        \/ /\ session'[s] = Failed(e, "unreachable")
           /\ e.noBody + 1 >= GetMaxAttempts
        \/ session'[s] = RetryGet(s)
    BY <1>1, <1>12 DEF TakeError
  <2>3. CASE session'[s] = Failed(e, "refused")
    <3>1. /\ Targets[e.c] * (e.noBody + 1) = Targets[e.c] * e.noBody + Targets[e.c]
          /\ Targets[e.c] * e.noBody \in Nat
      BY <1>3, <2>1, MissedGrows
    <3>2. misses[t] >= Targets[e.c]
      BY <2>1, <3>1
    <3> QED
      BY <1>1, <1>7, <2>3, <3>2
  <2>4. CASE /\ session'[s] = Failed(e, "unreachable")
             /\ e.noBody + 1 >= GetMaxAttempts
    <3>1. e.noBody + 1 = GetMaxAttempts
      BY <2>1, <2>4
    <3> QED
      BY <1>1, <1>7, <2>1, <2>4, <3>1
  <2>5. CASE session'[s] = RetryGet(s)
    <3>1. session'[s].pc = "get"
      BY <1>1, <1>3, <2>5 DEF RetryGet, SessionState
    <3> QED
      BY <3>1
  <2> QED
    BY <2>2, <2>3, <2>4, <2>5
<1> QED
    BY <1>8, <1>9, <1>10, <1>11, <1>12 DEF SessionStep

\* Only the session's own step, or an expired record of its file, ends it.
LEMMA FailureStep ==
    ASSUME ReceiveInv, OwedInv, CauseInv, [Next]_vars, NEW s \in Session,
           session[s].known, session[s].pc # "failed", session'[s].pc = "failed"
    PROVE  LET e == session[s]
               t == TokenOf(s)
               why == session'[s].why
           IN  \/ placed[e.c] \in {"expired", "gone"}
               \/ why = "refused" /\ misses[t] >= Targets[e.c]
               \/ why = "unreachable" /\ misses[t] >= Targets[e.c] * GetMaxAttempts
               \/ why = "unrouted" /\ e.missed >= ResolveMaxAttempts
<1>1. CASE SessionStep(s) \/ OpenWindow(s)
    BY <1>1, GivesUpForCause
<1>2. ASSUME NEW x \in Session, x # s, SessionStep(x) \/ OpenWindow(x) PROVE FALSE
  <2>0. /\ session[s] \in SessionState
        /\ \A drop : /\ Aborted(session[s], drop) \in SessionState
                     /\ Aborted(session[s], drop).pc = session[s].pc
    <3>1. session[s] \in SessionState
      BY SessionFacts
    <3>2. LET e == [session[s] EXCEPT !.out = "fatal"]
          IN  e \in SessionState /\ e.pc = session[s].pc
      BY <3>1 DEF SessionState, Outcome
    <3> QED
      BY <3>1, <3>2 DEF Aborted
  <2>1. CASE TakeBody(x) \/ TakeError(x)
    <3>1. \/ \E drop : session'[s] = Passed(Aborted(session[s], drop), TokenOf(x))
          \/ session'[s] = Passed(session[s], TokenOf(x))
      BY <1>2, <2>1 DEF TakeBody, TakeError
    <3> QED
      BY <2>0, <3>1, PassedFacts
  <2>2. CASE ~(TakeBody(x) \/ TakeError(x))
    <3>1. \E f : Put(x, f)
      <4>1. ASSUME NEW ts, NEW f, Ensure(x, ts, f) PROVE \E g : Put(x, g)
        BY <4>1 DEF Ensure
      <4>2. ASSUME NEW why, Fail(x, why) PROVE \E g : Put(x, g)
        BY <4>2 DEF Fail
      <4>3. CASE Get(x)
        BY <4>1, <4>2, <4>3 DEF Get
      <4>4. CASE Ensured(x)
        <5>1. pending[TokenOf(x)].st \in {"none", "getting"} \cup Outcome
          BY <4>4, SessionFacts DEF Ensured, ReceiveInv, TransportOK
        <5> QED
          BY <4>2, <4>4, <5>1 DEF Ensured, Has
      <4>6. CASE OpenWindow(x) \/ FetchRest(x)
        BY <4>1, <4>6 DEF OpenWindow, FetchRest
      <4> QED
        BY <1>2, <2>2, <4>3, <4>4, <4>6 DEF SessionStep
    <3> QED
      BY <1>2, <3>1 DEF Put, ReceiveInv, SessionsOK
  <2> QED
    BY <2>1, <2>2
<1>3. ASSUME NEW x \in Session, NEW c \in Credential, StartDownload(x, c) PROVE FALSE
  <2>1. PICK d, w : /\ Put(x, [d EXCEPT !.wait = w])
                    /\ d = [Download(c, "prefetch") EXCEPT
                              !.todo = Tail(session[x].todo),
                              !.known = placed[c] # "unavailable",
                              !.clean = session[x].clean /\ session[x].pc # "failed"]
    BY <1>3 DEF StartDownload, Ensure
  <2>2. [d EXCEPT !.wait = w].pc = "prefetch"
    BY <2>1 DEF Download
  <2> QED
    BY <2>1, <2>2 DEF Put, ReceiveInv, SessionsOK
<1>4. ASSUME NEW b, Answered(b)
      PROVE  placed[session[s].c] = "expired"
  <2> DEFINE bad == UNION {l.tokens : l \in {y \in Served(b) : HasExpired(y)}}
  <2>1. ASSUME session' = Release(Asked(b)) PROVE FALSE
    BY <2>1, SessionFacts DEF Release, SessionState
  <2>2. PICK r \in Answers(b) : RequestAnswered(b, r)
    BY <1>4, <2>1 DEF Answered, RequestFailed
  <2>3. \/ session[s].wait \cap bad # {}
        \/ session'[s] = [session[s] EXCEPT !.wait = @ \ Asked(b), !.missed = @ + 1]
        \/ session'[s] = [session[s] EXCEPT !.wait = @ \ Asked(b)]
    BY <2>2 DEF RequestAnswered
  <2>4. PICK u \in session[s].wait : u \in bad
    <3> HIDE DEF bad
    <3> QED
      BY <2>3, SessionFacts DEF SessionState
  <2>5. PICK l \in lookups : u \in l.tokens /\ HasExpired(l)
    BY <2>4 DEF Served
  <2>6. PICK t \in l.tokens : Status(t) = "expired"
    BY <2>5 DEF HasExpired
  <2>7. placed[t[1]] = "expired" /\ t[1] = u[1]
    BY <2>5, <2>6 DEF Status, CauseInv, OneFile
  <2>8. u[1] = session[s].c
    BY <2>4 DEF OwedInv, WaitsAreOwed, Owed
  <2> QED
    BY <2>7, <2>8
<1>5. ASSUME NEW t \in Token, Ended(t) PROVE FALSE
  <2>1. \/ UNCHANGED session
        \/ \E how : session' = [x \in Session |->
                       IF session[x].pc = "await" /\ TokenOf(x) = t
                       THEN [session[x] EXCEPT !.out = how] ELSE session[x]]
    BY <1>5 DEF Ended, GetSucceeds, GetFails, Settle
  <2> QED
    BY <2>1, SessionFacts DEF SessionState
<1>6. ASSUME UNCHANGED session PROVE FALSE
    BY <1>6
<1> QED
    BY <1>1, <1>2, <1>3, <1>4, <1>5, <1>6
       DEF Next, Loop, Network, Paint, Flush, Reserved, Expires, Purges, vars

\* A download of a known file fails for a cause: its own file expired, or its
\* block was out of reach for all the attempts it makes.
THEOREM FailuresHaveCauses == FairSpec => FailureHasCause
<1>1. ReceiveInv /\ OwedInv /\ CauseInv /\ [Next]_vars =>
        [\A s \in Session :
           LET e == session[s]
               t == TokenOf(s)
               why == session'[s].why
           IN  e.known /\ e.pc # "failed" /\ session'[s].pc = "failed" =>
                 \/ placed[e.c] \in {"expired", "gone"}
                 \/ why = "refused" /\ misses[t] >= Targets[e.c]
                 \/ why = "unreachable" /\ misses[t] >= Targets[e.c] * GetMaxAttempts
                 \/ why = "unrouted" /\ e.missed >= ResolveMaxAttempts
        ]_vars
    BY FailureStep
<1> QED
    BY <1>1, CauseInvariant, PTL DEF FairSpec, Spec, FailureHasCause
=============================================================================
