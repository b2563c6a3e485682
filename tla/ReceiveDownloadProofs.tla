----------------------- MODULE ReceiveDownloadProofs -----------------------
(***************************************************************************)
(* Proofs about ReceiveDownload, for any number of sessions, files, blocks *)
(* and attempts: the types, and that the transport never holds a token for *)
(* cancelled that a download still has to take.  The second rests on       *)
(* arithmetic: a sender's blocks are not longer than what the receiver     *)
(* assumed when it knew nothing, so the window only grows when block 0     *)
(* tells their length, and what is cancelled then lies past the end.       *)
(***************************************************************************)
EXTENDS ReceiveDownload, TLAPS

-----------------------------------------------------------------------------
(* The prefetch count.                                                     *)

\* Smaller blocks, as many or more of them in the same memory.
LEMMA QuotientGrows ==
    ASSUME NEW b \in Nat, NEW v \in Nat \ {0}, NEW w \in Nat \ {0}, w <= v
    PROVE  /\ b \div v \in Nat /\ b \div w \in Nat
           /\ b \div v <= b \div w
<1> DEFINE p == b \div v
           q == b \div w
<1>1. p \in Nat /\ v * p <= b
    OBVIOUS
<1>2. q \in Nat /\ b < w * (q + 1)
    OBVIOUS
<1> HIDE DEF p, q
<1>3. ASSUME q < p PROVE FALSE
  <2>1. q + 1 <= p
    BY <1>1, <1>2, <1>3
  <2>2. w * (q + 1) <= w * p
    BY <1>1, <1>2, <2>1
  <2>3. w * p <= v * p
    BY <1>1
  <2> DEFINE x == w * (q + 1)
             y == w * p
             z == v * p
  <2>4. x \in Nat /\ y \in Nat /\ z \in Nat
    BY <1>1, <1>2
  <2>5. b < x /\ x <= y /\ y <= z /\ z <= b
    BY <1>1, <1>2, <2>2, <2>3
  <2> HIDE DEF x, y, z
  <2> QED
    BY <2>4, <2>5
<1>4. p <= q
    BY <1>1, <1>2, <1>3
<1> QED
    BY <1>1, <1>2, <1>4 DEF p, q

\* resolveReceivePrefetchCount returns at least as much for the blocks of a
\* file as it did before their length was known.
LEMMA WindowGrows ==
    /\ EstimatedM \in Nat
    /\ \A c \in Credential : ConcurrentM(c) \in Nat /\ EstimatedM <= ConcurrentM(c)
<1>1. /\ RelayMaxBody \in Nat \ {0} /\ Budget \in Nat
      /\ MinPrefetch \in Nat /\ MaxPrefetch \in Nat
    BY DownloadAssumption
<1>2. Budget \div RelayMaxBody \in Nat
    BY <1>1, QuotientGrows
<1> DEFINE Capped(n) == Most(MinPrefetch, Least(MaxPrefetch, n))
<1>3. \A m, n \in Nat : Capped(n) \in Nat /\ (m <= n => Capped(m) <= Capped(n))
    BY <1>1 DEF Most, Least
<1>4. EstimatedM = Capped(Budget \div RelayMaxBody)
    BY <1>1 DEF EstimatedM, PrefetchCount
<1>5. ASSUME NEW c \in Credential
      PROVE  ConcurrentM(c) \in Nat /\ EstimatedM <= ConcurrentM(c)
  <2>1. Wire[c] \in Nat \ {0} /\ Wire[c] <= RelayMaxBody
    BY DownloadAssumption, BlocksFitRelays
  <2>2. /\ Budget \div Wire[c] \in Nat
        /\ Budget \div RelayMaxBody <= Budget \div Wire[c]
    BY <1>1, <2>1, QuotientGrows
  <2>3. ConcurrentM(c) = Capped(Budget \div Wire[c])
    BY <2>1 DEF ConcurrentM, PrefetchCount
  <2> HIDE DEF Capped
  <2> QED
    BY <1>2, <1>3, <1>4, <2>2, <2>3
<1> HIDE DEF Capped
<1> QED
    BY <1>2, <1>3, <1>4, <1>5

-----------------------------------------------------------------------------
(* Tokens.                                                                 *)

\* What a token is made of, and which tokens there are.
LEMMA TokenFacts ==
    /\ \A t \in Token : t[1] \in Credential /\ t[2] \in Nat
    /\ \A c \in Credential :
         /\ Blocks[c] \in Nat \ {0} /\ Targets[c] \in Nat \ {0}
         /\ \A i \in Nat : i < Blocks[c] => <<c, i>> \in Token
    /\ \A c \in Credential, i \in Nat :
         /\ Tokens(c, i, EstimatedM) \subseteq Token
         /\ Tokens(c, i, ConcurrentM(c)) \subseteq Token
         /\ Tokens(c, i, Blocks[c]) \subseteq Token
         /\ \A k \in Nat : Tokens(c, i, WindowEnd(c, k)) \subseteq Token
<1>1. ASSUME NEW c \in Credential
      PROVE  /\ Blocks[c] \in Nat \ {0} /\ Targets[c] \in Nat \ {0}
             /\ Reach(c) \in Nat
             /\ Blocks[c] <= Reach(c) /\ EstimatedM <= Reach(c)
             /\ ConcurrentM(c) <= Reach(c)
  <2>1. Blocks[c] \in Nat \ {0} /\ Targets[c] \in Nat \ {0}
    BY DownloadAssumption
  <2> QED
    BY <2>1, WindowGrows DEF Reach, Most
<1>2. Token = UNION {Tokens(c, 0, Reach(c)) : c \in Credential}
    BY DEF Token
<1>3. \A t \in Token : t[1] \in Credential /\ t[2] \in Nat
  <2> SUFFICES ASSUME NEW c \in Credential, NEW t \in Tokens(c, 0, Reach(c))
               PROVE  t[1] \in Credential /\ t[2] \in Nat
    BY <1>2
  <2> QED
    BY <1>1 DEF Tokens
<1>4. ASSUME NEW c \in Credential, NEW i \in Nat, NEW j \in Int, j <= Reach(c)
      PROVE  Tokens(c, i, j) \subseteq Token
  <2>1. i .. (j - 1) \subseteq 0 .. (Reach(c) - 1)
    BY <1>1, <1>4
  <2>2. Tokens(c, i, j) \subseteq Tokens(c, 0, Reach(c))
    BY <2>1 DEF Tokens
  <2> QED
    BY <1>2, <2>2
<1>5. ASSUME NEW c \in Credential, NEW i \in Nat, i < Blocks[c]
      PROVE  <<c, i>> \in Token
  <2>1. <<c, i>> \in Tokens(c, i, i + 1) /\ i + 1 \in Int /\ i + 1 <= Reach(c)
    BY <1>1, <1>5 DEF Tokens
  <2> QED
    BY <1>4, <2>1
<1>6. ASSUME NEW c \in Credential, NEW k \in Nat
      PROVE  WindowEnd(c, k) \in Int /\ WindowEnd(c, k) <= Reach(c)
    BY <1>1, WindowGrows DEF WindowEnd, Least
<1>7. ASSUME NEW c \in Credential, NEW i \in Nat
      PROVE  /\ Tokens(c, i, EstimatedM) \subseteq Token
             /\ Tokens(c, i, ConcurrentM(c)) \subseteq Token
             /\ Tokens(c, i, Blocks[c]) \subseteq Token
             /\ \A k \in Nat : Tokens(c, i, WindowEnd(c, k)) \subseteq Token
    BY <1>1, <1>4, <1>6, WindowGrows
<1> QED
    BY <1>1, <1>3, <1>5, <1>7

\* planAfterSmb gives up only tokens that no block of the file has.
LEMMA CancelledIsPastEnd ==
    ASSUME NEW c \in Credential
    PROVE  CancelAfterSmb(c) \subseteq {t \in Token : t[2] >= Blocks[t[1]]}
<1>1. ConcurrentM(c) \in Nat /\ EstimatedM <= ConcurrentM(c)
      /\ EstimatedM \in Nat /\ Blocks[c] \in Nat
    BY WindowGrows, TokenFacts
<1>2. Tokens(c, ConcurrentM(c), EstimatedM) = {}
    BY <1>1 DEF Tokens
<1>3. Tokens(c, Blocks[c], ConcurrentM(c)) \subseteq Token
    BY <1>1, TokenFacts
<1>4. \A t \in Tokens(c, Blocks[c], ConcurrentM(c)) : t[2] >= Blocks[t[1]]
    BY <1>1 DEF Tokens
<1> QED
    BY <1>2, <1>3, <1>4 DEF CancelAfterSmb

-----------------------------------------------------------------------------
(* The invariant.                                                          *)

Running(e) == e.pc \notin {"idle", "done", "failed"}

\* A running session is at a block of its file, and only one that awaits a
\* promise is told how it settled.
SessionOK(e) ==
    /\ e \in SessionState
    /\ Running(e) => e.c \in Credential /\ e.i < Blocks[e.c]
    /\ e.out # "none" => e.pc = "await" /\ e.wait = {}
    /\ e.wait # {} => e.pc \in {"prefetch", "ensured"}

SessionsOK ==
    /\ session \in [Session -> SessionState]
    /\ \A s \in Session : SessionOK(session[s])

TransportOK ==
    /\ pending \in [Token -> [st : {"none", "getting"} \cup Outcome, left : Nat]]
    /\ lookups \subseteq [tokens : SUBSET Token, batch : SUBSET Token]
    /\ placed \in [Credential -> {"unavailable", "ready", "expired", "gone"}]
    /\ misses \in [Token -> Nat]

\* A token is looked up once at a time.
LookupsApart == \A l, m \in lookups : l # m => l.tokens \cap m.tokens = {}

OnlyPastEnd == cancelled \subseteq {t \in Token : t[2] >= Blocks[t[1]]}

ReceiveInv == SessionsOK /\ TransportOK /\ LookupsApart /\ OnlyPastEnd

\* What a session may be turned into.
LEMMA SessionSteps ==
    ASSUME NEW e, SessionOK(e)
    PROVE  /\ \A why \in {"cancelled", "unrouted", "refused", "unreachable", "expired"} :
                SessionOK(Failed(e, why))
           /\ \A ts : /\ SessionOK([e EXCEPT !.wait = @ \ ts])
                      /\ SessionOK([e EXCEPT !.wait = @ \ ts, !.missed = @ + 1])
           /\ \A t : SessionOK(Passed(e, t))
           /\ Running(e) /\ e.wait = {} /\ e.out = "none" =>
                \A pc \in {"get", "prefetch", "ensured", "await"}, n \in Nat :
                  /\ SessionOK([e EXCEPT !.pc = pc])
                  /\ SessionOK([e EXCEPT !.pc = pc, !.noRoute = n])
           /\ e.pc = "await" /\ e.wait = {} => \A how \in Outcome :
                SessionOK([e EXCEPT !.out = how])
           /\ Running(e) /\ e.wait = {} /\ e.out = "none" => \A how \in Outcome :
                SessionOK([e EXCEPT !.pc = "await", !.out = how])
           /\ Running(e) /\ e.wait = {} => SessionOK([e EXCEPT !.pc = "get",
                  !.out = "none", !.noBody = @ + 1])
<1>1. e \in SessionState
    BY DEF SessionOK
<1> USE <1>1 DEF SessionOK, SessionState, Running, Outcome
<1>2. \A why \in {"cancelled", "unrouted", "refused", "unreachable", "expired"} :
        SessionOK(Failed(e, why))
    BY DEF Failed
<1>3. \A t : SessionOK(Passed(e, t))
  <2>1. e.missed + 1 \in Nat
    OBVIOUS
  <2>2. \A n \in Nat : SessionOK([e EXCEPT !.missed = n])
    OBVIOUS
  <2> QED
    BY <2>1, <2>2 DEF Passed
<1>4. ASSUME NEW ts
      PROVE  /\ SessionOK([e EXCEPT !.wait = @ \ ts])
             /\ SessionOK([e EXCEPT !.wait = @ \ ts, !.missed = @ + 1])
  <2>1. e.missed + 1 \in Nat
    OBVIOUS
  <2>2. \A n \in Nat : SessionOK([e EXCEPT !.wait = @ \ ts, !.missed = n])
    OBVIOUS
  <2>3. SessionOK([e EXCEPT !.wait = @ \ ts])
    OBVIOUS
  <2> QED
    BY <2>1, <2>2, <2>3
<1>5. Running(e) /\ e.wait = {} /\ e.out = "none" =>
        \A pc \in {"get", "prefetch", "ensured", "await"}, n \in Nat :
          /\ SessionOK([e EXCEPT !.pc = pc])
          /\ SessionOK([e EXCEPT !.pc = pc, !.noRoute = n])
  <2> SUFFICES ASSUME Running(e), e.wait = {}, e.out = "none",
                      NEW pc \in {"get", "prefetch", "ensured", "await"}, NEW n \in Nat
               PROVE  /\ SessionOK([e EXCEPT !.pc = pc])
                      /\ SessionOK([e EXCEPT !.pc = pc, !.noRoute = n])
    OBVIOUS
  <2>1. SessionOK([e EXCEPT !.pc = pc])
    OBVIOUS
  <2>2. SessionOK([e EXCEPT !.pc = pc, !.noRoute = n])
    OBVIOUS
  <2> QED
    BY <2>1, <2>2
<1>6. e.pc = "await" /\ e.wait = {} => \A how \in Outcome :
        SessionOK([e EXCEPT !.out = how])
    OBVIOUS
<1>7. Running(e) /\ e.wait = {} /\ e.out = "none" => \A how \in Outcome :
        SessionOK([e EXCEPT !.pc = "await", !.out = how])
    OBVIOUS
<1>8. Running(e) /\ e.wait = {} => SessionOK([e EXCEPT !.pc = "get",
        !.out = "none", !.noBody = @ + 1])
  <2>1. e.noBody + 1 \in Nat
    OBVIOUS
  <2>2. \A n \in Nat : Running(e) /\ e.wait = {} =>
          SessionOK([e EXCEPT !.pc = "get", !.out = "none", !.noBody = n])
    OBVIOUS
  <2> QED
    BY <2>1, <2>2
<1> QED
    BY <1>2, <1>3, <1>4, <1>5, <1>6, <1>7, <1>8

\* put leaves the other sessions as they are.
LEMMA PutKeeps ==
    ASSUME SessionsOK, NEW s \in Session, NEW e, SessionOK(e), Put(s, e)
    PROVE  SessionsOK'
BY DEF SessionsOK, SessionOK, Put

\* ensureTokensStarted adds a lookup, and lets its caller wait for lookups.
LEMMA EnsureKeeps ==
    ASSUME ReceiveInv, NEW s \in Session, NEW ts \in SUBSET Token, NEW e,
           SessionOK(e), e.pc \in {"prefetch", "ensured"}, e.out = "none",
           Ensure(s, ts, e), UNCHANGED <<pending, cancelled, placed, misses>>
    PROVE  ReceiveInv'
<1> DEFINE needed == Needed(ts)
           w == ts \cap (Inflight \cup needed)
           new == [tokens |-> needed, batch |-> {}]
<1>1. /\ lookups' = lookups \cup (IF needed = {} THEN {} ELSE {new})
      /\ Put(s, [e EXCEPT !.wait = w])
    BY DEF Ensure
<1>2. needed \subseteq Token /\ w \in SUBSET Token /\ needed \cap Inflight = {}
    BY DEF Needed
<1> HIDE DEF needed, w
<1>3. SessionOK([e EXCEPT !.wait = w])
    BY <1>2 DEF SessionOK, SessionState, Running
<1>4. SessionsOK'
    BY <1>1, <1>3, PutKeeps DEF ReceiveInv
<1>5. new \in [tokens : SUBSET Token, batch : SUBSET Token] /\ new.tokens = needed
    BY <1>2
<1> HIDE DEF new
<1>6. TransportOK'
    BY <1>1, <1>5 DEF ReceiveInv, TransportOK
<1>8. LookupsApart'
  <2>1. \A l \in lookups : l.tokens \cap new.tokens = {}
    BY <1>2, <1>5 DEF Inflight
  <2> QED
    BY <1>1, <2>1 DEF ReceiveInv, LookupsApart
<1>7. OnlyPastEnd'
    BY DEF ReceiveInv, OnlyPastEnd
<1> QED
    BY <1>4, <1>6, <1>7, <1>8 DEF ReceiveInv

-----------------------------------------------------------------------------
(* The steps of a session.                                                 *)

\* What the invariant says of session s.
LEMMA SessionFacts ==
    ASSUME ReceiveInv, NEW s \in Session
    PROVE  /\ SessionOK(session[s]) /\ session[s] \in SessionState
           /\ SessionsOK /\ TransportOK /\ LookupsApart /\ OnlyPastEnd
           /\ session[s].pc \in {"get", "prefetch", "ensured", "await", "window", "rest"}
                => Running(session[s]) /\ TokenOf(s) \in Token
           /\ session[s].out # "none" => session[s].pc = "await" /\ session[s].wait = {}
           /\ session[s].wait # {} => session[s].pc \in {"prefetch", "ensured"}
<1>1. SessionOK(session[s]) /\ session[s] \in SessionState
      /\ SessionsOK /\ TransportOK /\ LookupsApart /\ OnlyPastEnd
    BY DEF ReceiveInv, SessionsOK, SessionOK
<1>2. ASSUME Running(session[s]) PROVE TokenOf(s) \in Token
  <2>1. session[s].c \in Credential /\ session[s].i \in Nat
        /\ session[s].i < Blocks[session[s].c]
    BY <1>1, <1>2 DEF SessionOK, SessionState
  <2> QED
    BY <2>1, TokenFacts DEF TokenOf
<1> QED
    BY <1>1, <1>2 DEF SessionOK, Running

\* A session that fails changes nothing but itself.
LEMMA FailKeeps ==
    ASSUME ReceiveInv, NEW s \in Session,
           NEW why \in {"cancelled", "unrouted", "refused", "unreachable", "expired"},
           Fail(s, why)
    PROVE  SessionsOK'
<1>1. SessionOK(Failed(session[s], why))
    BY SessionFacts, SessionSteps
<1> QED
    BY <1>1, SessionFacts, PutKeeps DEF Fail

LEMMA SessionStepKeeps ==
    ASSUME ReceiveInv, NEW s \in Session,
           Get(s) \/ Ensured(s) \/ TakeError(s) \/ OpenWindow(s) \/ FetchRest(s)
    PROVE  ReceiveInv'
<1> DEFINE e == session[s]
           t == TokenOf(s)
<1>1. /\ SessionOK(e) /\ e \in SessionState
      /\ SessionsOK /\ TransportOK /\ LookupsApart /\ OnlyPastEnd
      /\ e.pc \in {"get", "prefetch", "ensured", "await", "window", "rest"}
           => Running(e) /\ t \in Token
      /\ e.out # "none" => e.pc = "await" /\ e.wait = {}
      /\ e.wait # {} => e.pc \in {"prefetch", "ensured"}
    BY SessionFacts
<1> HIDE DEF e, t
<1>2. ASSUME UNCHANGED <<pending, cancelled, lookups, placed, misses>>
      PROVE  TransportOK' /\ LookupsApart' /\ OnlyPastEnd'
    BY <1>1, <1>2 DEF TransportOK, LookupsApart, OnlyPastEnd
<1>3. CASE Get(s)
  <2>1. /\ e.pc \in {"prefetch", "get"} /\ e.out = "none" /\ e.wait = {}
        /\ UNCHANGED <<pending, cancelled, placed, misses>>
    BY <1>1, <1>3 DEF Get, e
  <2>2. CASE t \in cancelled
    <3>1. Fail(s, "cancelled") /\ UNCHANGED lookups
      BY <1>3, <2>2 DEF Get, t
    <3> QED
      BY <1>2, <2>1, <3>1, FailKeeps DEF ReceiveInv
  <2>3. CASE t \notin cancelled
    <3>1. Ensure(s, {t}, [e EXCEPT !.pc = "ensured"])
      BY <1>3, <2>3 DEF Get, e, t
    <3>2. SessionOK([e EXCEPT !.pc = "ensured"])
      BY <1>1, <2>1, SessionSteps
    <3>3. [e EXCEPT !.pc = "ensured"].pc = "ensured"
          /\ [e EXCEPT !.pc = "ensured"].out = "none" /\ {t} \in SUBSET Token
      BY <1>1, <2>1 DEF SessionState
    <3> QED
      BY <2>1, <3>1, <3>2, <3>3, EnsureKeeps
  <2> QED
    BY <2>2, <2>3
<1>4. CASE Ensured(s)
  <2> DEFINE n == e.noRoute + 1
  <2>1. /\ e.pc = "ensured" /\ e.wait = {} /\ e.out = "none" /\ n \in Nat
        /\ UNCHANGED <<pending, cancelled, lookups, placed, misses>>
    BY <1>1, <1>4 DEF Ensured, SessionState, e
  <2>2. t \in Token /\ Running(e)
    BY <1>1, <2>1
  <2>3. \/ Fail(s, "cancelled")
        \/ Put(s, [e EXCEPT !.pc = "await"])
        \/ pending[t].st \in Outcome /\ Put(s, [e EXCEPT !.pc = "await", !.out = pending[t].st])
        \/ Fail(s, "unrouted")
        \/ Put(s, [e EXCEPT !.pc = "get", !.noRoute = n])
    <3>1. pending[t].st \in {"none", "getting"} \cup Outcome
      BY <1>1, <2>2 DEF TransportOK
    <3> QED
      BY <1>4, <3>1 DEF Ensured, Has, e, t
  <2> HIDE DEF n
  <2>4. /\ SessionOK([e EXCEPT !.pc = "await"])
        /\ SessionOK([e EXCEPT !.pc = "get", !.noRoute = n])
        /\ \A how \in Outcome : SessionOK([e EXCEPT !.pc = "await", !.out = how])
    BY <1>1, <2>1, <2>2, SessionSteps
  <2>5. SessionsOK'
    BY <1>1, <2>3, <2>4, FailKeeps, PutKeeps
  <2> QED
    BY <1>2, <2>1, <2>5 DEF ReceiveInv
<1>5. CASE TakeError(s)
  <2>1. PICK f : /\ f \in {Failed(e, "refused"), Failed(e, "unreachable"), RetryGet(s)}
                 /\ session' = [x \in Session |-> IF x = s THEN f
                                                  ELSE Passed(session[x], t)]
    BY <1>5 DEF TakeError, e, t
  <2>2. /\ e.out \in {"transient", "fatal"}
        /\ pending' = [pending EXCEPT ![t] = NoEntry]
        /\ UNCHANGED <<cancelled, lookups, placed, misses>>
    BY <1>5 DEF TakeError, e, t
  <2>3. SessionOK(f)
    <3>1. e.pc = "await" /\ e.wait = {} /\ Running(e)
      BY <1>1, <2>2
    <3>2. SessionOK(RetryGet(s))
      BY <1>1, <3>1, SessionSteps DEF RetryGet, e
    <3>3. SessionOK(Failed(e, "refused")) /\ SessionOK(Failed(e, "unreachable"))
      BY <1>1, SessionSteps
    <3> QED
      BY <2>1, <3>2, <3>3
  <2>4. SessionsOK'
    <3>1. \A x \in Session : SessionOK(Passed(session[x], t))
      BY <1>1, SessionSteps DEF SessionsOK
    <3>2. \A x \in Session : SessionOK(session'[x])
      BY <2>1, <2>3, <3>1
    <3> QED
      BY <2>1, <3>2 DEF SessionsOK, SessionOK
  <2>5. NoEntry \in [st : {"none", "getting"} \cup Outcome, left : Nat]
    BY DEF NoEntry
  <2>6. TransportOK' /\ LookupsApart' /\ OnlyPastEnd'
    BY <1>1, <2>2, <2>5 DEF TransportOK, LookupsApart, OnlyPastEnd
  <2> QED
    BY <2>4, <2>6 DEF ReceiveInv
<1>6. CASE OpenWindow(s)
  <2>1. /\ e.pc = "window" /\ UNCHANGED <<pending, cancelled, placed, misses>>
        /\ Ensure(s, Tokens(e.c, e.i + 1, WindowEnd(e.c, e.i)), [e EXCEPT !.pc = "prefetch"])
    BY <1>6 DEF OpenWindow, e
  <2>2. /\ e.c \in Credential /\ e.i \in Nat /\ e.i + 1 \in Nat
        /\ e.out = "none" /\ e.wait = {} /\ Running(e)
    BY <1>1, <2>1 DEF SessionOK, SessionState, Running
  <2>3. Tokens(e.c, e.i + 1, WindowEnd(e.c, e.i)) \in SUBSET Token
    BY <2>2, TokenFacts
  <2>4. /\ SessionOK([e EXCEPT !.pc = "prefetch"])
        /\ [e EXCEPT !.pc = "prefetch"].pc = "prefetch"
        /\ [e EXCEPT !.pc = "prefetch"].out = "none"
    BY <1>1, <2>2, SessionSteps DEF SessionState
  <2> QED
    BY <2>1, <2>3, <2>4, EnsureKeeps
<1>7. CASE FetchRest(s)
  <2>1. /\ e.pc = "rest" /\ UNCHANGED <<pending, cancelled, placed, misses>>
        /\ Ensure(s, Tokens(e.c, ConcurrentM(e.c), Blocks[e.c]), [e EXCEPT !.pc = "prefetch"])
    BY <1>7 DEF FetchRest, e
  <2>2. e.c \in Credential /\ e.out = "none" /\ e.wait = {} /\ Running(e)
    BY <1>1, <2>1 DEF SessionOK, SessionState, Running
  <2>3. Tokens(e.c, ConcurrentM(e.c), Blocks[e.c]) \in SUBSET Token
    BY <2>2, TokenFacts, WindowGrows
  <2>4. /\ SessionOK([e EXCEPT !.pc = "prefetch"])
        /\ [e EXCEPT !.pc = "prefetch"].pc = "prefetch"
        /\ [e EXCEPT !.pc = "prefetch"].out = "none"
    BY <1>1, <2>2, SessionSteps DEF SessionState
  <2> QED
    BY <2>1, <2>3, <2>4, EnsureKeeps
<1> QED
    BY <1>3, <1>4, <1>5, <1>6, <1>7

LEMMA StartKeeps ==
    ASSUME ReceiveInv, NEW s \in Session, NEW c \in Credential, StartDownload(s, c)
    PROVE  ReceiveInv'
<1> DEFINE e == session[s]
           d == [Download(c, "prefetch") EXCEPT
                   !.todo = Tail(session[s].todo),
                   !.known = placed[c] # "unavailable",
                   !.clean = session[s].clean /\ session[s].pc # "failed"]
<1>1. Ensure(s, Tokens(c, 0, EstimatedM), d) /\ e.todo # <<>>
      /\ UNCHANGED <<pending, cancelled, placed, misses>>
    BY DEF StartDownload
<1>2. e.todo \in Seq(Credential) /\ e.clean \in BOOLEAN
    BY SessionFacts DEF SessionState
<1>3. Tail(e.todo) \in Seq(Credential)
    BY <1>1, <1>2
<1>4. 0 < Blocks[c] /\ 0 \in Nat
    BY TokenFacts
<1> DEFINE D == Download(c, "prefetch")
<1>5. /\ D \in SessionState /\ D.c = c /\ D.pc = "prefetch" /\ D.i = 0
      /\ D.wait = {} /\ D.out = "none"
    BY DEF Download, SessionState
<1> HIDE DEF D
<1>6. SessionOK(d) /\ d.pc = "prefetch" /\ d.out = "none"
  <2>1. /\ d \in SessionState /\ d.c = c /\ d.pc = "prefetch" /\ d.i = 0
        /\ d.wait = {} /\ d.out = "none"
    <3> DEFINE k == placed[c] # "unavailable"
               l == e.clean /\ e.pc # "failed"
               td == Tail(e.todo)
    <3>1. k \in BOOLEAN
      OBVIOUS
    <3>2. l \in BOOLEAN
      BY <1>2
    <3>3. d = [D EXCEPT !.todo = td, !.known = k, !.clean = l]
      BY DEF D
    <3>4. td \in Seq(Credential)
      BY <1>3
    <3> HIDE DEF k, l, td, d
    <3>5. /\ d \in SessionState /\ d.c = D.c /\ d.pc = D.pc /\ d.i = D.i
          /\ d.wait = D.wait /\ d.out = D.out
      BY ONLY <1>5, <3>1, <3>2, <3>3, <3>4 DEF SessionState
    <3> QED
      BY <1>5, <3>5
  <2> HIDE DEF d
  <2> QED
    BY <1>4, <2>1 DEF SessionOK, Running
<1> HIDE DEF d, e
<1>7. Tokens(c, 0, EstimatedM) \in SUBSET Token
    BY <1>4, TokenFacts
<1> QED
    BY <1>1, <1>6, <1>7, EnsureKeeps

\* TakeBody: the only step that cancels tokens.
LEMMA TakeBodyKeeps ==
    ASSUME ReceiveInv, NEW s \in Session, TakeBody(s)
    PROVE  ReceiveInv'
<1> DEFINE e == session[s]
           i == e.i + 1
           drop == IF i = 1 THEN CancelAfterSmb(e.c) ELSE {}
           f == [e EXCEPT !.pc = After(e.c, i), !.i = i, !.out = "none",
                          !.noRoute = 0, !.noBody = 0, !.missed = 0]
<1>1. /\ e.out = "body"
      /\ pending' = [u \in Token |-> IF u \in drop \cup {TokenOf(s)} THEN NoEntry
                                      ELSE pending[u]]
      /\ cancelled' = (cancelled \ {TokenOf(s)}) \cup drop
      /\ session' = [x \in Session |-> IF x # s
              THEN Passed(Aborted(session[x], drop), TokenOf(s)) ELSE f]
      /\ misses' = [misses EXCEPT ![TokenOf(s)] =
            IF \E x \in Session \ {s} : session[x].c = e.c THEN @ ELSE 0]
      /\ UNCHANGED <<lookups, placed>>
    BY DEF TakeBody
<1>2. /\ SessionOK(e) /\ e \in SessionState
      /\ SessionsOK /\ TransportOK /\ LookupsApart /\ OnlyPastEnd
      /\ e.pc = "await" /\ e.wait = {} /\ Running(e)
    BY <1>1, SessionFacts
<1>3. e.c \in Credential /\ e.i \in Nat /\ i \in Nat /\ i # 0 /\ e.i < Blocks[e.c]
    BY <1>2 DEF SessionOK, SessionState
<1>4. /\ Blocks[e.c] \in Nat
      /\ i <= Blocks[e.c]
    BY <1>3, TokenFacts
<1>5. /\ After(e.c, i) \in {"done", "window", "rest", "get"}
      /\ After(e.c, i) # "done" => i < Blocks[e.c]
    BY <1>3, <1>4 DEF After
<1>6. drop \subseteq {t \in Token : t[2] >= Blocks[t[1]]}
    BY <1>3, CancelledIsPastEnd
<1> HIDE DEF e, i, drop
<1>7. SessionOK(f)
    BY <1>2, <1>3, <1>5 DEF SessionOK, SessionState, Running
<1> HIDE DEF f
<1>8. ASSUME NEW x \in Session
      PROVE  SessionOK(Passed(Aborted(session[x], drop), TokenOf(s)))
  <2>1. SessionOK(session[x])
    BY <1>2 DEF SessionsOK
  <2>2. CASE session[x].pc = "await"
    <3>1. session[x].wait = {}
      BY <2>1, <2>2 DEF SessionOK
    <3>2. SessionOK([session[x] EXCEPT !.out = "fatal"])
      BY <2>1, <2>2, <3>1, SessionSteps DEF Outcome
    <3> QED
      BY <2>1, <3>2, SessionSteps DEF Aborted
  <2>3. CASE session[x].pc # "await"
    BY <2>1, <2>3, SessionSteps DEF Aborted
  <2> QED
    BY <2>2, <2>3
<1>9. SessionsOK'
  <2>1. \A x \in Session : SessionOK(session'[x])
    BY <1>1, <1>7, <1>8
  <2> QED
    BY <1>1, <2>1 DEF SessionsOK, SessionOK
<1>10. OnlyPastEnd'
    BY <1>1, <1>2, <1>6 DEF OnlyPastEnd
<1>11. TransportOK'
  <2>1. NoEntry \in [st : {"none", "getting"} \cup Outcome, left : Nat]
    BY DEF NoEntry
  <2>2. pending' \in [Token -> [st : {"none", "getting"} \cup Outcome, left : Nat]]
    BY <1>1, <1>2, <2>1 DEF TransportOK
  <2>3. misses' \in [Token -> Nat]
    BY <1>1, <1>2 DEF TransportOK
  <2> QED
    BY <1>1, <1>2, <2>2, <2>3 DEF TransportOK
<1>12. LookupsApart'
    BY <1>1, <1>2 DEF LookupsApart
<1> QED
    BY <1>9, <1>10, <1>11, <1>12 DEF ReceiveInv

-----------------------------------------------------------------------------
(* The other tasks.                                                        *)

\* Failures are counted up to a bound.
LEMMA MissedIsCount ==
    ASSUME ReceiveInv, NEW t \in Token, NEW n \in Nat
    PROVE  Missed(t, n) \in Nat
<1>1. misses[t] \in Nat /\ Targets[t[1]] \in Nat /\ GetMaxAttempts \in Nat
    BY TokenFacts, DownloadAssumption DEF ReceiveInv, TransportOK
<1>2. misses[t] + n \in Nat /\ GetMaxAttempts * Targets[t[1]] \in Nat
    BY <1>1
<1> QED
    BY <1>2 DEF Missed, Least

\* Sessions that stop waiting for tokens.
LEMMA ReleaseKeeps ==
    ASSUME ReceiveInv, NEW ts, session' = Release(ts)
    PROVE  SessionsOK'
<1>1. \A x \in Session : SessionOK([session[x] EXCEPT !.wait = @ \ ts])
    BY SessionSteps DEF ReceiveInv, SessionsOK
<1>2. \A x \in Session : SessionOK(session'[x])
    BY <1>1 DEF Release
<1> QED
    BY <1>2 DEF SessionsOK, SessionOK, Release

\* A promise settles.
LEMMA SettleKeeps ==
    ASSUME ReceiveInv, NEW t \in Token, NEW how \in Outcome, Settle(t, how)
    PROVE  /\ SessionsOK'
           /\ pending' \in [Token -> [st : {"none", "getting"} \cup Outcome, left : Nat]]
<1>1. ASSUME NEW x \in Session PROVE SessionOK(session'[x])
  <2>1. SessionOK(session[x])
    BY DEF ReceiveInv, SessionsOK
  <2>2. session[x].pc = "await" => SessionOK([session[x] EXCEPT !.out = how])
    BY <2>1, SessionSteps DEF SessionOK
  <2> QED
    BY <2>1, <2>2 DEF Settle
<1>2. Settled(how) \in [st : {"none", "getting"} \cup Outcome, left : Nat]
    BY DEF Settled
<1> QED
    BY <1>1, <1>2 DEF SessionsOK, SessionOK, Settle, ReceiveInv, TransportOK

\* How many relays an answer names for a token.
LEMMA AnswerFacts ==
    ASSUME NEW b, NEW r \in Answers(b), NEW t \in Token, t \in Asked(b)
    PROVE  /\ r[t] \in Nat /\ r[t] <= Targets[t[1]] /\ Targets[t[1]] - r[t] \in Nat
           /\ r[t] > 0 => Status(t) = "ready"
<1>1. r[t] \in Routes(t) /\ Targets[t[1]] \in Nat
    BY TokenFacts DEF Answers
<1> QED
    BY <1>1 DEF Routes

LEMMA LookupKeeps ==
    ASSUME ReceiveInv, NEW b, Answered(b)
    PROVE  ReceiveInv'
<1>1. SessionsOK /\ TransportOK /\ LookupsApart /\ OnlyPastEnd
    BY DEF ReceiveInv
<1>2. lookups' \subseteq lookups /\ UNCHANGED cancelled
    BY DEF Answered, RequestAnswered, RequestFailed
<1>3. LookupsApart' /\ OnlyPastEnd'
    BY <1>1, <1>2 DEF LookupsApart, OnlyPastEnd
<1>4. ASSUME NEW r \in Answers(b), RequestAnswered(b, r)
      PROVE  ReceiveInv'
  <2> DEFINE bad == UNION {l.tokens : l \in {x \in Served(b) : HasExpired(x)}}
             start == {t \in Asked(b) \ (bad \cup cancelled) : r[t] > 0 /\ ~Has(t)}
             none == {t \in Asked(b) : Status(t) = "ready" /\ r[t] = 0}
  <2>1. /\ start \subseteq {t \in Asked(b) : r[t] > 0}
        /\ session' = [s \in Session |->
             LET e == session[s]
             IN  IF e.wait \cap bad # {} THEN Failed(e, "expired")
                 ELSE IF e.pc = "ensured" /\ TokenOf(s) \in e.wait \cap none
                 THEN [e EXCEPT !.wait = @ \ Asked(b), !.missed = @ + 1]
                 ELSE [e EXCEPT !.wait = @ \ Asked(b)]]
        /\ pending' = [t \in Token |-> IF t \in start THEN Getting(r[t])
                                       ELSE pending[t]]
        /\ placed' = Purged
        /\ misses' = [t \in Token |-> IF t \in start
                                      THEN Missed(t, Targets[t[1]] - r[t])
                                      ELSE misses[t]]
    BY <1>4 DEF RequestAnswered
  <2> HIDE DEF bad, start, none
  <2>2. ASSUME NEW x \in Session PROVE SessionOK(session'[x])
    <3>1. SessionOK(session[x])
      BY <1>1 DEF SessionsOK
    <3>2. /\ SessionOK(Failed(session[x], "expired"))
          /\ SessionOK([session[x] EXCEPT !.wait = @ \ Asked(b)])
          /\ SessionOK([session[x] EXCEPT !.wait = @ \ Asked(b), !.missed = @ + 1])
      BY <3>1, SessionSteps
    <3> QED
      BY <2>1, <3>2
  <2>3. SessionsOK'
    BY <2>1, <2>2 DEF SessionsOK, SessionOK
  <2>4. ASSUME NEW t \in Token, t \in start
        PROVE  /\ Getting(r[t]) \in [st : {"none", "getting"} \cup Outcome, left : Nat]
               /\ Missed(t, Targets[t[1]] - r[t]) \in Nat
    BY <2>1, <2>4, AnswerFacts, MissedIsCount DEF Getting
  <2>5. Purged \in [Credential -> {"unavailable", "ready", "expired", "gone"}]
    BY <1>1 DEF Purged, TransportOK
  <2>6. TransportOK'
    BY <1>1, <1>2, <2>1, <2>4, <2>5 DEF TransportOK
  <2> QED
    BY <1>3, <2>3, <2>6 DEF ReceiveInv
<1>5. ASSUME NEW how \in {"transient", "fatal"}, RequestFailed(b, how)
      PROVE  ReceiveInv'
  <2> DEFINE spoil == {t \in Asked(b) \ cancelled : ~Has(t)}
  <2>1. /\ session' = Release(Asked(b))
        /\ pending' = [t \in Token |-> IF t \in spoil THEN Settled(how) ELSE pending[t]]
        /\ misses' = [t \in Token |-> IF t \in spoil THEN Missed(t, Targets[t[1]])
                                      ELSE misses[t]]
        /\ UNCHANGED placed
    BY <1>5 DEF RequestFailed
  <2>2. SessionsOK'
    BY <2>1, ReleaseKeeps
  <2>3. Settled(how) \in [st : {"none", "getting"} \cup Outcome, left : Nat]
    BY DEF Settled, Outcome
  <2>4. \A t \in Token : Missed(t, Targets[t[1]]) \in Nat
    BY MissedIsCount, TokenFacts
  <2> HIDE DEF spoil
  <2>5. TransportOK'
    BY <1>1, <1>2, <2>1, <2>3, <2>4 DEF TransportOK
  <2> QED
    BY <1>3, <2>2, <2>5 DEF ReceiveInv
<1> QED
    BY <1>4, <1>5 DEF Answered

\* A lookup that is sent keeps its tokens.
LEMMA SentFacts ==
    ASSUME ReceiveInv, Flush
    PROVE  /\ UNCHANGED <<session, pending, cancelled, placed, misses>>
           /\ lookups' \subseteq [tokens : SUBSET Token, batch : SUBSET Token]
           /\ \A k \in lookups' : \E l \in lookups :
                k.tokens = l.tokens /\ \A m \in lookups' :
                  (\E n \in lookups : m.tokens = n.tokens /\ (n = l => m = k))
           /\ Inflight' = Inflight
<1> DEFINE batch == UNION {l.tokens : l \in Queued}
           Sent(l) == IF l \in Queued THEN [l EXCEPT !.batch = batch] ELSE l
<1>1. /\ lookups' = {Sent(l) : l \in lookups}
      /\ UNCHANGED <<session, pending, cancelled, placed, misses>>
    BY DEF Flush, Queued
<1>2. lookups \subseteq [tokens : SUBSET Token, batch : SUBSET Token]
    BY DEF ReceiveInv, TransportOK
<1>3. batch \in SUBSET Token
    BY <1>2 DEF Queued
<1> HIDE DEF batch
<1>4. \A l \in lookups : /\ Sent(l).tokens = l.tokens
                         /\ Sent(l) \in [tokens : SUBSET Token, batch : SUBSET Token]
    BY <1>2, <1>3
<1> HIDE DEF Sent
<1>5. lookups' \subseteq [tokens : SUBSET Token, batch : SUBSET Token]
    BY <1>1, <1>4
<1>6. ASSUME NEW k \in lookups'
      PROVE  \E l \in lookups : k.tokens = l.tokens /\ \A m \in lookups' :
                \E n \in lookups : m.tokens = n.tokens /\ (n = l => m = k)
  <2>1. PICK l \in lookups : k = Sent(l)
    BY <1>1
  <2>2. ASSUME NEW m \in lookups'
        PROVE  \E n \in lookups : m.tokens = n.tokens /\ (n = l => m = k)
    BY <1>1, <1>4, <2>1
  <2> QED
    BY <1>4, <2>1, <2>2
<1>7. Inflight' = Inflight
  <2>1. \A t : (\E l \in lookups' : t \in l.tokens) <=> (\E l \in lookups : t \in l.tokens)
    BY <1>1, <1>4
  <2> QED
    BY <2>1 DEF Inflight
<1> QED
    BY <1>1, <1>5, <1>6, <1>7

LEMMA FlushKeeps ==
    ASSUME ReceiveInv, Flush
    PROVE  ReceiveInv'
<1>1. LookupsApart'
  <2> SUFFICES ASSUME NEW k \in lookups', NEW m \in lookups', k # m
               PROVE  k.tokens \cap m.tokens = {}
    BY DEF LookupsApart
  <2>1. PICK l \in lookups, n \in lookups :
          k.tokens = l.tokens /\ m.tokens = n.tokens /\ n # l
    BY SentFacts
  <2> QED
    BY <2>1 DEF ReceiveInv, LookupsApart
<1> QED
    BY <1>1, SentFacts DEF ReceiveInv, SessionsOK, SessionOK, TransportOK, OnlyPastEnd

LEMMA GetKeeps ==
    ASSUME ReceiveInv, NEW t \in Token, Ended(t)
    PROVE  ReceiveInv'
<1>1. SessionsOK /\ TransportOK /\ LookupsApart /\ OnlyPastEnd
    BY DEF ReceiveInv
<1>2. UNCHANGED <<cancelled, lookups, placed>>
    BY DEF Ended, GetSucceeds, GetFails
<1>3. CASE GetSucceeds(t)
  <2>1. Settle(t, "body") /\ UNCHANGED misses /\ "body" \in Outcome
    BY <1>3 DEF GetSucceeds, Outcome
  <2>2. /\ SessionsOK'
        /\ pending' \in [Token -> [st : {"none", "getting"} \cup Outcome, left : Nat]]
    BY <2>1, SettleKeeps
  <2> QED
    BY <1>1, <1>2, <2>1, <2>2 DEF ReceiveInv, TransportOK, LookupsApart, OnlyPastEnd
<1>4. ASSUME NEW how \in {"transient", "fatal"}, GetFails(t, how)
      PROVE  ReceiveInv'
  <2>1. misses' \in [Token -> Nat]
    BY <1>1, <1>4, MissedIsCount DEF GetFails, TransportOK
  <2>2. /\ SessionsOK'
        /\ pending' \in [Token -> [st : {"none", "getting"} \cup Outcome, left : Nat]]
    <3>1. CASE HasFallback(t)
      <4>1. pending' = [pending EXCEPT ![t].left = @ - 1] /\ UNCHANGED session
        BY <1>4, <3>1 DEF GetFails
      <4>2. pending[t] \in [st : {"none", "getting"} \cup Outcome, left : Nat]
        BY <1>1 DEF TransportOK
      <4>3. pending[t].left - 1 \in Nat
        BY <3>1, <4>2 DEF HasFallback
      <4>4. [pending[t] EXCEPT !.left = @ - 1]
              \in [st : {"none", "getting"} \cup Outcome, left : Nat]
        BY <4>2, <4>3
      <4> QED
        BY <1>1, <4>1, <4>4 DEF TransportOK, SessionsOK, SessionOK
    <3>2. CASE ~HasFallback(t)
      BY <1>4, <3>2, SettleKeeps DEF GetFails, Outcome
    <3> QED
      BY <3>1, <3>2
  <2> QED
    BY <1>1, <1>2, <2>1, <2>2 DEF ReceiveInv, TransportOK, LookupsApart, OnlyPastEnd
<1> QED
    BY <1>3, <1>4 DEF Ended

-----------------------------------------------------------------------------
(* The theorems.                                                           *)

LEMMA ReceiveInitially == Init => ReceiveInv
<1> SUFFICES ASSUME Init PROVE ReceiveInv
    OBVIOUS
<1>1. PICK a \in Asks : session = [s \in Session |->
                            [Download(None, "idle") EXCEPT !.todo = a[s]]]
    BY DEF Init
<1>2. ASSUME NEW s \in Session PROVE SessionOK(session[s])
  <2>1. a[s] \in Seq(Credential)
    BY DownloadAssumption
  <2>2. session[s] = [c |-> None, pc |-> "idle", i |-> 0, wait |-> {}, out |-> "none",
                      why |-> "none", noRoute |-> 0, noBody |-> 0, missed |-> 0,
                      todo |-> a[s], known |-> FALSE, clean |-> TRUE]
    BY <1>1 DEF Download
  <2> QED
    BY <2>1, <2>2 DEF SessionOK, SessionState, Running
<1>3. SessionsOK
    BY <1>1, <1>2 DEF SessionsOK, SessionOK
<1>4. TransportOK /\ LookupsApart /\ OnlyPastEnd
    BY DEF Init, TransportOK, LookupsApart, OnlyPastEnd, NoEntry
<1> QED
    BY <1>3, <1>4 DEF ReceiveInv

LEMMA ReceiveInvHolds == ReceiveInv /\ [Next]_vars => ReceiveInv'
<1> SUFFICES ASSUME ReceiveInv, [Next]_vars PROVE ReceiveInv'
    OBVIOUS
<1>1. SessionsOK /\ TransportOK /\ LookupsApart /\ OnlyPastEnd
    BY DEF ReceiveInv
<1>2. ASSUME UNCHANGED vars PROVE ReceiveInv'
    BY <1>1, <1>2 DEF vars, ReceiveInv, SessionsOK, SessionOK, TransportOK, LookupsApart, OnlyPastEnd
<1>3. ASSUME NEW s \in Session, SessionStep(s) \/ OpenWindow(s) PROVE ReceiveInv'
    BY <1>3, SessionStepKeeps, TakeBodyKeeps DEF SessionStep
<1>4. ASSUME Flush PROVE ReceiveInv'
    BY <1>4, FlushKeeps
<1>5. ASSUME NEW c \in Credential, Reserved(c) \/ Expires(c) \/ Purges(c)
      PROVE  ReceiveInv'
  <2>1. /\ UNCHANGED <<session, pending, cancelled, lookups, misses>>
        /\ \/ placed' = [placed EXCEPT ![c] = "ready"]
           \/ placed' = [placed EXCEPT ![c] = "expired"]
           \/ placed' = [placed EXCEPT ![c] = "gone"]
    BY <1>5 DEF Reserved, Expires, Purges
  <2>2. placed' \in [Credential -> {"unavailable", "ready", "expired", "gone"}]
    BY <1>1, <2>1 DEF TransportOK
  <2> QED
    BY <1>1, <2>1, <2>2 DEF ReceiveInv, SessionsOK, SessionOK, TransportOK,
                            LookupsApart, OnlyPastEnd
<1> QED
    BY <1>2, <1>3, <1>4, <1>5, LookupKeeps, GetKeeps, StartKeeps
       DEF Next, Loop, Network, Paint, SessionStep

LEMMA ReceiveInvariant == Spec => []ReceiveInv
BY ReceiveInitially, ReceiveInvHolds, PTL DEF Spec

\* The maps of the transport and the locals of the sessions have their types,
\* for any number of downloads that share a transport.
THEOREM TypeCorrect == FairSpec => []TypeOK
<1>1. ReceiveInv => TypeOK
    BY DEF ReceiveInv, SessionsOK, TransportOK, LookupsApart, OnlyPastEnd, TypeOK
<1> QED
    BY <1>1, ReceiveInvariant, PTL DEF FairSpec

\* No sequence of downloads over one transport leaves a token cancelled that a
\* running download still has to take: planAfterSmb cancels only beyond the end
\* of a file, since the window never shrinks below the prefetch.
THEOREM NoNeededTokenIsCancelled == FairSpec => []NeededIsNotCancelled
<1>1. ReceiveInv => NeededIsNotCancelled
  <2> SUFFICES ASSUME ReceiveInv, NEW s \in Session, Busy(s),
                      NEW t \in Tokens(session[s].c, session[s].i, Blocks[session[s].c]),
                      t \in cancelled
               PROVE  FALSE
    BY DEF NeededIsNotCancelled
  <2>1. session[s].c \in Credential /\ session[s].i \in Nat
    BY DEF ReceiveInv, SessionsOK, SessionOK, SessionState, Running, Busy
  <2>2. Blocks[session[s].c] \in Nat
    BY <2>1, TokenFacts
  <2>3. t[1] = session[s].c /\ t[2] \in Nat /\ t[2] < Blocks[session[s].c]
    BY <2>1, <2>2 DEF Tokens
  <2>4. t[2] >= Blocks[t[1]]
    BY DEF ReceiveInv, OnlyPastEnd
  <2> QED
    BY <2>2, <2>3, <2>4
<1> QED
    BY <1>1, ReceiveInvariant, PTL DEF FairSpec
=============================================================================
