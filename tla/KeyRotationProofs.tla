------------------------- MODULE KeyRotationProofs -------------------------
(* Proofs about KeyRotation, for any number of uses, tasks and requests.   *)
EXTENDS KeyRotation, TLAPS

\* The requests keep their type when one of them becomes a request r.
LEMMA BecomesType ==
    ASSUME RequestsOK, NEW q \in Request, NEW r \in ReqState,
           req' = [req EXCEPT ![q] = r],
           r.pc \in {"listed", "verify", "consume", "recount", "haveAuth",
                     "bootAuth", "dropAuth"} \/ r.kind = "register"
               => r.key # None
    PROVE  RequestsOK'
BY DEF RequestsOK

\* The same for a request that only goes on.
LEMMA GotoType ==
    ASSUME RequestsOK, NEW q \in Request, NEW pc \in ReqPC, Goto(q, pc),
           pc \in {"listed", "verify", "consume", "recount", "haveAuth",
                   "bootAuth", "dropAuth"} => req[q].key # None
    PROVE  RequestsOK'
<1> DEFINE r == [req[q] EXCEPT !.pc = pc]
<1>1. req[q] \in ReqState
  BY DEF RequestsOK
<1>2. r \in ReqState /\ r.pc = pc /\ r.key = req[q].key /\ r.kind = req[q].kind
  BY <1>1 DEF ReqState
<1>3. req' = [req EXCEPT ![q] = r]
  BY DEF Goto, RequestsOK
<1>4. QED
  BY <1>2, <1>3, BecomesType DEF RequestsOK

\* What is not under way, and what arrives, is of its type.
LEMMA FreshType ==
    /\ ReqIdle \in ReqState /\ ReqIdle.pc = "idle" /\ ReqIdle.kind = "beat"
    /\ CallIdle \in CallState
    /\ \A c \in Caller, kind \in {"beat", "register"}, key \in ApiKey \cup {None} :
         LET r == Arriving(c, kind, key)
         IN  r \in ReqState /\ r.pc = "gate" /\ r.kind = kind /\ r.key = key
<1>1. ReqIdle \in ReqState /\ CallIdle \in CallState
  BY DEF ReqIdle, CallIdle, ReqState, CallState, ReqPC
<1>2. ReqIdle.pc = "idle" /\ ReqIdle.kind = "beat"
  BY DEF ReqIdle
<1>3. ASSUME NEW c \in Caller, NEW kind \in {"beat", "register"},
             NEW key \in ApiKey \cup {None}
      PROVE  /\ Arriving(c, kind, key) \in ReqState
             /\ Arriving(c, kind, key).pc = "gate"
             /\ Arriving(c, kind, key).kind = kind
             /\ Arriving(c, kind, key).key = key
  BY DEF Arriving, ReqIdle, ReqState, ReqPC
<1>4. QED
  BY <1>1, <1>2, <1>3

\* What a task does after an answer is of its type.
LEMMA GoOnType ==
    ASSUME TypeOK, NEW c \in Caller, NEW q \in Request,
           NEW key \in ApiKey \cup {None},
           NEW then \in {"idle", "register", "reregister"},
           GoOn(c, q, key, then)
    PROVE  RequestsOK' /\ call' \in [Caller -> CallState]
<1>1. CASE then = "idle" \/ key = None
  <2>1. req' = [req EXCEPT ![q] = ReqIdle] /\ call' = [call EXCEPT ![c] = CallIdle]
    BY <1>1 DEF GoOn
  <2>2. QED
    BY <2>1, FreshType, BecomesType DEF TypeOK
<1>2. CASE ~(then = "idle" \/ key = None)
  <2>1. /\ req' = [req EXCEPT ![q] = Arriving(c, "register", key)]
        /\ call' = [call EXCEPT ![c] = [pc |-> then, then |-> "idle"]]
    BY <1>2 DEF GoOn
  <2>2. [pc |-> then, then |-> "idle"] \in CallState
    BY DEF CallState
  <2>3. /\ Arriving(c, "register", key) \in ReqState
        /\ Arriving(c, "register", key).pc = "gate"
        /\ Arriving(c, "register", key).key = key
    BY FreshType
  <2>4. RequestsOK'
    BY <1>2, <2>1, <2>3, BecomesType DEF TypeOK
  <2>5. call' \in [Caller -> CallState]
    BY <2>1, <2>2 DEF TypeOK
  <2>6. QED
    BY <2>4, <2>5
<1>3. QED
  BY <1>1, <1>2

\* A heartbeat that is sent is of its type.
LEMMA SendBeatType ==
    ASSUME TypeOK, NEW c \in Caller, NEW q \in Request,
           NEW key \in ApiKey \cup {None},
           NEW then \in {"idle", "register", "reregister"},
           SendBeat(c, q, key, then)
    PROVE  RequestsOK' /\ call' \in [Caller -> CallState]
<1>1. [pc |-> IF key = None THEN "bootstrap" ELSE "beat", then |-> then]
        \in CallState
  BY DEF CallState
<1>2. QED
  BY <1>1, FreshType, BecomesType DEF SendBeat, TypeOK

\* A restart leaves requests without a task that waits for them.
LEMMA RestartType ==
    ASSUME TypeOK, NEW over \in SUBSET Request, Restart(over)
    PROVE  /\ RequestsOK'
           /\ call' \in [Caller -> CallState]
           /\ crashes' \in 0 .. MaxCrashes
<1>1. \A p \in Request :
        /\ [req[p] EXCEPT !.caller = None] \in ReqState
        /\ [req[p] EXCEPT !.caller = None].pc = req[p].pc
        /\ [req[p] EXCEPT !.caller = None].key = req[p].key
        /\ [req[p] EXCEPT !.caller = None].kind = req[p].kind
  BY DEF TypeOK, RequestsOK, ReqState
<1>2. crashes' \in 0 .. MaxCrashes
  BY KeyAssumption DEF TypeOK, Restart
<1>3. QED
  BY <1>1, <1>2, FreshType DEF Restart, TypeOK, RequestsOK

\* Every step keeps every variable of its kind.
LEMMA TypeStep == TypeOK /\ [Next]_vars => TypeOK'
<1> SUFFICES ASSUME TypeOK, [Next]_vars PROVE TypeOK'
  OBVIOUS
<1> USE DEF registry, keys, counts
<1>0. ASSUME NEW q \in Request
      PROVE  req[q] \in ReqState /\ (req[q].key # None => req[q].key \in ApiKey)
  BY DEF TypeOK, RequestsOK, ReqState
<1>1. ASSUME NEW q \in Request, Gate(q) \/ Listed(q) \/ Verify(q) \/ HaveAuth(q)
      PROVE  TypeOK'
  <2>1. CASE Gate(q)
    <3>1. \E pc \in {"forbidden", "issueKey", "listed"} :
            Goto(q, pc) /\ (pc = "listed" => req[q].key # None)
      BY <2>1 DEF Gate
    <3>2. QED
      BY <2>1, <3>1, GotoType DEF TypeOK, Gate, ReqPC
  <2>2. CASE Listed(q)
    <3>1. \E pc \in {"verify", "forbidden"} : Goto(q, pc)
      BY <2>2 DEF Listed
    <3>2. req[q].key # None
      BY <2>2 DEF Listed, TypeOK, RequestsOK
    <3>3. QED
      BY <2>2, <3>1, <3>2, GotoType DEF TypeOK, Listed, ReqPC
  <2>3. CASE Verify(q)
    <3>1. \E pc \in {"unauthorised", "consume", "answered"} : Goto(q, pc)
      BY <2>3 DEF Verify
    <3>2. req[q].key # None
      BY <2>3 DEF Verify, TypeOK, RequestsOK
    <3>3. QED
      BY <2>3, <3>1, <3>2, GotoType DEF TypeOK, Verify, ReqPC
  <2>4. CASE HaveAuth(q)
    <3>1. \E pc \in {"bootAuth", "issueKey", "answered"} : Goto(q, pc)
      BY <2>4 DEF HaveAuth, AfterAuth
    <3>2. req[q].key # None
      BY <2>4 DEF HaveAuth, TypeOK, RequestsOK
    <3>3. QED
      BY <2>4, <3>1, <3>2, GotoType DEF TypeOK, HaveAuth, ReqPC
  <2>5. QED
    BY <1>1, <2>1, <2>2, <2>3, <2>4
<1>2. ASSUME NEW q \in Request, Consume(q) PROVE TypeOK'
  <2>1. req[q].key \in ApiKey /\ req[q].key # None
    BY <1>0, <1>2 DEF Consume, TypeOK, RequestsOK
  <2>2. CASE uses[req[q].key] > 0 /\ uses' = [uses EXCEPT ![req[q].key] = @ - 1]
             /\ Goto(q, "recount")
    <3>1. uses' \in [ApiKey -> Nat]
      BY <2>1, <2>2 DEF TypeOK
    <3>2. QED
      BY <1>2, <2>1, <2>2, <3>1, GotoType DEF TypeOK, Consume, ReqPC
  <2>3. CASE UNCHANGED uses
             /\ req' = [req EXCEPT ![q].pc = "haveAuth", ![q].rest = 0]
    <3> DEFINE r == [req[q] EXCEPT !.pc = "haveAuth", !.rest = 0]
    <3>1. "haveAuth" \in ReqPC
      BY DEF ReqPC
    <3>2. r \in ReqState /\ r.key = req[q].key
      BY <1>0, <3>1 DEF ReqState
    <3>3. req' = [req EXCEPT ![q] = r]
      BY <2>3 DEF TypeOK, RequestsOK
    <3>4. RequestsOK'
      BY <2>1, <3>2, <3>3, BecomesType DEF TypeOK
    <3>5. QED
      BY <1>2, <2>3, <3>4 DEF TypeOK, Consume
  <2>4. QED
    BY <1>2, <2>2, <2>3 DEF Consume
<1>3. ASSUME NEW q \in Request, Recount(q) PROVE TypeOK'
  <2> DEFINE r == [req[q] EXCEPT !.pc = "haveAuth", !.rest = uses[req[q].key]]
  <2>1. req[q].key \in ApiKey /\ req[q].key # None
    BY <1>0, <1>3 DEF Recount, TypeOK, RequestsOK
  <2>2. uses[req[q].key] \in Nat /\ "haveAuth" \in ReqPC
    BY <2>1 DEF TypeOK, ReqPC
  <2>3. r \in ReqState /\ r.key = req[q].key
    BY <1>0, <2>2 DEF ReqState
  <2>4. req' = [req EXCEPT ![q] = r]
    BY <1>3 DEF Recount, TypeOK, RequestsOK
  <2>5. RequestsOK'
    BY <2>1, <2>3, <2>4, BecomesType DEF TypeOK
  <2>6. QED
    BY <1>3, <2>5 DEF TypeOK, Recount
<1>4. ASSUME NEW q \in Request, IssueKey(q) PROVE TypeOK'
  <2> DEFINE pc == IF req[q].key = None THEN "newAuth" ELSE "dropAuth"
             r(k) == [req[q] EXCEPT !.newKey = k, !.pc = pc]
  <2>1. PICK k \in ApiKey :
          /\ uses' = [uses EXCEPT ![k] = InitialUses]
          /\ req' = [req EXCEPT ![q].newKey = k, ![q].pc = pc]
    BY <1>4 DEF IssueKey
  <2>2. uses' \in [ApiKey -> Nat]
    BY <2>1, KeyAssumption DEF TypeOK
  <2>3. pc \in ReqPC
    BY DEF ReqPC
  <2>4. /\ r(k) \in ReqState /\ r(k).pc = pc
        /\ r(k).key = req[q].key /\ r(k).kind = req[q].kind
    BY <1>0, <2>3 DEF ReqState
  <2>5. req' = [req EXCEPT ![q] = r(k)]
    BY <2>1 DEF TypeOK, RequestsOK
  <2>6. RequestsOK'
    BY <2>4, <2>5, BecomesType DEF TypeOK, RequestsOK
  <2>7. QED
    BY <1>4, <2>2, <2>6 DEF TypeOK, IssueKey
<1>5. ASSUME NEW q \in Request, DropAuth(q) PROVE TypeOK'
  BY <1>5, GotoType DEF TypeOK, DropAuth, ReqPC
<1>6. ASSUME NEW q \in Request, IssueAuth(q) PROVE TypeOK'
  <2> DEFINE pc == IF req[q].pc = "newAuth" THEN "answered" ELSE AfterAuth(q)
             r(b) == [req[q] EXCEPT !.newAuth = b, !.pc = pc]
  <2>1. PICK b \in AuthKey :
          /\ active' = b
          /\ req' = [req EXCEPT ![q].newAuth = b, ![q].pc = pc]
    BY <1>6 DEF IssueAuth, TypeOK, RequestsOK
  <2>2. pc \in {"issueKey", "answered"}
    BY DEF AfterAuth
  <2>3. pc \in ReqPC
    BY <2>2 DEF ReqPC
  <2>4. /\ r(b) \in ReqState /\ r(b).pc = pc
        /\ r(b).key = req[q].key /\ r(b).kind = req[q].kind
    BY <1>0, <2>3 DEF ReqState
  <2>5. req' = [req EXCEPT ![q] = r(b)]
    BY <2>1 DEF TypeOK, RequestsOK
  <2>6. RequestsOK'
    BY <2>2, <2>4, <2>5, BecomesType DEF TypeOK, RequestsOK
  <2>7. QED
    BY <1>6, <2>1, <2>6 DEF TypeOK, IssueAuth
<1>7. ASSUME NEW q \in Request, BeatStart(q) PROVE TypeOK'
  <2>1. Loop \in Caller /\ api \in ApiKey \cup {None}
    BY DEF Caller, TypeOK
  <2>2. SendBeat(Loop, q, api, "idle")
    BY <1>7 DEF BeatStart
  <2>3. QED
    BY <1>7, <2>1, <2>2, SendBeatType DEF TypeOK, BeatStart
<1>8. ASSUME NEW q \in Request, NEW c \in Putter, PutStart(c, q) PROVE TypeOK'
  <2>1. c \in Caller /\ api \in ApiKey \cup {None}
    BY DEF Caller, TypeOK
  <2>2. GoOn(c, q, api, "register") \/ SendBeat(c, q, api, "register")
    BY <1>8 DEF PutStart
  <2>3. QED
    BY <1>8, <2>1, <2>2, SendBeatType, GoOnType DEF TypeOK, PutStart
<1>9. ASSUME NEW q \in Request, Deliver(q) PROVE TypeOK'
  <2> DEFINE c == req[q].caller
  <2>1. CASE req' = [req EXCEPT ![q] = ReqIdle] /\ UNCHANGED <<keys, call>>
    BY <1>9, <2>1, FreshType, BecomesType DEF TypeOK, Deliver
  <2>2. ASSUME c # None PROVE c \in Caller /\ call[c].then \in
                                 {"idle", "register", "reregister"}
    BY <1>0, <2>2 DEF TypeOK, ReqState, CallState
  <2>3. CASE c # None /\ Refused(c, q)
    <3>1. CASE GoOn(c, q, None, "idle") /\ UNCHANGED <<api, auth, torn>>
      BY <1>9, <2>2, <2>3, <3>1, GoOnType DEF TypeOK, Deliver
    <3>2. CASE \E then \in {"idle", "register", "reregister"} :
                 SendBeat(c, q, None, then) /\ api' = None
                   /\ UNCHANGED <<auth, torn>>
      BY <1>9, <2>2, <2>3, <3>2, SendBeatType DEF TypeOK, Deliver
    <3>3. QED
      BY <2>2, <2>3, <3>1, <3>2 DEF Refused
  <2>4. CASE c # None /\ Applied(c, q)
    <3>1. api' \in ApiKey \cup {None} /\ auth' \in AuthKey \cup {None}
      BY <1>0, <2>4 DEF Applied, TypeOK, ReqState
    <3>2. torn' \in BOOLEAN
      BY <2>4 DEF Applied, TypeOK
    <3>3. GoOn(c, q, api', call[c].then)
      BY <2>4 DEF Applied
    <3>4. QED
      BY <1>9, <2>2, <2>4, <3>1, <3>2, <3>3, GoOnType DEF TypeOK, Deliver
  <2>5. CASE c # None /\ Passed(c, q)
    <3>1. \E then \in {"idle", "register", "reregister"} : GoOn(c, q, api, then)
      BY <2>2, <2>5 DEF Passed
    <3>2. QED
      BY <1>9, <2>2, <2>5, <3>1, GoOnType DEF TypeOK, Deliver, Passed
  <2>6. QED
    BY <1>9, <2>1, <2>3, <2>4, <2>5 DEF Deliver
<1>10. ASSUME NEW q \in Request, Lose(q) PROVE TypeOK'
  <2> DEFINE r == [req[q] EXCEPT !.caller = None]
  <2>1. /\ r \in ReqState /\ r.pc = req[q].pc
        /\ r.key = req[q].key /\ r.kind = req[q].kind
    BY <1>0 DEF ReqState
  <2>2. ASSUME req' = [req EXCEPT ![q].caller = None] PROVE RequestsOK'
    <3>1. req' = [req EXCEPT ![q] = r]
      BY <2>2 DEF TypeOK, RequestsOK
    <3>2. QED
      BY <2>1, <3>1, BecomesType DEF TypeOK, RequestsOK
  <2>3. ASSUME req' = [req EXCEPT ![q] = ReqIdle] PROVE RequestsOK'
    BY <2>3, FreshType, BecomesType DEF TypeOK
  <2>4. call' \in [Caller -> CallState]
    BY <1>10, FreshType DEF Lose, TypeOK
  <2>5. lost' \in 0 .. MaxLost
    BY <1>10, KeyAssumption DEF Lose, TypeOK
  <2>6. UNCHANGED <<registry, keys, crashes, cuts>>
    BY <1>10 DEF Lose
  <2>7. RequestsOK' => TypeOK'
    BY <2>4, <2>5, <2>6 DEF TypeOK
  <2>8. QED
    BY <1>10, <2>2, <2>3, <2>7 DEF Lose
<1>11. ASSUME NEW q \in Request, CrashApplying(q) PROVE TypeOK'
  <2>1. req[q].newKey \in ApiKey
    BY <1>0, <1>11 DEF CrashApplying, ReqState
  <2>2. Restart({q}) /\ {q} \in SUBSET Request
    BY <1>11 DEF CrashApplying
  <2>3. UNCHANGED <<registry, lost, cuts>>
    BY <2>2 DEF Restart
  <2>4. QED
    BY <1>11, <2>1, <2>2, <2>3, RestartType DEF TypeOK, CrashApplying
<1>12. CASE Crash
  <2>1. Restart({}) /\ {} \in SUBSET Request
    BY <1>12 DEF Crash
  <2>2. UNCHANGED <<registry, lost, cuts>>
    BY <2>1 DEF Restart
  <2>3. QED
    BY <1>12, <2>1, <2>2, RestartType DEF TypeOK, Crash
<1>13. CASE Enable \/ Disable \/ Remove
  <2>1. cuts' \in 0 .. MaxCuts
    BY <1>13, KeyAssumption DEF Enable, Disable, Remove, TypeOK
  <2>2. uses' \in [ApiKey -> Nat]
    BY <1>13 DEF Enable, Disable, Remove, TypeOK
  <2>3. RequestsOK'
    BY <1>13 DEF Enable, Disable, Remove, TypeOK, RequestsOK
  <2>4. QED
    BY <1>13, <2>1, <2>2, <2>3 DEF Enable, Disable, Remove, TypeOK
<1>14. CASE UNCHANGED vars
  BY <1>14 DEF TypeOK, RequestsOK, vars
<1>15. QED
  BY <1>1, <1>2, <1>3, <1>4, <1>5, <1>6, <1>7, <1>8, <1>9, <1>10, <1>11, <1>12,
     <1>13, <1>14 DEF Next, ServerStep

\* Neither the registry nor the relay ever holds a value of the wrong kind;
\* in particular no count of uses falls below zero (services/registry.py).
THEOREM TypeCorrect == Spec => []TypeOK
<1>1. Init => TypeOK
  <2> SUFFICES ASSUME Init PROVE TypeOK
    OBVIOUS
  <2>1. RequestsOK
    BY FreshType DEF Init, RequestsOK
  <2>2. call \in [Caller -> CallState]
    BY FreshType DEF Init
  <2>3. crashes \in 0 .. MaxCrashes /\ lost \in 0 .. MaxLost /\ cuts \in 0 .. MaxCuts
    BY KeyAssumption DEF Init
  <2>4. uses \in [ApiKey -> Nat]
    BY DEF Init
  <2>5. QED
    BY <2>1, <2>2, <2>3, <2>4 DEF Init, TypeOK
<1>2. QED
  BY <1>1, TypeStep, PTL DEF Spec
-----------------------------------------------------------------------------
(* When heartbeats do not overlap, the pair stays in step.                 *)

\* Nothing but one request changes, and it is no new heartbeat.
LEMMA QuietStep ==
    ASSUME KeyInv, UNCHANGED <<uses, active, api, auth, torn>>, NEW q \in Request,
           \A p \in Request \ {q} : req'[p] = req[p],
           Beating(q)' => Beating(q),
           RequestInv(q)'
    PROVE  KeyInv'
<1>1. OneBeat'
  BY DEF KeyInv, OneBeat, Beating
<1>2. ASSUME NEW p \in Request PROVE RequestInv(p)'
  <2>1. CASE p = q
    BY <2>1
  <2>2. CASE p # q
    <3>1. req'[p] = req[p] /\ RequestInv(p)
      BY <2>2 DEF KeyInv
    <3>2. QED
      BY <3>1 DEF RequestInv, BeatHasHeldKey, RotationFollowsLastUse, AnswerIsPair,
                  OnlyBeatsGetKeys, Beating, Spent
  <2>3. QED
    BY <2>1, <2>2
<1>3. UsableKeyHasActiveAuth'
  BY DEF KeyInv, UsableKeyHasActiveAuth, Usable
<1>4. QED
  BY <1>1, <1>2, <1>3 DEF KeyInv

\* One request changes, and no other one is a heartbeat.
LEMMA BeatStep ==
    ASSUME KeyInv, NEW q \in Request,
           \A p \in Request \ {q} : req'[p] = req[p] /\ ~Beating(p),
           RequestInv(q)',
           UsableKeyHasActiveAuth'
    PROVE  KeyInv'
<1>1. OneBeat'
  BY DEF OneBeat, Beating
<1>2. ASSUME NEW p \in Request PROVE RequestInv(p)'
  <2>1. CASE p = q
    BY <2>1
  <2>2. CASE p # q
    <3>1. req'[p] = req[p] /\ ~Beating(p) /\ RequestInv(p)
      BY <2>2 DEF KeyInv
    <3>2. ~Beating(p)'
      BY <3>1 DEF Beating
    <3>3. req[p].newKey = None /\ req[p].newAuth = None
      BY <3>1 DEF RequestInv, OnlyBeatsGetKeys
    <3>4. req[p].pc \notin {"dropAuth", "newAuth"}
      BY <3>1, <3>3 DEF RequestInv, AnswerIsPair
    <3>5. QED
      BY <3>1, <3>2, <3>3, <3>4
      DEF RequestInv, BeatHasHeldKey, RotationFollowsLastUse, AnswerIsPair,
          OnlyBeatsGetKeys
  <2>3. QED
    BY <2>1, <2>2
<1>3. QED
  BY <1>1, <1>2 DEF KeyInv

\* A request that goes on changes in nothing else.
LEMMA GotoEffect ==
    ASSUME RequestsOK, NEW q \in Request, NEW pc, Goto(q, pc)
    PROVE  /\ \A p \in Request \ {q} : req'[p] = req[p]
           /\ req'[q].pc = pc
           /\ req'[q].kind = req[q].kind
           /\ req'[q].key = req[q].key
           /\ req'[q].rest = req[q].rest
           /\ req'[q].newKey = req[q].newKey
           /\ req'[q].newAuth = req[q].newAuth
<1>1. req[q] \in ReqState
  BY DEF RequestsOK
<1>2. req' = [req EXCEPT ![q] = [req[q] EXCEPT !.pc = pc]]
  BY DEF Goto, RequestsOK
<1>3. \A p \in Request \ {q} : req'[p] = req[p]
  BY <1>2 DEF RequestsOK
<1>4. req'[q] = [req[q] EXCEPT !.pc = pc]
  BY <1>2 DEF RequestsOK
<1>5. QED
  BY <1>1, <1>3, <1>4 DEF ReqState

\* A request that has learnt how many uses are left changes in nothing else.
LEMMA RestEffect ==
    ASSUME RequestsOK, NEW q \in Request, NEW n,
           req' = [req EXCEPT ![q].pc = "haveAuth", ![q].rest = n]
    PROVE  /\ \A p \in Request \ {q} : req'[p] = req[p]
           /\ req'[q].pc = "haveAuth"
           /\ req'[q].kind = req[q].kind
           /\ req'[q].key = req[q].key
           /\ req'[q].rest = n
           /\ req'[q].newKey = req[q].newKey
           /\ req'[q].newAuth = req[q].newAuth
<1>1. req[q] \in ReqState
  BY DEF RequestsOK
<1>2. req' = [req EXCEPT ![q] = [req[q] EXCEPT !.pc = "haveAuth", !.rest = n]]
  BY DEF RequestsOK
<1>3. \A p \in Request \ {q} : req'[p] = req[p]
  BY <1>2 DEF RequestsOK
<1>4. req'[q] = [req[q] EXCEPT !.pc = "haveAuth", !.rest = n]
  BY <1>2 DEF RequestsOK
<1> DEFINE mid == [req[q] EXCEPT !.pc = "haveAuth"]
<1>5. mid \in ReqState /\ mid.pc = "haveAuth"
  BY <1>1 DEF ReqState, ReqPC
<1>6. mid.kind = req[q].kind /\ mid.key = req[q].key
  BY <1>1 DEF ReqState
<1>7. mid.newKey = req[q].newKey /\ mid.newAuth = req[q].newAuth
  BY <1>1 DEF ReqState
<1>8. req'[q] = [mid EXCEPT !.rest = n]
  BY <1>1, <1>4 DEF ReqState
<1> HIDE DEF mid
<1>9. /\ req'[q].pc = mid.pc
      /\ req'[q].rest = n
  BY <1>5, <1>8 DEF ReqState
<1>10. /\ req'[q].kind = mid.kind
       /\ req'[q].key = mid.key
  BY <1>5, <1>8 DEF ReqState
<1>11. /\ req'[q].newKey = mid.newKey
       /\ req'[q].newAuth = mid.newAuth
  BY <1>5, <1>8 DEF ReqState
<1>12. QED
  BY <1>3, <1>5, <1>6, <1>7, <1>9, <1>10, <1>11

\* create_registry_api_key: a key that nobody holds, with all its uses.
LEMMA IssueKeyEffect ==
    ASSUME TypeOK, NEW q \in Request, IssueKey(q)
    PROVE  \E k \in ApiKey :
             /\ FreshApi(k)
             /\ uses' = [uses EXCEPT ![k] = InitialUses]
             /\ req' = [req EXCEPT ![q] =
                  [req[q] EXCEPT !.newKey = k,
                                 !.pc = IF req[q].key = None THEN "newAuth"
                                        ELSE "dropAuth"]]
<1>1. PICK k \in ApiKey :
        /\ NewApi(k)
        /\ uses' = [uses EXCEPT ![k] = InitialUses]
        /\ req' = [req EXCEPT ![q].newKey = k,
                              ![q].pc = IF req[q].key = None THEN "newAuth"
                                        ELSE "dropAuth"]
  BY DEF IssueKey
<1>2. req' = [req EXCEPT ![q] =
               [req[q] EXCEPT !.newKey = k,
                              !.pc = IF req[q].key = None THEN "newAuth"
                                     ELSE "dropAuth"]]
  BY <1>1 DEF TypeOK, RequestsOK
<1>3. QED
  BY <1>1, <1>2 DEF NewApi

\* create_block_auth_key: the key in force from now on.
LEMMA IssueAuthEffect ==
    ASSUME TypeOK, NEW q \in Request, IssueAuth(q)
    PROVE  /\ active' \in AuthKey
           /\ req' = [req EXCEPT ![q] =
                [req[q] EXCEPT !.newAuth = active',
                               !.pc = IF req[q].pc = "newAuth" THEN "answered"
                                      ELSE AfterAuth(q)]]
<1>1. PICK b \in AuthKey :
        /\ active' = b
        /\ req' = [req EXCEPT ![q].newAuth = b,
                              ![q].pc = IF @ = "newAuth" THEN "answered"
                                        ELSE AfterAuth(q)]
  BY DEF IssueAuth
<1>2. QED
  BY <1>1 DEF TypeOK, RequestsOK

\* A step of the registry changes one request, which keeps what it arrived
\* with, and nothing of the relay.
LEMMA ServerFrame ==
    ASSUME TypeOK, NEW q \in Request, ServerStep(q)
    PROVE  /\ \A p \in Request \ {q} : req'[p] = req[p]
           /\ req'[q].kind = req[q].kind
           /\ req'[q].key = req[q].key
           /\ UNCHANGED <<api, auth, torn>>
<1>1. CASE \E pc \in ReqPC : Goto(q, pc) /\ UNCHANGED keys
  BY <1>1, GotoEffect DEF TypeOK, keys
<1>2. CASE Gate(q) \/ Listed(q) \/ Verify(q) \/ HaveAuth(q) \/ DropAuth(q)
  <2>1. \E pc \in ReqPC : Goto(q, pc) /\ UNCHANGED keys
    BY <1>2 DEF Gate, Listed, Verify, HaveAuth, DropAuth, AfterAuth, ReqPC, keys
  <2>2. QED
    BY <1>1, <2>1
<1>3. CASE Consume(q) \/ Recount(q)
  <2>1. CASE \E n : req' = [req EXCEPT ![q].pc = "haveAuth", ![q].rest = n]
    BY <1>3, <2>1, RestEffect DEF TypeOK, Consume, Recount, keys
  <2>2. CASE Goto(q, "recount")
    BY <1>3, <2>2, GotoEffect DEF TypeOK, Consume, Recount, keys
  <2>3. QED
    BY <1>3, <2>1, <2>2 DEF Consume, Recount
<1>4. req[q] \in ReqState
  BY DEF TypeOK, RequestsOK
<1>5. CASE IssueKey(q)
  <2>1. PICK k \in ApiKey :
          req' = [req EXCEPT ![q] =
            [req[q] EXCEPT !.newKey = k,
                           !.pc = IF req[q].key = None THEN "newAuth"
                                  ELSE "dropAuth"]]
    BY <1>5, IssueKeyEffect
  <2>2. \A p \in Request \ {q} : req'[p] = req[p]
    BY <2>1 DEF TypeOK, RequestsOK
  <2>3. req'[q].kind = req[q].kind /\ req'[q].key = req[q].key
    BY <1>4, <2>1 DEF TypeOK, RequestsOK, ReqState
  <2>4. QED
    BY <1>5, <2>2, <2>3 DEF IssueKey, keys
<1>6. CASE IssueAuth(q)
  <2>1. req' = [req EXCEPT ![q] =
          [req[q] EXCEPT !.newAuth = active',
                         !.pc = IF req[q].pc = "newAuth" THEN "answered"
                                ELSE AfterAuth(q)]]
    BY <1>6, IssueAuthEffect
  <2>2. \A p \in Request \ {q} : req'[p] = req[p]
    BY <2>1 DEF TypeOK, RequestsOK
  <2>3. req'[q].kind = req[q].kind /\ req'[q].key = req[q].key
    BY <1>4, <2>1 DEF TypeOK, RequestsOK, ReqState
  <2>4. QED
    BY <1>6, <2>2, <2>3 DEF IssueAuth, keys
<1>7. QED
  BY <1>2, <1>3, <1>5, <1>6 DEF ServerStep

\* While the registry works on a heartbeat, it works on no other.
LEMMA Alone ==
    ASSUME KeyInv, NEW q \in Request, Beating(q)
    PROVE  /\ \A p \in Request \ {q} : ~Beating(p)
           /\ req[q].key = api
BY DEF KeyInv, OneBeat, RequestInv, BeatHasHeldKey

\* What the registry does for a heartbeat, beyond letting it in.
LEMMA BeatWork ==
    ASSUME TypeOK, KeyInv, NEW q \in Request,
           req[q].pc \in {"consume", "recount", "haveAuth", "bootAuth",
                          "issueKey", "dropAuth", "newAuth"}
    PROVE  Beating(q)
<1>1. req[q].kind \in {"beat", "register"}
  BY DEF TypeOK, RequestsOK, ReqState
<1>2. QED
  BY <1>1 DEF KeyInv, RequestInv, OnlyBeatsGetKeys, Beating

\* A step of the registry keeps KeyInv.
LEMMA ServerKeeps ==
    ASSUME TypeOK, KeyInv, NEW q \in Request, ServerStep(q)
    PROVE  KeyInv'
<1> DEFINE r == req[q]
<1> USE DEF registry, keys
<1>a. /\ \A p \in Request \ {q} : req'[p] = req[p]
      /\ req'[q].kind = r.kind /\ req'[q].key = r.key
      /\ UNCHANGED <<api, auth, torn>>
  BY ServerFrame
<1>b. /\ RequestInv(q) /\ UsableKeyHasActiveAuth
      /\ r \in ReqState /\ (r.kind = "register" => r.key # None)
      /\ req \in [Request -> ReqState] /\ uses \in [ApiKey -> Nat]
      /\ (r.key # None => r.key \in ApiKey)
  BY DEF KeyInv, TypeOK, RequestsOK, ReqState
<1>1. CASE Gate(q) \/ Listed(q) \/ Verify(q)
  <2>1. /\ req'[q].newKey = r.newKey /\ req'[q].newAuth = r.newAuth
        /\ r.pc \in {"gate", "listed", "verify"}
        /\ req'[q].pc \in {"forbidden", "issueKey", "listed", "verify",
                           "unauthorised", "consume", "answered"}
        /\ req'[q].pc = "issueKey" => r.key = None
        /\ req'[q].pc = "answered" => r.kind # "beat"
        /\ req'[q].pc = "consume" => r.kind = "beat"
        /\ UNCHANGED <<uses, active>>
    <3>1. CASE Gate(q)
      BY <1>b, <3>1, GotoEffect DEF Gate, TypeOK
    <3>2. CASE Listed(q)
      BY <3>2, GotoEffect DEF Listed, TypeOK
    <3>3. CASE Verify(q)
      BY <1>b, <3>3, GotoEffect DEF Verify, TypeOK, ReqState
    <3>4. QED
      BY <1>1, <3>1, <3>2, <3>3
  <2>2. r.newKey = None
    BY <1>b, <2>1 DEF RequestInv, AnswerIsPair
  <2>3. Beating(q)' <=> Beating(q)
    BY <1>a, <2>1 DEF Beating
  <2>4. BeatHasHeldKey(q)' /\ AnswerIsPair(q)'
    BY <1>a, <1>b, <2>1, <2>2, <2>3 DEF RequestInv, BeatHasHeldKey, AnswerIsPair
  <2>5. RotationFollowsLastUse(q)'
    <3>1. Beating(q) /\ r.newAuth # None => torn \/ Spent(q)
      BY <1>b DEF RequestInv, RotationFollowsLastUse
    <3>2. Spent(q)' <=> Spent(q)
      BY <1>a, <2>1 DEF Spent
    <3>3. r.key = None => Spent(q)
      BY DEF Spent
    <3>4. QED
      BY <1>a, <2>1, <2>2, <2>3, <3>1, <3>2, <3>3 DEF RotationFollowsLastUse
  <2>6. OnlyBeatsGetKeys(q)'
    BY <1>a, <1>b, <2>1, <2>2, <2>3 DEF RequestInv, OnlyBeatsGetKeys
  <2>7. QED
    BY <1>a, <2>1, <2>3, <2>4, <2>5, <2>6, QuietStep DEF RequestInv
<1>2. ASSUME r.pc \in {"consume", "recount", "haveAuth", "bootAuth",
                       "issueKey", "dropAuth", "newAuth"},
             req'[q].pc # "idle"
      PROVE  /\ r.key = api
             /\ r.kind = "beat" /\ Beating(q) /\ Beating(q)'
             /\ BeatHasHeldKey(q)' /\ OnlyBeatsGetKeys(q)'
             /\ RotationFollowsLastUse(q)' /\ AnswerIsPair(q)'
                  /\ UsableKeyHasActiveAuth' => KeyInv'
  <2>1. Beating(q)
    BY <1>2, BeatWork
  <2>2. r.key = api /\ \A p \in Request \ {q} : ~Beating(p)
    BY <2>1, Alone
  <2>3. Beating(q)' /\ r.kind = "beat"
    BY <1>a, <1>2, <2>1 DEF Beating
  <2>4. BeatHasHeldKey(q)' /\ OnlyBeatsGetKeys(q)'
    BY <1>a, <2>2, <2>3 DEF BeatHasHeldKey, OnlyBeatsGetKeys
  <2>5. QED
    BY <1>a, <2>1, <2>2, <2>3, <2>4, BeatStep DEF RequestInv
<1>3. CASE Consume(q)
  <2>1. r.pc = "consume" /\ UNCHANGED active
    BY <1>3 DEF Consume
  <2>2. /\ req'[q].newKey = r.newKey /\ req'[q].newAuth = r.newAuth
        /\ \/ /\ uses[r.key] > 0
              /\ uses' = [uses EXCEPT ![r.key] = @ - 1]
              /\ req'[q].pc = "recount"
           \/ /\ uses[r.key] = 0
              /\ uses' = uses
              /\ req'[q].pc = "haveAuth"
    BY <1>3, GotoEffect, RestEffect DEF Consume, TypeOK
  <2>3. r.key # None /\ r.key \in ApiKey
    BY <1>b, <2>1 DEF TypeOK, RequestsOK
  <2>4. r.newKey = None
    BY <1>b, <2>1 DEF RequestInv, AnswerIsPair
  <2>5. r.key = api /\ Beating(q)
    BY <1>2, <2>1, <2>2
  <2>6. r.newAuth # None => torn \/ uses[r.key] = 0
    BY <1>b, <2>3, <2>5 DEF RequestInv, RotationFollowsLastUse, Spent
  <2>7. RotationFollowsLastUse(q)'
    BY <1>a, <2>2, <2>3, <2>4, <2>6 DEF RotationFollowsLastUse, Spent
  <2>8. AnswerIsPair(q)'
    BY <2>2, <2>4 DEF AnswerIsPair
  <2>9. UsableKeyHasActiveAuth'
    BY <1>a, <1>b, <2>1, <2>2, <2>3, <2>5 DEF UsableKeyHasActiveAuth, Usable
  <2>10. QED
    BY <1>2, <2>1, <2>2, <2>7, <2>8, <2>9
<1>4. CASE Recount(q) \/ HaveAuth(q)
  <2>1. /\ req'[q].newKey = r.newKey /\ req'[q].newAuth = r.newAuth
        /\ UNCHANGED <<uses, active>>
        /\ \/ /\ r.pc = "recount" /\ req'[q].pc = "haveAuth"
              /\ req'[q].rest = uses[r.key]
           \/ /\ r.pc = "haveAuth" /\ req'[q].rest = r.rest
              /\ \/ active = None /\ req'[q].pc = "bootAuth"
                 \/ r.rest = 0 /\ req'[q].pc = "issueKey"
                 \/ req'[q].pc = "answered"
    <3>1. CASE Recount(q)
      BY <3>1, RestEffect DEF Recount, TypeOK
    <3>2. CASE HaveAuth(q)
      BY <3>2, GotoEffect DEF HaveAuth, AfterAuth, TypeOK
    <3>3. QED
      BY <1>4, <3>1, <3>2
  <2>2. r.newKey = None
    BY <1>b, <2>1 DEF RequestInv, AnswerIsPair
  <2>3. r.key = api /\ Beating(q)
    BY <1>2, <2>1
  <2>4. /\ r.newAuth # None => torn \/ Spent(q)
        /\ r.pc = "haveAuth" /\ r.rest = 0 => Spent(q)
    BY <1>b, <2>3 DEF RequestInv, RotationFollowsLastUse
  <2>5. active = None => torn \/ Spent(q)
    BY <1>b, <2>3 DEF UsableKeyHasActiveAuth, Usable, Spent
  <2>6. Spent(q)' <=> Spent(q)
    BY <1>a, <2>1 DEF Spent
  <2>7. uses[r.key] = 0 => Spent(q)
    BY DEF Spent
  <2>8. RotationFollowsLastUse(q)'
    BY <1>a, <2>1, <2>2, <2>4, <2>5, <2>6, <2>7 DEF RotationFollowsLastUse
  <2>9. AnswerIsPair(q)'
    BY <2>1, <2>2 DEF AnswerIsPair
  <2>10. UsableKeyHasActiveAuth'
    BY <1>a, <1>b, <2>1 DEF UsableKeyHasActiveAuth, Usable
  <2>11. QED
    BY <1>2, <2>1, <2>8, <2>9, <2>10
<1>5. CASE IssueKey(q)
  <2>1. r.pc = "issueKey" /\ UNCHANGED active
    BY <1>5 DEF IssueKey
  <2>2. PICK k \in ApiKey :
          /\ FreshApi(k)
          /\ uses' = [uses EXCEPT ![k] = InitialUses]
          /\ req' = [req EXCEPT ![q] =
               [r EXCEPT !.newKey = k,
                         !.pc = IF r.key = None THEN "newAuth" ELSE "dropAuth"]]
    BY <1>5, IssueKeyEffect
  <2>3. /\ req'[q].newKey = k /\ req'[q].newAuth = r.newAuth
        /\ req'[q].pc \in {"newAuth", "dropAuth"}
    BY <1>b, <2>2 DEF ReqState
  <2>4. k # api /\ k # r.key /\ k # None
    BY <2>2, KeyAssumption DEF FreshApi
  <2>5. r.key = api /\ Beating(q)
    BY <1>2, <2>1, <2>3
  <2>6. Spent(q)
    BY <1>b, <2>1, <2>5 DEF RequestInv, RotationFollowsLastUse
  <2>7. Spent(q)'
    BY <1>a, <1>b, <2>2, <2>4, <2>6 DEF Spent
  <2>8. RotationFollowsLastUse(q)'
    BY <1>a, <2>3, <2>4, <2>7 DEF RotationFollowsLastUse
  <2>9. AnswerIsPair(q)'
    BY <2>3, <2>4 DEF AnswerIsPair
  <2>10. UsableKeyHasActiveAuth'
    BY <1>a, <1>b, <2>5, <2>7 DEF UsableKeyHasActiveAuth, Usable, Spent
  <2>11. QED
    BY <1>2, <2>1, <2>3, <2>8, <2>9, <2>10
<1>6. CASE DropAuth(q)
  <2>1. /\ r.pc = "dropAuth" /\ UNCHANGED uses
        /\ req'[q].pc = "newAuth"
        /\ req'[q].newKey = r.newKey /\ req'[q].newAuth = r.newAuth
    BY <1>6, GotoEffect DEF DropAuth, TypeOK
  <2>2. r.key = api /\ Beating(q)
    BY <1>2, <2>1
  <2>3. Spent(q) /\ r.newKey # r.key /\ r.newKey # None
    BY <1>b, <2>1, <2>2 DEF RequestInv, RotationFollowsLastUse, AnswerIsPair
  <2>4. Spent(q)'
    BY <1>a, <2>1, <2>3 DEF Spent
  <2>5. RotationFollowsLastUse(q)'
    BY <1>a, <2>1, <2>3, <2>4 DEF RotationFollowsLastUse
  <2>6. AnswerIsPair(q)'
    BY <2>1, <2>3 DEF AnswerIsPair
  <2>7. UsableKeyHasActiveAuth'
    BY <1>a, <1>b, <2>2, <2>4 DEF UsableKeyHasActiveAuth, Usable, Spent
  <2>8. QED
    BY <1>2, <2>1, <2>5, <2>6, <2>7
<1>7. CASE IssueAuth(q)
  <2>1. /\ r.pc \in {"bootAuth", "newAuth"} /\ UNCHANGED uses
        /\ active' # None
    BY <1>7, IssueAuthEffect, KeyAssumption DEF IssueAuth
  <2>2. /\ req'[q].newKey = r.newKey /\ req'[q].newAuth = active'
        /\ req'[q].pc = IF r.pc = "newAuth" THEN "answered" ELSE AfterAuth(q)
    <3>1. req'[q] = [r EXCEPT !.newAuth = active',
                       !.pc = IF r.pc = "newAuth" THEN "answered" ELSE AfterAuth(q)]
      BY <1>7, <1>b, IssueAuthEffect
    <3>2. QED
      BY <1>b, <3>1 DEF ReqState
  <2>3. req'[q].pc \in {"answered", "issueKey"}
        /\ (req'[q].pc = "issueKey" => r.pc = "bootAuth" /\ r.rest = 0)
    BY <2>1, <2>2 DEF AfterAuth
  <2>4. r.key = api /\ Beating(q)
    BY <1>2, <2>1, <2>3
  <2>5. /\ torn \/ Spent(q)
        /\ req'[q].pc = "issueKey" => Spent(q) /\ r.newKey = None
        /\ r.newKey # None => Spent(q) /\ r.newKey # r.key
    BY <1>b, <2>1, <2>3, <2>4 DEF RequestInv, RotationFollowsLastUse, AnswerIsPair
  <2>6. Spent(q)' <=> Spent(q)
    BY <1>a, <2>1 DEF Spent
  <2>7. RotationFollowsLastUse(q)'
    BY <1>a, <2>2, <2>3, <2>5, <2>6 DEF RotationFollowsLastUse
  <2>8. AnswerIsPair(q)'
    BY <2>1, <2>2, <2>3, <2>5 DEF AnswerIsPair
  <2>9. UsableKeyHasActiveAuth'
    BY <1>a, <2>4, <2>5, <2>6 DEF UsableKeyHasActiveAuth, Usable, Spent
  <2>10. QED
    BY <1>2, <2>1, <2>3, <2>7, <2>8, <2>9
<1>8. QED
  BY <1>1, <1>3, <1>4, <1>5, <1>6, <1>7 DEF ServerStep

\* A request that is done, and a register call that arrives, hold no new key
\* and are no heartbeat.
LEMMA GoOnEffect ==
    ASSUME TypeOK, NEW c \in Caller, NEW q \in Request, NEW key, NEW then,
           GoOn(c, q, key, then)
    PROVE  /\ \A p \in Request \ {q} : req'[p] = req[p]
           /\ ~Beating(q)'
           /\ RequestInv(q)'
<1>1. req' = [req EXCEPT ![q] = ReqIdle]
        \/ req' = [req EXCEPT ![q] = Arriving(c, "register", key)]
  BY DEF GoOn
<1>2. \A p \in Request \ {q} : req'[p] = req[p]
  BY <1>1 DEF TypeOK, RequestsOK
<1>3. req'[q] = ReqIdle \/ req'[q] = Arriving(c, "register", key)
  BY <1>1 DEF TypeOK, RequestsOK
<1>4. /\ req'[q].newKey = None /\ req'[q].newAuth = None
      /\ \/ req'[q].pc = "idle" /\ req'[q].kind = "beat"
         \/ req'[q].pc = "gate" /\ req'[q].kind = "register"
  <2>1. CASE req'[q] = ReqIdle
    BY <2>1 DEF ReqIdle
  <2>2. CASE req'[q] = Arriving(c, "register", key)
    BY <2>2 DEF ReqIdle, Arriving
  <2>3. QED
    BY <1>3, <2>1, <2>2
<1>5. ~Beating(q)'
  BY <1>4 DEF Beating
<1>6. RequestInv(q)'
  BY <1>4, <1>5 DEF RequestInv, BeatHasHeldKey, RotationFollowsLastUse, AnswerIsPair,
                    OnlyBeatsGetKeys
<1>7. QED
  BY <1>2, <1>5, <1>6

\* A heartbeat is sent with the key that the relay holds from now on, when the
\* registry works on no other.
LEMMA SendBeatKeeps ==
    ASSUME ~OverlappingBeats, TypeOK, KeyInv, NEW c \in Caller, NEW q \in Request,
           NEW then, SendBeat(c, q, api', then),
           api' \in {api, None}, UNCHANGED <<uses, active, auth, torn>>
    PROVE  KeyInv'
<1>1. req' = [req EXCEPT ![q] = Arriving(c, "beat", api')]
  BY DEF SendBeat
<1>2. \A p \in Request \ {q} : req'[p] = req[p] /\ ~Beating(p)
  BY <1>1 DEF TypeOK, RequestsOK, SendBeat, MayBeat
<1>3. req'[q] = Arriving(c, "beat", api')
  BY <1>1 DEF TypeOK, RequestsOK
<1>4. /\ req'[q].newKey = None /\ req'[q].newAuth = None /\ req'[q].key = api'
      /\ req'[q].pc = "gate" /\ req'[q].kind = "beat"
  BY <1>3 DEF ReqIdle, Arriving
<1>5. RequestInv(q)'
  BY <1>4 DEF RequestInv, BeatHasHeldKey, RotationFollowsLastUse, AnswerIsPair,
              OnlyBeatsGetKeys, Beating
<1>6. UsableKeyHasActiveAuth'
  BY DEF KeyInv, UsableKeyHasActiveAuth, Usable
<1>7. QED
  BY <1>2, <1>5, <1>6, BeatStep

\* An answer keeps KeyInv, whoever gets it.
LEMMA DeliverKeeps ==
    ASSUME ~OverlappingBeats, TypeOK, KeyInv, NEW q \in Request, Deliver(q)
    PROVE  KeyInv'
<1> DEFINE r == req[q]
           c == r.caller
<1> USE DEF registry, keys
<1>1. UNCHANGED <<uses, active>>
  BY DEF Deliver
<1>2. CASE req' = [req EXCEPT ![q] = ReqIdle] /\ UNCHANGED <<keys, call>>
  <2>2. /\ \A p \in Request \ {q} : req'[p] = req[p]
        /\ req'[q] = ReqIdle
    BY <1>2 DEF TypeOK, RequestsOK
  <2>3. ~Beating(q)' /\ RequestInv(q)'
    BY <2>2 DEF ReqIdle, Beating, RequestInv, BeatHasHeldKey, RotationFollowsLastUse,
                AnswerIsPair, OnlyBeatsGetKeys
  <2>4. QED
    BY <1>1, <1>2, <2>2, <2>3, QuietStep
<1>3. ASSUME c # None PROVE c \in Caller
  BY <1>3 DEF TypeOK, RequestsOK, ReqState
<1>4. CASE c # None /\ Refused(c, q)
  <2>1. CASE GoOn(c, q, None, "idle") /\ UNCHANGED <<api, auth, torn>>
    BY <1>1, <1>3, <1>4, <2>1, GoOnEffect, QuietStep
  <2>2. CASE /\ api' = None /\ UNCHANGED <<auth, torn>>
             /\ \E then : SendBeat(c, q, None, then)
    BY <1>1, <1>3, <1>4, <2>2, SendBeatKeeps
  <2>3. QED
    BY <1>4, <2>1, <2>2 DEF Refused
<1>5. CASE c # None /\ Applied(c, q)
  <2>1. /\ r.pc = "answered" /\ r.kind = "beat" /\ Beating(q)
        /\ api' = IF r.newKey = None THEN api ELSE r.newKey
        /\ auth' = IF r.newAuth = None THEN auth ELSE r.newAuth
        /\ torn' = (torn /\ (r.newKey = None \/ r.newAuth = None))
    BY <1>5 DEF Applied, Beating
  <2>2. /\ \A p \in Request \ {q} : req'[p] = req[p] /\ ~Beating(p)
        /\ RequestInv(q)' /\ r.key = api
    BY <1>3, <1>5, <2>1, GoOnEffect, Alone DEF Applied
  <2>3. RequestInv(q) /\ UsableKeyHasActiveAuth
    BY DEF KeyInv
  <2>4. ASSUME r.newKey # None PROVE UsableKeyHasActiveAuth'
    <3>1. r.newAuth # None /\ (r.newAuth = active \/ uses[r.newKey] = 0)
      BY <2>1, <2>3, <2>4 DEF RequestInv, AnswerIsPair
    <3>2. api' = r.newKey /\ auth' = r.newAuth
      BY <2>1, <2>4, <3>1
    <3>3. QED
      BY <1>1, <3>1, <3>2 DEF UsableKeyHasActiveAuth, Usable
  <2>5. ASSUME r.newKey = None PROVE UsableKeyHasActiveAuth'
    <3>1. torn' <=> torn
      BY <2>1, <2>5, Zenon
    <3>2. api' = api
      BY <2>1, <2>5
    <3>3. CASE r.newAuth = None
      <4>1. auth' = auth
        BY <2>1, <3>3
      <4>2. QED
        BY <1>1, <2>3, <3>1, <3>2, <4>1 DEF UsableKeyHasActiveAuth, Usable
    <3>4. CASE r.newAuth # None
      <4>1. torn \/ Spent(q)
        BY <2>1, <2>3, <3>4 DEF RequestInv, RotationFollowsLastUse
      <4>2. QED
        BY <1>1, <2>2, <3>1, <3>2, <4>1 DEF UsableKeyHasActiveAuth, Usable, Spent
    <3>5. QED
      BY <3>3, <3>4
  <2>6. QED
    BY <2>2, <2>4, <2>5, BeatStep
<1>6. CASE c # None /\ Passed(c, q)
  BY <1>1, <1>3, <1>6, GoOnEffect, QuietStep DEF Passed
<1>7. QED
  BY <1>2, <1>4, <1>5, <1>6 DEF Deliver

\* A crash of the relay keeps KeyInv.
LEMMA CrashKeeps ==
    ASSUME TypeOK, KeyInv, Crash \/ \E q \in Request : CrashApplying(q)
    PROVE  KeyInv'
<1> USE DEF registry, keys
<1>1. \A p \in Request :
        LET r == [req[p] EXCEPT !.caller = None]
        IN  /\ r.pc = req[p].pc /\ r.kind = req[p].kind /\ r.key = req[p].key
            /\ r.rest = req[p].rest
            /\ r.newKey = req[p].newKey /\ r.newAuth = req[p].newAuth
  BY DEF TypeOK, RequestsOK, ReqState
<1>2. CASE Crash
  <2>1. UNCHANGED <<uses, active, api, auth, torn>>
    BY <1>2 DEF Crash, Restart
  <2>2. \A p \in Request : req'[p] = [req[p] EXCEPT !.caller = None]
    BY <1>2 DEF Crash, Restart
  <2>3. \A p \in Request :
          /\ req'[p].pc = req[p].pc /\ req'[p].kind = req[p].kind
          /\ req'[p].key = req[p].key /\ req'[p].rest = req[p].rest
          /\ req'[p].newKey = req[p].newKey /\ req'[p].newAuth = req[p].newAuth
    BY <1>1, <2>2
  <2>4. OneBeat'
    BY <2>3 DEF KeyInv, OneBeat, Beating
  <2>5. ASSUME NEW p \in Request PROVE RequestInv(p)'
    <3>1. RequestInv(p)
      BY DEF KeyInv
    <3>2. QED
      BY <2>1, <2>3, <3>1 DEF RequestInv, BeatHasHeldKey, RotationFollowsLastUse,
                              AnswerIsPair, OnlyBeatsGetKeys, Beating, Spent
  <2>6. UsableKeyHasActiveAuth'
    BY <2>1 DEF KeyInv, UsableKeyHasActiveAuth, Usable
  <2>7. QED
    BY <2>4, <2>5, <2>6 DEF KeyInv
<1>3. ASSUME NEW q \in Request, CrashApplying(q) PROVE KeyInv'
  <2>1. torn' = TRUE /\ req[q].pc = "answered" /\ req[q].newKey # None
    BY <1>3 DEF CrashApplying
  <2>2. Beating(q)
    BY <2>1 DEF KeyInv, RequestInv, OnlyBeatsGetKeys
  <2>3. \A p \in Request \ {q} : ~Beating(p)
    BY <2>2, Alone
  <2>4. /\ req'[q] = ReqIdle
        /\ \A p \in Request \ {q} : req'[p] = [req[p] EXCEPT !.caller = None]
    BY <1>3 DEF CrashApplying, Restart
  <2>5. \A p \in Request \ {q} :
          /\ req'[p].pc = req[p].pc /\ req'[p].kind = req[p].kind
          /\ req'[p].newKey = req[p].newKey /\ req'[p].newAuth = req[p].newAuth
    BY <1>1, <2>4
  <2>6. ReqIdle.pc = "idle" /\ ReqIdle.kind = "beat"
        /\ ReqIdle.newKey = None /\ ReqIdle.newAuth = None
    BY DEF ReqIdle
  <2>7. ASSUME NEW p \in Request PROVE ~Beating(p)' /\ RequestInv(p)'
    <3>1. CASE p = q
      BY <2>4, <2>6, <3>1 DEF Beating, RequestInv, BeatHasHeldKey,
         RotationFollowsLastUse, AnswerIsPair, OnlyBeatsGetKeys
    <3>2. CASE p # q
      <4>1. ~Beating(p) /\ RequestInv(p)
        BY <2>3, <3>2 DEF KeyInv
      <4>2. ~Beating(p)'
        BY <2>5, <3>2, <4>1 DEF Beating
      <4>3. req[p].newKey = None /\ req[p].newAuth = None
        BY <4>1 DEF RequestInv, OnlyBeatsGetKeys
      <4>4. QED
        BY <2>5, <3>2, <4>1, <4>2, <4>3 DEF RequestInv, BeatHasHeldKey,
           RotationFollowsLastUse, AnswerIsPair, OnlyBeatsGetKeys
    <3>3. QED
      BY <3>1, <3>2
  <2>8. OneBeat'
    BY <2>7 DEF OneBeat
  <2>9. UsableKeyHasActiveAuth'
    BY <2>1 DEF UsableKeyHasActiveAuth
  <2>10. QED
    BY <2>7, <2>8, <2>9 DEF KeyInv
<1>4. QED
  BY <1>2, <1>3

\* The operator and a request that is given up keep KeyInv.
LEMMA OtherKeeps ==
    ASSUME TypeOK, KeyInv,
           Enable \/ Disable \/ Remove \/ \E q \in Request : Lose(q)
    PROVE  KeyInv'
<1> USE DEF registry, keys
<1>1. CASE Enable \/ Disable \/ Remove
  <2>1. UNCHANGED <<req, api, auth, torn>>
    BY <1>1 DEF Enable, Disable, Remove
  <2>2. UNCHANGED <<uses, active>> \/ uses' = [k \in ApiKey |-> 0]
    BY <1>1 DEF Enable, Disable, Remove
  <2>3. OneBeat'
    BY <2>1 DEF KeyInv, OneBeat, Beating
  <2>4. ASSUME NEW p \in Request PROVE RequestInv(p)'
    <3>1. RequestInv(p) /\ req[p] \in ReqState
      BY DEF KeyInv, TypeOK, RequestsOK
    <3>2. BeatHasHeldKey(p)' /\ OnlyBeatsGetKeys(p)'
      BY <2>1, <3>1 DEF RequestInv, BeatHasHeldKey, OnlyBeatsGetKeys, Beating
    <3>3. Spent(p) => Spent(p)'
      BY <2>1, <2>2, <3>1 DEF Spent, ReqState
    <3>4. RotationFollowsLastUse(p)'
      BY <2>1, <3>1, <3>3 DEF RequestInv, RotationFollowsLastUse, Beating
    <3>5. AnswerIsPair(p)'
      BY <2>1, <2>2, <3>1 DEF RequestInv, AnswerIsPair, ReqState
    <3>6. QED
      BY <3>2, <3>4, <3>5 DEF RequestInv
  <2>5. UsableKeyHasActiveAuth'
    BY <2>1, <2>2 DEF KeyInv, TypeOK, UsableKeyHasActiveAuth, Usable
  <2>6. QED
    BY <2>3, <2>4, <2>5 DEF KeyInv
<1>2. ASSUME NEW q \in Request, Lose(q) PROVE KeyInv'
  <2>1. UNCHANGED <<uses, active, api, auth, torn>>
    BY <1>2 DEF Lose
  <2>2. CASE req' = [req EXCEPT ![q] = ReqIdle]
    <3>1. /\ \A p \in Request \ {q} : req'[p] = req[p]
          /\ req'[q] = ReqIdle
      BY <2>2 DEF TypeOK, RequestsOK
    <3>2. ~Beating(q)' /\ RequestInv(q)'
      BY <3>1 DEF ReqIdle, Beating, RequestInv, BeatHasHeldKey,
                  RotationFollowsLastUse, AnswerIsPair, OnlyBeatsGetKeys
    <3>3. QED
      BY <2>1, <3>1, <3>2, QuietStep
  <2>3. CASE req' = [req EXCEPT ![q].caller = None]
    <3>1. req' = [req EXCEPT ![q] = [req[q] EXCEPT !.caller = None]]
      BY <2>3 DEF TypeOK, RequestsOK
    <3>2. /\ \A p \in Request \ {q} : req'[p] = req[p]
          /\ req'[q] = [req[q] EXCEPT !.caller = None]
      BY <3>1 DEF TypeOK, RequestsOK
    <3>3. /\ req'[q].pc = req[q].pc /\ req'[q].kind = req[q].kind
          /\ req'[q].key = req[q].key /\ req'[q].rest = req[q].rest
          /\ req'[q].newKey = req[q].newKey /\ req'[q].newAuth = req[q].newAuth
      BY <3>2 DEF TypeOK, RequestsOK, ReqState
    <3>4. (Beating(q)' <=> Beating(q)) /\ RequestInv(q)
      BY <3>3 DEF Beating, KeyInv
    <3>5. RequestInv(q)'
      BY <2>1, <3>3, <3>4 DEF RequestInv, BeatHasHeldKey, RotationFollowsLastUse,
                              AnswerIsPair, OnlyBeatsGetKeys, Spent
    <3>6. QED
      BY <2>1, <3>2, <3>4, <3>5, QuietStep
  <2>4. QED
    BY <1>2, <2>2, <2>3 DEF Lose
<1>3. QED
  BY <1>1, <1>2

\* Every step keeps KeyInv.
LEMMA SerialStep ==
    ASSUME ~OverlappingBeats, TypeOK, KeyInv, [Next]_vars
    PROVE  KeyInv'
<1> USE DEF registry, keys
<1>1. ASSUME NEW q \in Request, BeatStart(q) PROVE KeyInv'
  <2>1. Loop \in Caller
    BY DEF Caller
  <2>2. QED
    BY <1>1, <2>1, SendBeatKeeps DEF BeatStart
<1>2. ASSUME NEW q \in Request, NEW c \in Putter, PutStart(c, q) PROVE KeyInv'
  <2>1. c \in Caller /\ UNCHANGED <<uses, active, api, auth, torn>>
    BY <1>2 DEF Caller, PutStart
  <2>2. CASE GoOn(c, q, api, "register")
    BY <2>1, <2>2, GoOnEffect, QuietStep
  <2>3. CASE SendBeat(c, q, api, "register")
    BY <2>1, <2>3, SendBeatKeeps
  <2>4. QED
    BY <1>2, <2>2, <2>3 DEF PutStart
<1>3. CASE UNCHANGED vars
  <2>1. UNCHANGED <<uses, active, req, api, auth, torn>>
    BY <1>3 DEF vars
  <2>2. QED
    BY <2>1 DEF KeyInv, OneBeat, RequestInv, BeatHasHeldKey, RotationFollowsLastUse,
                AnswerIsPair, OnlyBeatsGetKeys, Beating, Spent,
                UsableKeyHasActiveAuth, Usable
<1>4. QED
  BY <1>1, <1>2, <1>3, ServerKeeps, DeliverKeeps, CrashKeeps, OtherKeeps DEF Next

\* As long as the registry works on one heartbeat of a relay at a time, a
\* registryApiKey that it accepts comes with the blockAuthKey it signs with,
\* for any number of tasks, keys, uses, crashes and lost answers.
THEOREM SerialBeatsKeepPair ==
    ~OverlappingBeats => (Spec => []UsableKeyHasActiveAuth)
<1> SUFFICES ASSUME ~OverlappingBeats PROVE Spec => []UsableKeyHasActiveAuth
  OBVIOUS
<1>1. Init => KeyInv
  <2> SUFFICES ASSUME Init PROVE KeyInv
    OBVIOUS
  <2>1. \A q \in Request : req[q] = ReqIdle
    BY DEF Init
  <2>2. \A q \in Request : ~Beating(q) /\ RequestInv(q)
    BY <2>1 DEF ReqIdle, Beating, RequestInv, BeatHasHeldKey, RotationFollowsLastUse,
                AnswerIsPair, OnlyBeatsGetKeys
  <2>3. QED
    BY <2>2 DEF Init, KeyInv, OneBeat, UsableKeyHasActiveAuth, Usable
<1>2. TypeOK /\ KeyInv /\ [Next]_vars => KeyInv'
  BY SerialStep
<1>3. KeyInv => UsableKeyHasActiveAuth
  BY DEF KeyInv
<1>4. QED
  BY <1>1, <1>2, <1>3, TypeCorrect, PTL DEF Spec
=============================================================================
